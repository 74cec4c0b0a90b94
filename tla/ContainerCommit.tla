-------------------------- MODULE ContainerCommit --------------------------
(***************************************************************************)
(* One writer on one container: Begin, the transaction's operations, every *)
(* write and fsync of Tx.Commit, Close, Open with its recovery sources and *)
(* the header it writes back, under power loss, failing writes and failing *)
(* fsyncs.                                                                 *)
(*                                                                         *)
(* The storage underneath is external and modelled from what the code may  *)
(* rely on: writes reach the page cache at once and the disk at any time,  *)
(* in any order, until an fsync succeeds; a failed fsync may drop the      *)
(* dirty pages; a write that fails may have written a part.  An overwrite  *)
(* of a header slot that power loss interrupts leaves some fields old and  *)
(* some new, or garbage.                                                   *)
(***************************************************************************)
EXTENDS FbxFormat

CONSTANTS
    SyncOnCommit,   \* Options.SyncOnCommit (FALSE: NoSyncOnCommit)
    SectorLoss,     \* power loss may destroy the one sector of both slots
    MaxLog,         \* bound: blobs in the file
    MaxCrashes,     \* bound: power losses
    MaxFaults       \* bound: failing writes, fsyncs and lock calls

ASSUME CommitAssumption ==
    /\ SyncOnCommit \in BOOLEAN
    /\ SectorLoss \in BOOLEAN
    /\ MaxLog \in Nat /\ MaxLog >= 4
    /\ MaxCrashes \in Nat
    /\ MaxFaults \in Nat

VARIABLES
    log,      \* the appended blobs, as a read sees them
    hdr,      \* the two header slots, as a read sees them
    dur,      \* log positions known to be on disk
    disk,     \* per slot, what power loss may leave there
    dirty,    \* log positions, and 0 for the slots' page, to be written back
    pc,       \* where the process is
    mem,      \* Container.header and Container.entries
    tx,       \* the open transaction
    acked,    \* ghost: the last snapshot whose Commit returned nil
    maybe,    \* ghost: snapshots of commits that ended in doubt since then
    crashes, faults

storage == <<log, hdr, dur, disk, dirty>>
ghosts == <<acked, maybe>>
budgets == <<crashes, faults>>
vars == <<log, hdr, dur, disk, dirty, pc, mem, tx, acked, maybe, crashes, faults>>

HeaderOrBad == Header \cup {Bad}

\* What a header slot may hold.
SlotValue == HeaderOrBad \cup HdrRefused

NoTx == [entries |-> Empty, off |-> 0, h |-> Bad]
NoMem == [header |-> Bad, entries |-> Empty]

\* Snapshots a reader may see after power loss.
Allowed == {acked} \cup maybe

----------------------------------------------------------------------------
(* The file system, as far as the code relies on it (external).            *)

Mix(a, b) ==
    {[kind |-> k.kind, dirOff |-> x.dirOff, dirCrc |-> x.dirCrc,
      idxOff |-> y.idxOff, idxCrc |-> y.idxCrc, gen |-> z.gen] :
        k \in {a, b}, x \in {a, b}, y \in {a, b}, z \in {a, b}}

\* What an interrupted overwrite of a by b may leave.
Tears(a, b) ==
    IF a = b THEN {a}
    ELSE IF Bad \in {a, b} THEN {a, b, Bad}
    ELSE {Bad} \cup Mix(a, b)

\* WriteAt of blob b at log position n: past the end of the file or, after a
\* write that failed, over what it left.
PutAt(n, b) ==
    /\ log' = IF n \in DOMAIN log THEN [log EXCEPT ![n] = b] ELSE Append(log, b)
    /\ dur' = dur \ {n}
    /\ dirty' = dirty \cup {n}
    /\ UNCHANGED <<hdr, disk>>

\* WriteAt of w to slot s.
PutSlot(s, w) ==
    /\ hdr' = [hdr EXCEPT ![s] = w]
    /\ disk' = [disk EXCEPT ![s] = UNION {Tears(d, w) : d \in disk[s]}]
    /\ dirty' = dirty \cup {0}
    /\ UNCHANGED <<log, dur>>

Flush ==
    /\ dur' = dur \cup (dirty \ {0})
    /\ disk' = IF 0 \in dirty THEN [s \in Slots |-> {hdr[s]}] ELSE disk
    /\ dirty' = {}
    /\ UNCHANGED <<log, hdr>>

FlushFail ==
    /\ dirty' \in {dirty, {}}
    /\ UNCHANGED <<log, hdr, dur, disk>>

Fault ==
    /\ faults < MaxFaults
    /\ faults' = faults + 1
    /\ UNCHANGED crashes

----------------------------------------------------------------------------
(* Init: the container as Create left it, its handle closed.  Create syncs *)
(* only if SyncOnCommit; else all of it is still in the page cache.        *)

CreatedHeader(d, x) ==
    [kind |-> "hdr", dirOff |-> 1, dirCrc |-> d, idxOff |-> 2, idxCrc |-> x, gen |-> 1]

Init ==
    /\ \E t \in Times :
        LET d == Dir(Empty, t)
            x == Idx(1, d, 1)
            h == CreatedHeader(d, x)
        IN  /\ log = <<d, x, HeaderRecord("jnl", t, h), HeaderRecord("bkp", t, h)>>
            /\ hdr = [s \in Slots |-> h]
            /\ disk = [s \in Slots |-> IF SyncOnCommit THEN {h} ELSE {Bad, h}]
    /\ dur = IF SyncOnCommit THEN 1 .. 4 ELSE {}
    /\ dirty = IF SyncOnCommit THEN {} ELSE 0 .. 4
    /\ pc = "down"
    /\ mem = NoMem
    /\ tx = NoTx
    /\ acked = Empty
    /\ maybe = {}
    /\ crashes = 0
    /\ faults = 0

----------------------------------------------------------------------------
(* The transaction.                                                        *)

\* Room for a chunk and for the four records of a commit.
Room(n) == n + 5 <= MaxLog

\* Mutant: the append offset is taken from the header, not from the file.
Begin_HeaderOffset ==
    /\ pc = "open"
    /\ Room(Len(log))
    /\ \A p \in Paths : ChunkInFile(log, mem.entries[p])
    /\ tx' = [entries |-> mem.entries, h |-> Bad,
              off |-> IF mem.header.idxOff + 2 < Len(log) THEN mem.header.idxOff + 2
                                                          ELSE Len(log)]
    /\ pc' = "tx"
    /\ UNCHANGED <<storage, mem, ghosts, budgets>>

Begin ==
    /\ pc = "open"
    /\ Room(Len(log))
    /\ \A p \in Paths : ChunkInFile(log, mem.entries[p])
    /\ tx' = [entries |-> mem.entries, off |-> Len(log), h |-> Bad]
    /\ pc' = "tx"
    /\ UNCHANGED <<storage, mem, ghosts, budgets>>

\* Mutant: appendOffset is not advanced past the chunk.
TxPut_NoAdvance(p, v, m) ==
    /\ pc = "tx"
    /\ Room(tx.off)
    /\ PutAt(tx.off + 1, Chunk(v))
    /\ tx' = [tx EXCEPT !.entries[p] = [kind |-> "entry", chunk |-> tx.off + 1,
                                        crc |-> v, meta |-> m]]
    /\ UNCHANGED <<pc, mem, ghosts, budgets>>

\* Add, Upsert, Replace: the payload is appended as one chunk.
TxPut(p, v, m) ==
    /\ pc = "tx"
    /\ Room(tx.off)
    /\ PutAt(tx.off + 1, Chunk(v))
    /\ tx' = [tx EXCEPT !.entries[p] = [kind |-> "entry", chunk |-> tx.off + 1,
                                        crc |-> v, meta |-> m],
                        !.off = @ + 1]
    /\ UNCHANGED <<pc, mem, ghosts, budgets>>

\* The same failing: in the middle of a chunk, or after one (an orphan).
TxPutFail(v) ==
    /\ pc = "tx"
    /\ Room(tx.off)
    /\ Fault
    /\ \/ PutAt(tx.off + 1, Bad) /\ UNCHANGED tx
       \/ PutAt(tx.off + 1, Chunk(v)) /\ tx' = [tx EXCEPT !.off = @ + 1]
    /\ UNCHANGED <<pc, mem, ghosts>>

TxRemove(p) ==
    /\ pc = "tx"
    /\ tx.entries[p] # NoEntry
    /\ tx' = [tx EXCEPT !.entries[p] = NoEntry]
    /\ UNCHANGED <<storage, pc, mem, ghosts, budgets>>

TxSetMeta(p, m) ==
    /\ pc = "tx"
    /\ tx.entries[p] # NoEntry
    /\ tx' = [tx EXCEPT !.entries[p].meta = m]
    /\ UNCHANGED <<storage, pc, mem, ghosts, budgets>>

Rollback ==
    /\ pc = "tx"
    /\ pc' = "open"
    /\ tx' = NoTx
    /\ UNCHANGED <<storage, mem, ghosts, budgets>>

----------------------------------------------------------------------------
(* Tx.Commit, one action per write and per fsync.                          *)

\* appendAt: where the commit's next blob goes.
CommitAppend(b) ==
    /\ PutAt(tx.off + 1, b)
    /\ UNCHANGED <<mem, budgets>>

AppendDir(t) ==
    /\ pc = "tx"
    /\ CommitAppend(Dir(tx.entries, t))
    /\ tx' = [tx EXCEPT !.off = @ + 1]
    /\ pc' = "idx"
    /\ UNCHANGED ghosts

\* Mutant: the generation is not saturated.
NextGen_Unsaturated(h) == h.gen + 1

NextGen(h) == IF h.gen < MaxGen THEN h.gen + 1 ELSE h.gen

\* The index, and the header every later step writes: of mem.header it
\* keeps the generation only, advanced.
AppendIdx ==
    /\ pc = "idx"
    /\ LET g == NextGen(mem.header)
           x == Idx(tx.off, log[tx.off], g)
       IN  /\ CommitAppend(x)
           /\ tx' = [tx EXCEPT !.off = @ + 1,
                               !.h = [kind |-> "hdr",
                                      dirOff |-> tx.off, dirCrc |-> log[tx.off],
                                      idxOff |-> tx.off + 1, idxCrc |-> x,
                                      gen |-> g]]
    /\ pc' = IF SyncOnCommit THEN "sync1" ELSE "jnl"
    /\ UNCHANGED ghosts

\* From here on the commit may turn out to have happened.
AppendJnl(t) ==
    /\ pc = "jnl"
    /\ CommitAppend(HeaderRecord("jnl", t, tx.h))
    /\ tx' = [tx EXCEPT !.off = @ + 1]
    /\ pc' = "bkp"
    /\ maybe' = maybe \cup {tx.entries}
    /\ UNCHANGED acked

\* Mutant: no fsync between the records and the header slots.
AppendBkp_NoSync(t) ==
    /\ pc = "bkp"
    /\ CommitAppend(HeaderRecord("bkp", t, tx.h))
    /\ tx' = [tx EXCEPT !.off = @ + 1]
    /\ pc' = "bak"
    /\ UNCHANGED ghosts

AppendBkp(t) ==
    /\ pc = "bkp"
    /\ CommitAppend(HeaderRecord("bkp", t, tx.h))
    /\ tx' = [tx EXCEPT !.off = @ + 1]
    /\ pc' = IF SyncOnCommit THEN "sync2" ELSE "bak"
    /\ UNCHANGED ghosts

WriteBackup ==
    /\ pc = "bak"
    /\ PutSlot("backup", tx.h)
    /\ pc' = IF SyncOnCommit THEN "sync3" ELSE "prim"
    /\ UNCHANGED <<mem, tx, ghosts, budgets>>

WritePrimary ==
    /\ pc = "prim"
    /\ PutSlot("primary", tx.h)
    /\ pc' = IF SyncOnCommit THEN "sync4" ELSE "publish"
    /\ UNCHANGED <<mem, tx, ghosts, budgets>>

AfterSync ==
    [sync1 |-> "jnl", sync2 |-> "bak", sync3 |-> "prim", sync4 |-> "publish"]

Sync ==
    /\ pc \in DOMAIN AfterSync
    /\ Flush
    /\ pc' = AfterSync[pc]
    /\ UNCHANGED <<mem, tx, ghosts, budgets>>

\* The handle's snapshot is replaced and Commit returns nil.
Publish ==
    /\ pc = "publish"
    /\ mem' = [header |-> tx.h, entries |-> tx.entries]
    /\ acked' = tx.entries
    /\ maybe' = {}
    /\ tx' = NoTx
    /\ pc' = "open"
    /\ UNCHANGED <<storage, budgets>>

\* Mutant: the handle takes over the snapshot of a failed commit.
CommitFails_Publishes(step) ==
    /\ Fault
    /\ step
    /\ pc' = "open"
    /\ mem' = [mem EXCEPT !.entries = tx.entries]
    /\ tx' = NoTx
    /\ UNCHANGED ghosts

\* Every error of Commit releases the transaction and keeps the handle's
\* snapshot; what was written so far stays in the file.
CommitFails(step) ==
    /\ Fault
    /\ step
    /\ pc' = "open"
    /\ tx' = NoTx
    /\ UNCHANGED <<mem, ghosts>>

AppendFails ==
    /\ pc \in {"tx", "idx", "jnl", "bkp"}
    /\ CommitFails(PutAt(tx.off + 1, Bad))

WriteBackupFails ==
    /\ pc = "bak"
    /\ \E w \in Tears(hdr["backup"], tx.h) : CommitFails(PutSlot("backup", w))

WritePrimaryFails ==
    /\ pc = "prim"
    /\ \E w \in Tears(hdr["primary"], tx.h) : CommitFails(PutSlot("primary", w))

SyncFails ==
    /\ pc \in DOMAIN AfterSync
    /\ CommitFails(FlushFail)

----------------------------------------------------------------------------
(* Open, Close and power loss.                                             *)

Close ==
    /\ pc = "open"
    /\ pc' = "down"
    /\ mem' = NoMem
    /\ UNCHANGED <<storage, tx, ghosts, budgets>>

\* Nothing is in flight on the header page.
SlotsClean == \A s \in Slots : disk[s] = {hdr[s]}

\* From here on the opened snapshot is the only one left.
Settle(es) ==
    /\ acked' = es
    /\ maybe' = {}

Opened(src) ==
    /\ pc = "down"
    /\ \E o \in OpenFrom(log, hdr) :
        /\ o.src = src
        /\ mem' = [header |-> o.header, entries |-> o.header.dirCrc.entries]
    /\ UNCHANGED <<storage, tx, budgets>>

OpenPrimary ==
    /\ Opened("primary")
    /\ pc' = "open"
    /\ IF SlotsClean THEN Settle(mem'.entries) ELSE UNCHANGED ghosts

OpenRecovered ==
    /\ Opened("backup") \/ Opened("tail")
    /\ pc' = "pprim"
    /\ UNCHANGED ghosts

OpenScan ==
    /\ Opened("scan")
    /\ pc' = "open"
    /\ UNCHANGED ghosts

\* persistRecoveredHeader: the errors of its writes and its fsync are ignored.
PersistSlot(at, s, next) ==
    /\ pc = at
    /\ \/ PutSlot(s, mem.header) /\ UNCHANGED budgets
       \/ Fault /\ \E w \in Tears(hdr[s], mem.header) : PutSlot(s, w)
    /\ pc' = next
    /\ UNCHANGED <<mem, tx, ghosts>>

PersistPrimary == PersistSlot("pprim", "primary", "pbak")
PersistBackup == PersistSlot("pbak", "backup", "psync")

PersistSync ==
    /\ pc = "psync"
    /\ \/ /\ Flush
          /\ IF hdr["primary"] = mem.header THEN Settle(mem.entries) ELSE UNCHANGED ghosts
          /\ UNCHANGED budgets
       \/ Fault /\ FlushFail /\ UNCHANGED ghosts
    /\ pc' = "open"
    /\ UNCHANGED <<mem, tx>>

\* The file lock cannot be taken: nothing is written.
PersistSkip ==
    /\ pc = "pprim"
    /\ Fault
    /\ pc' = "open"
    /\ UNCHANGED <<storage, mem, tx, ghosts>>

\* Power loss: the file keeps what is durable and any part of the rest; a
\* position that is lost reads as a hole.
CrashLog ==
    \E n \in {k \in 0 .. Len(log) : dur \subseteq 1 .. k} :
        \E K \in SUBSET (1 .. n) :
            /\ dur \subseteq K
            /\ log' = [i \in 1 .. n |-> IF i \in K THEN log[i] ELSE Bad]
            /\ dur' = 1 .. n

CrashSlots ==
    \/ \E a \in disk["primary"], b \in disk["backup"] :
          hdr' = [s \in Slots |-> IF s = "primary" THEN a ELSE b]
    \/ /\ SectorLoss
       /\ ~SlotsClean
       /\ hdr' = [s \in Slots |-> Bad]

Crash ==
    /\ crashes < MaxCrashes
    /\ crashes' = crashes + 1
    /\ CrashLog
    /\ CrashSlots
    /\ disk' = [s \in Slots |-> {hdr'[s]}]
    /\ dirty' = {}
    /\ pc' = "down"
    /\ mem' = NoMem
    /\ tx' = NoTx
    /\ UNCHANGED <<ghosts, faults>>

----------------------------------------------------------------------------

TxStep ==
    \/ \E p \in Paths, v \in Vals, m \in Metas : TxPut(p, v, m)
    \/ \E v \in Vals : TxPutFail(v)
    \/ \E p \in Paths : TxRemove(p)
    \/ \E p \in Paths, m \in Metas : TxSetMeta(p, m)
    \/ Rollback

CommitStep ==
    \/ \E t \in Times : AppendDir(t)
    \/ AppendIdx
    \/ \E t \in Times : AppendJnl(t)
    \/ \E t \in Times : AppendBkp(t)
    \/ WriteBackup
    \/ WritePrimary
    \/ Sync
    \/ Publish

FailStep ==
    \/ AppendFails
    \/ WriteBackupFails
    \/ WritePrimaryFails
    \/ SyncFails

OpenStep ==
    \/ OpenPrimary
    \/ OpenRecovered
    \/ OpenScan
    \/ PersistPrimary
    \/ PersistBackup
    \/ PersistSync
    \/ PersistSkip

Next ==
    \/ Begin
    \/ TxStep
    \/ CommitStep
    \/ FailStep
    \/ OpenStep
    \/ Close
    \/ Crash

Spec == Init /\ [][Next]_vars

----------------------------------------------------------------------------
(* Properties.                                                             *)

PCs == {"down", "pprim", "pbak", "psync", "open", "tx", "idx", "sync1", "jnl",
        "bkp", "sync2", "bak", "sync3", "prim", "sync4", "publish"}

\* Every variable holds what the code can put there: in particular the log
\* never outgrows its bound, only real blobs and headers are written, and the
\* generation stays a uint64.
TypeOK ==
    /\ log \in Seq(Blob) /\ Len(log) <= MaxLog
    /\ hdr \in [Slots -> SlotValue]
    /\ dur \subseteq 1 .. Len(log)
    /\ disk \in [Slots -> SUBSET SlotValue]
    /\ dirty \subseteq 0 .. Len(log)
    /\ pc \in PCs
    /\ mem \in [header : HeaderOrBad, entries : Snapshots]
    /\ tx \in [entries : Snapshots, off : Nat, h : HeaderOrBad]
    /\ acked \in Snapshots
    /\ maybe \subseteq Snapshots
    /\ crashes \in 0 .. MaxCrashes
    /\ faults \in 0 .. MaxFaults

\* Crash safety of Commit and Open: whenever the container is not open,
\* Open succeeds, and the snapshot it returns is the last one whose Commit
\* returned nil or one of the commits in doubt since then, with every
\* entry's chunk intact.
SnapshotSurvives ==
    pc = "down" =>
        /\ OpenFrom(log, hdr) # {}
        /\ \A o \in OpenFrom(log, hdr) :
            LET es == o.header.dirCrc.entries
            IN  es \in Allowed /\ \A p \in Paths : Readable(log, es[p])

\* Append-only: no write of any transaction, committed, failed or rolled
\* back, touches a chunk that the open handle's snapshot refers to.
HandleReadable ==
    pc # "down" => \A p \in Paths : Readable(log, mem.entries[p])

\* The whole of the above, and that nothing but a commit ever changes what an
\* open handle shows: the container implements atomic snapshots.
Abstract == INSTANCE AtomicSnapshots WITH
    Snapshot <- Snapshots,
    Initial <- Empty,
    durable <- acked,
    doubtful <- maybe,
    visible <- IF pc = "down" THEN {} ELSE {mem.entries}

ImplementsAtomicSnapshots == Abstract!Spec

\* The directory Create wrote is in the file.  Without fsync a power loss may
\* have taken it.
Created == log # <<>> /\ log[1] # Bad

\* With or without fsync, the container stays openable: whatever power losses
\* and failing calls have done to the slots, to the records and to every
\* later commit, Open succeeds as long as the directory that Create wrote
\* is there, for no transaction writes over it.
StaysOpenable == pc = "down" /\ Created => OpenFrom(log, hdr) # {}
============================================================================
