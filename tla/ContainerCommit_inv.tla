----------------------- MODULE ContainerCommit_inv -------------------------
(***************************************************************************)
(* The inductive invariant behind the crash safety of ContainerCommit.     *)
(***************************************************************************)
EXTENDS ContainerCommit

\* What the proofs assume: commits are synced, no directory exceeds the read
\* cap, and the tail records stay within the reach of the tail scan: for ever
\* if writes may fail, else as long as nothing follows them.
Assumed ==
    /\ SyncOnCommit
    /\ IsFiniteSet(Paths)
    /\ Cardinality(Paths) <= MaxDirEntries
    /\ Window >= MaxLog \/ (MaxFaults = 0 /\ Window >= 2)

----------------------------------------------------------------------------
(* What the log l holds at the positions D.                                *)

\* Header h can be loaded.
GoodIn(l, D, h) ==
    /\ h.kind = "hdr"
    /\ h.dirOff \in D /\ l[h.dirOff] = h.dirCrc
    /\ h.idxOff \in D /\ l[h.idxOff] = h.idxCrc
    /\ h.idxCrc.dirOff = h.dirOff
    /\ h.idxCrc.dirCrc = h.dirCrc
    /\ h.gen = 0 \/ h.idxCrc.gen = h.gen

\* Every chunk of snapshot es is intact.
KeptIn(l, D, es) ==
    \A p \in Paths : es[p] # NoEntry =>
        es[p].chunk \in D /\ l[es[p].chunk] = Chunk(es[p].crc)

Good(h) == GoodIn(log, dur, h)
Kept(es) == KeptIn(log, dur, es)

----------------------------------------------------------------------------
(* The sources of recovery.                                                *)

IsRec(i) == log[i].kind \in {"jnl", "bkp"}

\* Header records are written only after what they point at is durable.
RecordsGood == \A i \in DOMAIN log : IsRec(i) => Good(log[i].hdr)

SlotValues(s) == disk[s] \cup {hdr[s]}

\* So are the slots, torn or not.
SlotsGenuine ==
    \A s \in Slots : \A v \in SlotValues(s) :
        v # Bad => v.kind = "hdr" /\ v.dirOff \in dur /\ v.idxOff \in dur

\* If slot s can be loaded, it holds an allowed snapshot: a torn header can
\* be loaded only if its directory is the one its index describes.
SafeSlot(s) ==
    \A v \in SlotValues(s) : v # Bad => v.idxCrc.dirCrc.entries \in Allowed

\* A durable pair of records is in reach of the tail scan, and it and all the
\* records after it hold allowed snapshots.
TailGood ==
    \E j \in dur :
        /\ j + 1 \in dur
        /\ log[j].kind = "jnl" /\ log[j + 1].kind = "bkp"
        /\ j > Len(log) - Window
        /\ \A i \in DOMAIN log :
            i >= j /\ IsRec(i) => log[i].hdr.dirCrc.entries \in Allowed

PrimaryGood ==
    /\ Good(hdr["primary"])
    /\ hdr["primary"].dirCrc.entries \in Allowed

\* Nothing is in flight on the header page and the primary is right; or only
\* the backup is in flight; or neither slot may be trusted but the tail can.
Calm == SlotsClean /\ PrimaryGood
Covered == disk["primary"] = {hdr["primary"]} /\ PrimaryGood /\ TailGood
Fallback == SafeSlot("primary") /\ SafeSlot("backup") /\ TailGood

Recoverable == Calm \/ Covered \/ Fallback

AllowedKept == \A es \in Allowed : Kept(es)

----------------------------------------------------------------------------
(* Where the process is.                                                   *)

Synced2 == {"bak", "sync3", "prim", "sync4", "publish"}
Jnled == {"bkp", "sync2"} \cup Synced2
Synced1 == {"jnl"} \cup Jnled
Indexed == {"sync1"} \cup Synced1
InTx == {"tx", "idx"} \cup Indexed

\* Blobs the commit has still to append.
Pending == [tx |-> 4, idx |-> 3, sync1 |-> 2, jnl |-> 2, bkp |-> 1]

OffsetInv ==
    /\ pc \in InTx =>
        /\ tx.off <= Len(log)
        /\ Len(log) <= tx.off + 1
        /\ pc # "tx" => Len(log) = tx.off
        /\ \A i \in dur : i <= tx.off
        /\ KeptIn(log, (dur \cup dirty) \cap 1 .. tx.off, tx.entries)
    /\ pc \in DOMAIN Pending => tx.off + Pending[pc] <= MaxLog

HeaderInv ==
    /\ pc = "idx" => /\ tx.off \in dirty
                     /\ log[tx.off] \in DirRec
                     /\ log[tx.off].entries = tx.entries
    /\ pc \in Indexed => /\ tx.h \in Header
                         /\ tx.h.dirCrc.entries = tx.entries
                         /\ GoodIn(log, dur \cup dirty, tx.h)
                         /\ tx.h.dirOff # 0 /\ tx.h.idxOff # 0
    /\ pc \in Synced1 => Good(tx.h) /\ Kept(tx.entries)
    /\ pc \in Jnled => tx.entries \in maybe

RecordInv ==
    /\ pc = "bkp" => /\ tx.off \in dirty
                     /\ log[tx.off].kind = "jnl" /\ log[tx.off].hdr = tx.h
    /\ pc \in {"sync2"} \cup Synced2 =>
        /\ tx.off - 1 \in dur \cup dirty /\ tx.off \in dur \cup dirty
        /\ tx.off - 1 >= 1
        /\ log[tx.off - 1].kind = "jnl" /\ log[tx.off - 1].hdr = tx.h
        /\ log[tx.off].kind = "bkp" /\ log[tx.off].hdr = tx.h
    /\ pc \in Synced2 => tx.off - 1 \in dur /\ tx.off \in dur

SlotInv ==
    /\ pc = "sync3" => 0 \in dirty /\ hdr["backup"] = tx.h
    /\ pc = "prim" => SlotValues("backup") = {tx.h}
    /\ pc = "sync4" => 0 \in dirty /\ hdr["primary"] = tx.h
    /\ pc = "publish" => SlotsClean /\ hdr["primary"] = tx.h

Persisting == {"pprim", "pbak", "psync"}

MemInv ==
    /\ pc # "down" => mem.header # Bad /\ Kept(mem.entries)
    /\ pc \in Persisting =>
        /\ Fallback
        /\ Good(mem.header)
        /\ mem.entries = mem.header.dirCrc.entries
        /\ mem.entries \in Allowed
    /\ pc \in {"pbak", "psync"} => 0 \in dirty

\* If the records may go out of reach, no write fails and the slots are clean
\* whenever something is appended.
CalmInv ==
    Window < MaxLog =>
        /\ pc \in {"open", "tx", "idx", "sync1", "jnl", "bkp", "sync2", "bak"} => Calm
        /\ pc = "down" => SlotsClean
        /\ pc \in {"pbak", "psync"} => hdr["primary"] = mem.header

IInv ==
    /\ TypeOK
    /\ RecordsGood
    /\ SlotsGenuine
    /\ Recoverable
    /\ AllowedKept
    /\ OffsetInv
    /\ HeaderInv
    /\ RecordInv
    /\ SlotInv
    /\ MemInv
    /\ CalmInv

----------------------------------------------------------------------------
(* What needs no fsync and no assumption about the options: nothing writes *)
(* over the directory that Create wrote, so that the scan finds one.       *)

\* At its position is that directory, or the hole a power loss has left of it;
\* if Create syncs, there is no such hole.
FirstDirectory ==
    /\ Created => log[1] \in DirRec /\ log[1].entries = Empty
    /\ SyncOnCommit => Created /\ 1 \in dur

\* An open container has a file, and a transaction appends behind the position,
\* within the bound.
AppendsBehind ==
    /\ pc # "down" => 1 <= Len(log)
    /\ pc \in InTx => 1 <= tx.off /\ tx.off <= Len(log)
    /\ pc \in DOMAIN Pending => tx.off + Pending[pc] <= MaxLog

\* Commit's header is made of the directory it has just written.
HeadersMade ==
    /\ pc = "idx" => log[tx.off] \in DirRec
    /\ pc \in Indexed => tx.h \in Header
    /\ pc # "down" => mem.header \in Header

\* Inductive whatever the constants are.
Founded == TypeOK /\ FirstDirectory /\ AppendsBehind /\ HeadersMade

\* Unless a slot is damaged, neither of them ever is one Open refuses.
NeverRefused == \A s \in Slots : \A v \in SlotValues(s) : v.kind \in {"hdr", "bad"}
============================================================================
