--------------------- MODULE ContainerCommitOpens_proofs --------------------
(***************************************************************************)
(* Proofs about ContainerCommit that hold whatever the options are, with   *)
(* or without fsync: every variable keeps its type, and a file that has    *)
(* lost its slots and its tail still opens if it has the directory that    *)
(* Create wrote: nothing writes over it, and the scan finds it if it finds *)
(* no better one.                                                          *)
(***************************************************************************)
EXTENDS ContainerCommit_proofs

----------------------------------------------------------------------------
(* What the storage operations keep.                                       *)

FileTypes ==
    /\ log \in Seq(Blob) /\ Len(log) <= MaxLog
    /\ hdr \in [Slots -> SlotValue]
    /\ dur \subseteq 1 .. Len(log)
    /\ disk \in [Slots -> SUBSET SlotValue]
    /\ dirty \subseteq 0 .. Len(log)

ProcessTypes ==
    /\ pc \in PCs
    /\ mem \in [header : HeaderOrBad, entries : Snapshots]
    /\ tx \in [entries : Snapshots, off : Nat, h : HeaderOrBad]
    /\ acked \in Snapshots
    /\ maybe \subseteq Snapshots
    /\ crashes \in 0 .. MaxCrashes
    /\ faults \in 0 .. MaxFaults

LEMMA TypesSplit == TypeOK <=> FileTypes /\ ProcessTypes
BY DEF TypeOK, FileTypes, ProcessTypes

\* The same of the states of a step.
LEMMA TypesSplitPrime == TypeOK' <=> FileTypes' /\ ProcessTypes'
BY DEF TypeOK, FileTypes, ProcessTypes

\* What holds of the file after every operation of the storage.
FileKept == FileTypes' /\ FirstDirectory' /\ (pc' # "down" => 1 <= Len(log'))

\* WriteAt at the end of the file or over a blob that is not the first.
LEMMA PutAtFile ==
    ASSUME FileTypes, FirstDirectory, NEW n \in 2 .. Len(log) + 1, n <= MaxLog,
           NEW b \in Blob, PutAt(n, b)
    PROVE  FileKept /\ n <= Len(log') /\ Len(log) <= Len(log') /\ log'[n] = b
<1>1. log \in Seq(Blob) /\ Len(log) \in Nat /\ DOMAIN log = 1 .. Len(log) /\ 1 <= Len(log)
  BY DEF FileTypes
<1>2. /\ log' \in Seq(Blob) /\ Len(log') <= MaxLog
      /\ n <= Len(log') /\ Len(log) <= Len(log')
      /\ log'[n] = b /\ log'[1] = log[1]
  <2>1. CASE n \in DOMAIN log
    <3>1. log' = [log EXCEPT ![n] = b]
      BY <2>1 DEF PutAt
    <3>2. log' \in Seq(Blob) /\ Len(log') = Len(log)
      BY <1>1, <2>1, <3>1, ExceptSeq
    <3> QED
      BY <1>1, <2>1, <3>1, <3>2, CommitAssumption DEF FileTypes
  <2>2. CASE n \notin DOMAIN log
    <3>0. n = Len(log) + 1
      BY <1>1, <2>2
    <3>1. log' = Append(log, b)
      BY <2>2 DEF PutAt
    <3>2. /\ log' \in Seq(Blob) /\ Len(log') = Len(log) + 1
          /\ \A i \in 1 .. Len(log) : log'[i] = log[i]
          /\ log'[Len(log) + 1] = b
      BY <1>1, <3>1, AppendProperties
    <3> QED
      BY <1>1, <3>0, <3>1, <3>2 DEF FileTypes
  <2> QED
    BY <2>1, <2>2
<1>3. /\ dur' = dur \ {n} /\ dirty' = dirty \cup {n}
      /\ hdr' = hdr /\ disk' = disk
  BY DEF PutAt
<1>4. Len(log') \in Nat
  BY <1>2
<1>5. dur' \subseteq 1 .. Len(log') /\ dirty' \subseteq 0 .. Len(log')
  BY <1>1, <1>2, <1>3, <1>4 DEF FileTypes
<1>6. log # <<>> /\ log' # <<>>
  BY <1>1, <1>2
<1>7. FirstDirectory'
  BY <1>2, <1>3, <1>6 DEF FirstDirectory, Created
<1>8. 1 <= Len(log')
  BY <1>1, <1>2, <1>4
<1> QED
  BY <1>2, <1>3, <1>5, <1>7, <1>8 DEF FileKept, FileTypes

\* WriteAt of a header slot, complete or not.
LEMMA PutSlotFile ==
    ASSUME FileTypes, FirstDirectory, 1 <= Len(log),
           NEW s \in Slots, NEW w \in SlotValue, PutSlot(s, w)
    PROVE  FileKept
<1>1. /\ hdr' = [hdr EXCEPT ![s] = w]
      /\ disk' = [disk EXCEPT ![s] = UNION {Tears(d, w) : d \in disk[s]}]
      /\ dirty' = dirty \cup {0} /\ log' = log /\ dur' = dur
  BY DEF PutSlot
<1>2. UNION {Tears(d, w) : d \in disk[s]} \subseteq SlotValue
  <2>1. \A d \in disk[s] : d \in SlotValue
    BY DEF FileTypes
  <2> QED
    BY <2>1, TearsFacts
<1>3. 0 \in 0 .. Len(log)
  BY DEF FileTypes
<1> QED
  BY <1>1, <1>2, <1>3 DEF FileKept, FileTypes, FirstDirectory, Created

\* fsync, and an fsync that fails.
LEMMA FlushFile ==
    ASSUME FileTypes, FirstDirectory, 1 <= Len(log), Flush \/ FlushFail
    PROVE  FileKept
<1>1. dirty \ {0} \subseteq 1 .. Len(log)
  BY DEF FileTypes
<1>2. [s \in Slots |-> {hdr[s]}] \in [Slots -> SUBSET SlotValue]
  BY DEF FileTypes
<1>3. CASE Flush
  BY <1>1, <1>2, <1>3 DEF Flush, FileKept, FileTypes, FirstDirectory, Created
<1>4. CASE FlushFail
  BY <1>4 DEF FlushFail, FileKept, FileTypes, FirstDirectory, Created
<1> QED
  BY <1>3, <1>4

\* Power loss: of the first directory it leaves itself or nothing, and itself
\* if it is durable.
LEMMA CrashFile ==
    ASSUME FileTypes, FirstDirectory, Crash
    PROVE  FileKept
<1>0. PICK n \in 0 .. Len(log) : \E K \in SUBSET (1 .. n) :
        /\ dur \subseteq K
        /\ log' = [i \in 1 .. n |-> IF i \in K THEN log[i] ELSE Bad]
        /\ dur' = 1 .. n
  BY DEF Crash, CrashLog
<1>1. PICK K \in SUBSET (1 .. n) :
        /\ dur \subseteq K
        /\ log' = [i \in 1 .. n |-> IF i \in K THEN log[i] ELSE Bad]
        /\ dur' = 1 .. n
  BY <1>0
<1>2. log \in Seq(Blob) /\ Len(log) \in Nat /\ DOMAIN log = 1 .. Len(log) /\ Len(log) <= MaxLog
  BY DEF FileTypes
<1>3. n \in Nat /\ n <= Len(log) /\ 1 .. n \subseteq 1 .. Len(log)
  BY <1>2
<1>4. log' \in [1 .. n -> Blob]
  BY <1>1, <1>2, <1>3, BlobTypes
<1>5. log' \in Seq(Blob) /\ Len(log') = n
  BY <1>3, <1>4
<1>6. SyncOnCommit => 1 \in K /\ 1 \in 1 .. n
  BY <1>1 DEF FirstDirectory
<1>7. FirstDirectory'
  <2>1. ASSUME Created'
        PROVE  Created /\ log'[1] = log[1]
    <3>1. 1 \in 1 .. n
      BY <1>3, <1>5, <2>1 DEF Created
    <3>2. 1 \in K
      BY <1>1, <2>1, <3>1 DEF Created
    <3>3. log'[1] = log[1] /\ log # <<>>
      BY <1>1, <1>2, <1>3, <3>1, <3>2
    <3> QED
      BY <2>1, <3>3 DEF Created
  <2>2. SyncOnCommit => Created'
    <3> SUFFICES ASSUME SyncOnCommit PROVE Created'
      OBVIOUS
    <3>1. log'[1] = log[1] /\ log[1] # Bad
      BY <1>1, <1>6 DEF FirstDirectory, Created
    <3>2. log' # <<>>
      BY <1>3, <1>5, <1>6
    <3> QED
      BY <3>1, <3>2 DEF Created
  <2> QED
    BY <1>1, <1>6, <2>1, <2>2 DEF FirstDirectory
<1>8. hdr' \in [Slots -> SlotValue]
  <2>1. disk \in [Slots -> SUBSET SlotValue] /\ Bad \in SlotValue
    BY DEF FileTypes, HeaderOrBad, SlotValue
  <2>2. CASE \E a \in disk["primary"], b \in disk["backup"] :
                hdr' = [s \in Slots |-> IF s = "primary" THEN a ELSE b]
    BY <2>1, <2>2 DEF Slots
  <2>3. CASE hdr' = [s \in Slots |-> Bad]
    BY <2>1, <2>3
  <2> QED
    BY <2>2, <2>3 DEF Crash, CrashSlots
<1>9. disk' = [s \in Slots |-> {hdr'[s]}] /\ dirty' = {}
  BY DEF Crash
<1>10. disk' \in [Slots -> SUBSET SlotValue]
  BY <1>8, <1>9
<1>11. Len(log') <= MaxLog
  BY <1>2, <1>3, <1>5, CommitAssumption
<1>12. pc' = "down"
  BY DEF Crash
<1> QED
  BY <1>1, <1>5, <1>7, <1>8, <1>9, <1>10, <1>11, <1>12 DEF FileKept, FileTypes

\* A step that leaves the storage alone.
LEMMA SameFile ==
    ASSUME FileTypes, FirstDirectory, pc' # "down" => 1 <= Len(log), UNCHANGED storage
    PROVE  FileKept
BY DEF storage, FileKept, FileTypes, FirstDirectory, Created

----------------------------------------------------------------------------
(* What Open makes of the file.                                            *)

\* The header it ends up with is a header, whichever source it is from.
LEMMA OpenedHeader ==
    ASSUME FileTypes, NEW o \in OpenFrom(log, hdr)
    PROVE  o.header \in Header /\ o.header.dirCrc.entries \in Snapshots
<1>1. \A s \in Slots : hdr[s].kind = "hdr" => hdr[s] \in Header
  BY KindFacts DEF FileTypes, HeaderOrBad, SlotValue
<1>2. \A i \in DOMAIN log : log[i] \in Blob
  BY DEF FileTypes
<1>3. \A h \in recoverBestHeader(log) : h \in Header
  <2>1. \A i \in DOMAIN log : log[i].kind \in {"jnl", "bkp"} => log[i].hdr \in Header
    <3> SUFFICES ASSUME NEW i \in DOMAIN log, log[i].kind \in {"jnl", "bkp"}
                 PROVE  log[i].hdr \in Header
      OBVIOUS
    <3>1. log[i] \in HdrRec
      BY <1>2, KindFacts DEF Blob
    <3> QED
      BY <3>1 DEF HdrRec
  <2>2. \A r \in recoverHeaderByMagic(log, "jnl") \cup recoverHeaderByMagic(log, "bkp") :
            r.hdr \in Header
    BY <2>1 DEF recoverHeaderByMagic, TailPositions, Last
  <2> QED
    BY <2>2 DEF recoverBestHeader
<1>4. \A i \in recoverHeaderFromDirectoryScan(log) : ScanHeader(log, i) \in Header
  <2> SUFFICES ASSUME NEW i \in recoverHeaderFromDirectoryScan(log)
               PROVE  ScanHeader(log, i) \in Header
    OBVIOUS
  <2>1. i \in DOMAIN log /\ log[i].kind = "dir"
    BY DEF recoverHeaderFromDirectoryScan, ScanCandidates
  <2>2. log[i] \in DirRec
    BY <1>2, <2>1, KindFacts DEF Blob
  <2>3. i \in Nat /\ 0 \in 0 .. MaxGen
    BY <2>1, FormatAssumption DEF FileTypes
  <2>4. Idx(0, log[i], 0) \in IdxRec
    BY <2>2, <2>3, BlobTypes
  <2> QED
    BY <2>2, <2>3, <2>4 DEF ScanHeader, Header, HeaderOf
<1>5. o.header \in Header
  <2> DEFINE tails == {h \in recoverBestHeader(log) : Loadable(log, h)}
  <2>1. \/ o = [src |-> "primary", header |-> hdr["primary"]] /\ Loadable(log, hdr["primary"])
        \/ o = [src |-> "backup", header |-> hdr["backup"]] /\ Loadable(log, hdr["backup"])
        \/ \E h \in tails : o = [src |-> "tail", header |-> h]
        \/ \E i \in recoverHeaderFromDirectoryScan(log) :
                o = [src |-> "scan", header |-> ScanHeader(log, i)]
    BY DEF OpenFrom
  <2>2. \A h : Loadable(log, h) => h.kind = "hdr"
    BY DEF Loadable
  <2> QED
    BY <1>1, <1>3, <1>4, <2>1, <2>2 DEF Slots
<1>6. \A h \in Header : h.dirCrc.entries \in Snapshots
  BY DEF Header, HeaderOf, DirRec
<1> QED
  BY <1>5, <1>6

\* And there is a file: all sources lead to a directory in it.
LEMMA OpenedFile ==
    ASSUME FileTypes, NEW o \in OpenFrom(log, hdr)
    PROVE  1 <= Len(log)
<1>1. \A h : Loadable(log, h) => DOMAIN log # {}
  BY DEF Loadable, DirOK
<1>2. \A i \in recoverHeaderFromDirectoryScan(log) : DOMAIN log # {}
  BY DEF recoverHeaderFromDirectoryScan, ScanCandidates
<1> DEFINE tails == {h \in recoverBestHeader(log) : Loadable(log, h)}
<1>3. \/ Loadable(log, hdr["primary"]) \/ Loadable(log, hdr["backup"])
      \/ \E h \in tails : TRUE
      \/ \E i \in recoverHeaderFromDirectoryScan(log) : TRUE
  BY DEF OpenFrom
<1>4. DOMAIN log # {}
  BY <1>1, <1>2, <1>3
<1> QED
  BY <1>4 DEF FileTypes

----------------------------------------------------------------------------
(* Every step keeps Founded, one lemma for the actions of a kind.          *)

\* Where a transaction may append, it may append the next blob.
LEMMA AppendsWithin ==
    ASSUME Founded, pc \in Appending
    PROVE  /\ tx.off \in Nat /\ tx.off >= 1 /\ tx.off <= Len(log) /\ Len(log) \in Nat
           /\ tx.off + 1 \in 2 .. Len(log) + 1 /\ tx.off + 1 <= MaxLog
           /\ tx.off + Pending[pc] <= MaxLog
<1>1. pc \in InTx /\ pc \in DOMAIN Pending /\ Pending[pc] \in 1 .. 4
  BY DEF Appending, InTx, Indexed, Synced1, Jnled, Pending
<1>2. tx.off \in Nat /\ Len(log) \in Nat
  BY DEF Founded, TypeOK
<1> QED
  BY <1>1, <1>2, CommitAssumption DEF Founded, AppendsBehind

\* Outside a transaction nothing is claimed of one.
LEMMA Outside ==
    ASSUME pc' \in {"open", "down"} \cup Persisting, FileKept
    PROVE  /\ AppendsBehind'
           /\ (pc' # "down" => mem'.header \in Header) => HeadersMade'
BY DEF AppendsBehind, HeadersMade, InTx, Indexed, Synced1, Jnled, Synced2, Pending, Persisting,
       FileKept

\* A step that fails or ends the transaction, and one that leaves the handle.
LEMMA EndsTx ==
    ASSUME Founded, FileKept, pc # "down", pc' = "open", tx' = NoTx, mem' = mem,
           UNCHANGED ghosts, crashes' = crashes, faults' \in 0 .. MaxFaults
    PROVE  Founded'
<1>1. NoTx \in [entries : Snapshots, off : Nat, h : HeaderOrBad]
  BY BlobTypes DEF NoTx, HeaderOrBad
<1>2. ProcessTypes'
  BY <1>1 DEF Founded, TypeOK, ProcessTypes, ghosts, PCs
<1>3. AppendsBehind' /\ HeadersMade'
  BY Outside DEF Founded, HeadersMade
<1> QED
  BY <1>2, <1>3, TypesSplitPrime DEF Founded, FileKept

\* A fault stays within its bound.
LEMMA FaultBound ==
    ASSUME TypeOK, Fault
    PROVE  faults' \in 0 .. MaxFaults /\ crashes' = crashes
BY CommitAssumption DEF TypeOK, Fault

LEMMA FailsFounded ==
    ASSUME Founded, FailStep \/ Rollback
    PROVE  Founded'
<1>0. FileTypes /\ FirstDirectory /\ (pc # "down" => 1 <= Len(log))
  BY TypesSplit DEF Founded, AppendsBehind
<1>1. CASE Rollback
  <2>1. FileKept
    BY <1>0, <1>1, SameFile DEF Rollback
  <2> QED
    BY <1>1, <2>1, EndsTx DEF Rollback, budgets, Founded, TypeOK
<1>2. CASE AppendFails
  <2>1. pc \in Appending /\ PutAt(tx.off + 1, Bad)
    BY <1>2 DEF AppendFails, CommitFails, Appending
  <2>2. FileKept
    BY <1>0, <2>1, AppendsWithin, PutAtFile, BlobTypes
  <2> QED
    BY <1>2, <2>1, <2>2, EndsTx, FaultBound DEF AppendFails, CommitFails, Founded, Appending
<1>3. CASE WriteBackupFails
  <2>0. pc # "down"
    BY <1>3 DEF WriteBackupFails
  <2>1. PICK w \in Tears(hdr["backup"], tx.h) : CommitFails(PutSlot("backup", w))
    BY <1>3 DEF WriteBackupFails
  <2>2. w \in SlotValue
    BY TearsFacts DEF Founded, TypeOK, Slots, SlotValue
  <2>3. FileKept
    BY <1>0, <2>0, <2>1, <2>2, PutSlotFile DEF CommitFails, Slots
  <2> QED
    BY <1>3, <2>0, <2>1, <2>3, EndsTx, FaultBound DEF WriteBackupFails, CommitFails, Founded
<1>4. CASE WritePrimaryFails
  <2>0. pc # "down"
    BY <1>4 DEF WritePrimaryFails
  <2>1. PICK w \in Tears(hdr["primary"], tx.h) : CommitFails(PutSlot("primary", w))
    BY <1>4 DEF WritePrimaryFails
  <2>2. w \in SlotValue
    BY TearsFacts DEF Founded, TypeOK, Slots, SlotValue
  <2>3. FileKept
    BY <1>0, <2>0, <2>1, <2>2, PutSlotFile DEF CommitFails, Slots
  <2> QED
    BY <1>4, <2>0, <2>1, <2>3, EndsTx, FaultBound DEF WritePrimaryFails, CommitFails, Founded
<1>5. CASE SyncFails
  <2>0. pc # "down"
    BY <1>5 DEF SyncFails, AfterSync
  <2>1. FileKept
    BY <1>0, <1>5, <2>0, FlushFile DEF SyncFails, CommitFails
  <2> QED
    BY <1>5, <2>1, EndsTx, FaultBound DEF SyncFails, CommitFails, Founded, AfterSync
<1> QED
  BY <1>1, <1>2, <1>3, <1>4, <1>5 DEF FailStep

\* Begin, and the operations that write nothing.
LEMMA BeginFounded ==
    ASSUME Founded, Begin
    PROVE  Founded'
<1>1. /\ pc = "open" /\ pc' = "tx" /\ UNCHANGED <<storage, mem, ghosts, budgets>>
      /\ tx' = [entries |-> mem.entries, off |-> Len(log), h |-> Bad]
      /\ Len(log) + 5 <= MaxLog
  BY DEF Begin, Room
<1>2. FileKept
  BY <1>1, SameFile, TypesSplit DEF Founded, AppendsBehind
<1>3. tx' \in [entries : Snapshots, off : Nat, h : HeaderOrBad]
  BY <1>1 DEF Founded, TypeOK, HeaderOrBad
<1>4. ProcessTypes'
  BY <1>1, <1>3 DEF Founded, TypeOK, ProcessTypes, ghosts, budgets, PCs
<1>5. 1 <= Len(log) /\ Len(log) \in Nat
  BY <1>1 DEF Founded, TypeOK, AppendsBehind
<1>6. AppendsBehind'
  BY <1>1, <1>5, CommitAssumption DEF AppendsBehind, Pending, storage
<1>7. HeadersMade'
  BY <1>1 DEF Founded, HeadersMade, Indexed, Synced1, Jnled, Synced2
<1> QED
  BY <1>2, <1>4, <1>6, <1>7, TypesSplitPrime DEF Founded, FileKept

\* The entries of a transaction keep their type under its operations.
LEMMA EditTypes ==
    ASSUME TypeOK, NEW p \in Paths
    PROVE  /\ \A e \in Entry : [tx.entries EXCEPT ![p] = e] \in Snapshots
           /\ [tx.entries EXCEPT ![p] = NoEntry] \in Snapshots
           /\ tx.entries[p] # NoEntry => \A m \in Metas :
                 [tx.entries EXCEPT ![p] = [tx.entries[p] EXCEPT !.meta = m]] \in Snapshots
<1>1. tx.entries \in [Paths -> Entry \cup {NoEntry}]
  BY DEF TypeOK, Snapshots
<1>2. \A e \in Entry, m \in Metas : [e EXCEPT !.meta = m] \in Entry
  BY DEF Entry
<1> QED
  BY <1>1, <1>2 DEF Snapshots

\* The transaction that operations of it leave.
TxAs(es, n) == [entries |-> es, off |-> n, h |-> tx.h]

LEMMA EditsFounded ==
    ASSUME Founded, FileKept, Len(log) <= Len(log'), pc = "tx", pc' = "tx",
           NEW es \in Snapshots, NEW n \in Nat, tx' = TxAs(es, n), n >= 1, n <= Len(log'),
           n + 4 <= MaxLog, UNCHANGED <<mem, ghosts, crashes>>, faults' \in 0 .. MaxFaults
    PROVE  Founded'
<1>1. tx' \in [entries : Snapshots, off : Nat, h : HeaderOrBad] /\ tx'.off = n
  BY DEF TxAs, Founded, TypeOK
<1>2. ProcessTypes'
  BY <1>1 DEF Founded, TypeOK, ProcessTypes, ghosts, PCs
<1>3. AppendsBehind'
  BY <1>1 DEF AppendsBehind, Pending
<1>4. HeadersMade'
  BY DEF Founded, HeadersMade, Indexed, Synced1, Jnled, Synced2
<1> QED
  BY <1>2, <1>3, <1>4, TypesSplitPrime DEF Founded, FileKept

\* Add, Upsert and Replace, and their failing.
LEMMA PutsFounded ==
    ASSUME Founded,
           \/ \E p \in Paths, v \in Vals, m \in Metas : TxPut(p, v, m)
           \/ \E v \in Vals : TxPutFail(v)
    PROVE  Founded'
<1>0. TypeOK /\ FileTypes /\ FirstDirectory /\ (pc # "down" => 1 <= Len(log))
  BY TypesSplit DEF Founded, AppendsBehind
<1>1. pc = "tx" /\ pc' = "tx" /\ Room(tx.off) /\ UNCHANGED <<mem, ghosts, crashes>>
  BY DEF TxPut, TxPutFail, Fault, budgets
<1>2. faults' \in 0 .. MaxFaults
  BY <1>0, FaultBound DEF TxPut, TxPutFail, budgets, TypeOK
<1>3. /\ tx.off \in Nat /\ tx.off >= 1 /\ tx.off <= Len(log) /\ Len(log) \in Nat
      /\ tx.off + 1 \in 2 .. Len(log) + 1 /\ tx.off + 1 <= MaxLog
      /\ tx.off + 4 <= MaxLog
  BY <1>1, AppendsWithin DEF Appending, Pending
<1>4. tx = TxAs(tx.entries, tx.off) /\ tx.entries \in Snapshots
  BY <1>0 DEF TypeOK, TxAs
<1>5. \A b \in Blob : PutAt(tx.off + 1, b) =>
          FileKept /\ tx.off + 1 <= Len(log') /\ Len(log) <= Len(log')
  BY <1>0, <1>3, PutAtFile
<1>6. tx.off + 1 + 4 <= MaxLog
  BY <1>1, <1>3, CommitAssumption DEF Room
<1>7. CASE \E p \in Paths, v \in Vals, m \in Metas : TxPut(p, v, m)
  <2>1. PICK p \in Paths, v \in Vals, m \in Metas : TxPut(p, v, m)
    BY <1>7
  <2> DEFINE e == [kind |-> "entry", chunk |-> tx.off + 1, crc |-> v, meta |-> m]
  <2>2. e \in Entry
    BY <1>3 DEF Entry
  <2>3. PutAt(tx.off + 1, Chunk(v)) /\ tx' = [tx EXCEPT !.entries[p] = e, !.off = @ + 1]
    BY <2>1 DEF TxPut
  <2> HIDE DEF e
  <2> DEFINE es == [tx.entries EXCEPT ![p] = e]
  <2>4. tx' = TxAs(es, tx.off + 1)
    BY <1>0, <2>3 DEF TypeOK, TxAs
  <2>5. es \in Snapshots
    BY <1>0, <2>2, EditTypes
  <2> HIDE DEF es
  <2>6. FileKept /\ tx.off + 1 <= Len(log') /\ Len(log) <= Len(log')
    BY <1>5, <2>3, BlobTypes
  <2> QED
    BY <1>1, <1>2, <1>3, <1>6, <2>4, <2>5, <2>6, EditsFounded
<1>8. CASE \E v \in Vals : TxPutFail(v)
  <2>1. PICK v \in Vals : TxPutFail(v)
    BY <1>8
  <2>2. CASE PutAt(tx.off + 1, Bad) /\ UNCHANGED tx
    <3>1. FileKept /\ tx.off + 1 <= Len(log') /\ Len(log) <= Len(log')
      BY <1>5, <2>2, BlobTypes
    <3>2. tx' = TxAs(tx.entries, tx.off) /\ tx.off <= Len(log')
      BY <1>3, <1>4, <2>2, <3>1 DEF FileKept, FileTypes
    <3> QED
      BY <1>1, <1>2, <1>3, <1>4, <3>1, <3>2, EditsFounded
  <2>3. CASE PutAt(tx.off + 1, Chunk(v)) /\ tx' = [tx EXCEPT !.off = @ + 1]
    <3>1. FileKept /\ tx.off + 1 <= Len(log') /\ Len(log) <= Len(log')
      BY <1>5, <2>3, BlobTypes
    <3>2. tx' = TxAs(tx.entries, tx.off + 1)
      BY <1>0, <2>3 DEF TypeOK, TxAs
    <3> QED
      BY <1>1, <1>2, <1>3, <1>4, <1>6, <3>1, <3>2, EditsFounded
  <2> QED
    BY <2>1, <2>2, <2>3 DEF TxPutFail
<1> QED
  BY <1>7, <1>8

\* Remove and SetMeta.
LEMMA ChangesFounded ==
    ASSUME Founded,
           \/ \E p \in Paths : TxRemove(p)
           \/ \E p \in Paths, m \in Metas : TxSetMeta(p, m)
    PROVE  Founded'
<1>0. TypeOK /\ FileTypes /\ FirstDirectory /\ (pc # "down" => 1 <= Len(log))
  BY TypesSplit DEF Founded, AppendsBehind
<1>1. pc = "tx" /\ pc' = "tx" /\ UNCHANGED <<storage, mem, ghosts, budgets>>
  BY DEF TxRemove, TxSetMeta
<1>2. /\ tx.off \in Nat /\ tx.off >= 1 /\ tx.off <= Len(log') /\ Len(log) <= Len(log')
      /\ tx.off + 4 <= MaxLog
  BY <1>1, AppendsWithin DEF Appending, Pending, storage
<1>3. FileKept /\ faults' \in 0 .. MaxFaults
  BY <1>0, <1>1, SameFile DEF budgets, TypeOK
<1>4. \E es \in Snapshots : tx' = TxAs(es, tx.off)
  <2>1. CASE \E p \in Paths : TxRemove(p)
    <3>1. PICK p \in Paths : tx' = [tx EXCEPT !.entries[p] = NoEntry]
      BY <2>1 DEF TxRemove
    <3>2. tx' = TxAs([tx.entries EXCEPT ![p] = NoEntry], tx.off)
      BY <1>0, <3>1 DEF TypeOK, TxAs
    <3> QED
      BY <1>0, <3>2, EditTypes
  <2>2. CASE \E p \in Paths, m \in Metas : TxSetMeta(p, m)
    <3>1. PICK p \in Paths, m \in Metas :
              tx.entries[p] # NoEntry /\ tx' = [tx EXCEPT !.entries[p].meta = m]
      BY <2>2 DEF TxSetMeta
    <3>2. tx' = TxAs([tx.entries EXCEPT ![p] = [tx.entries[p] EXCEPT !.meta = m]], tx.off)
      BY <1>0, <3>1 DEF TypeOK, TxAs
    <3> QED
      BY <1>0, <3>1, <3>2, EditTypes
  <2> QED
    BY <2>1, <2>2
<1> QED
  BY <1>1, <1>2, <1>3, <1>4, EditsFounded DEF budgets

----------------------------------------------------------------------------
(* Commit.                                                                 *)

\* A step of Commit from one place to another.
LEMMA CommitsFounded ==
    ASSUME Founded, FileKept, pc # "down", pc' \in PCs,
           tx' \in [entries : Snapshots, off : Nat, h : HeaderOrBad],
           mem' = mem, acked' = acked, maybe' \subseteq Snapshots, UNCHANGED budgets,
           AppendsBehind',
           pc' = "idx" => log'[tx'.off] \in DirRec,
           pc' \in Indexed => tx'.h \in Header
    PROVE  Founded'
<1>1. ProcessTypes'
  BY DEF Founded, TypeOK, ProcessTypes, budgets
<1>2. HeadersMade'
  BY DEF Founded, HeadersMade
<1> QED
  BY <1>1, <1>2, TypesSplitPrime DEF Founded, FileKept

LEMMA AppendDirFounded ==
    ASSUME Founded, NEW t \in Times, AppendDir(t)
    PROVE  Founded'
<1>0. TypeOK /\ FileTypes /\ FirstDirectory /\ (pc # "down" => 1 <= Len(log))
  BY TypesSplit DEF Founded, AppendsBehind
<1>1. /\ pc = "tx" /\ pc' = "idx" /\ PutAt(tx.off + 1, Dir(tx.entries, t))
      /\ tx' = [tx EXCEPT !.off = @ + 1] /\ UNCHANGED <<mem, ghosts, budgets>>
  BY DEF AppendDir, CommitAppend
<1>2. /\ tx.off \in Nat /\ tx.off >= 1 /\ tx.off + 1 \in 2 .. Len(log) + 1
      /\ tx.off + 1 <= MaxLog /\ tx.off + 4 <= MaxLog
  BY <1>1, AppendsWithin DEF Appending, Pending
<1>3. Dir(tx.entries, t) \in DirRec /\ Dir(tx.entries, t) \in Blob
  BY <1>0, BlobTypes DEF TypeOK
<1>4. FileKept /\ tx.off + 1 <= Len(log') /\ log'[tx.off + 1] = Dir(tx.entries, t)
  BY <1>0, <1>1, <1>2, <1>3, PutAtFile
<1>5. tx' \in [entries : Snapshots, off : Nat, h : HeaderOrBad] /\ tx'.off = tx.off + 1
  BY <1>0, <1>1, <1>2 DEF TypeOK
<1>6. AppendsBehind'
  BY <1>1, <1>2, <1>4, <1>5, CommitAssumption DEF AppendsBehind, Pending
<1>7. "idx" \in PCs /\ "idx" \notin Indexed /\ pc # "down"
  BY <1>1 DEF PCs, Indexed, Synced1, Jnled, Synced2
<1> QED
  BY <1>0, <1>1, <1>3, <1>4, <1>5, <1>6, <1>7, CommitsFounded DEF ghosts, TypeOK

LEMMA AppendIdxFounded ==
    ASSUME Founded, AppendIdx
    PROVE  Founded'
<1>0. TypeOK /\ FileTypes /\ FirstDirectory /\ (pc # "down" => 1 <= Len(log))
  BY TypesSplit DEF Founded, AppendsBehind
<1> DEFINE g == NextGen(mem.header)
           x == Idx(tx.off, log[tx.off], g)
           h == [kind |-> "hdr", dirOff |-> tx.off, dirCrc |-> log[tx.off],
                 idxOff |-> tx.off + 1, idxCrc |-> x, gen |-> g]
<1>1. /\ pc = "idx" /\ pc' \in {"sync1", "jnl"} /\ PutAt(tx.off + 1, x)
      /\ tx' = [tx EXCEPT !.off = @ + 1, !.h = h] /\ UNCHANGED <<mem, ghosts, budgets>>
  BY DEF AppendIdx, CommitAppend
<1>2. /\ tx.off \in Nat /\ tx.off >= 1 /\ tx.off + 1 \in 2 .. Len(log) + 1
      /\ tx.off + 1 <= MaxLog /\ tx.off + 3 <= MaxLog
  BY <1>1, AppendsWithin DEF Appending, Pending
<1>3. g \in 0 .. MaxGen
  <2>1. mem.header \in Header
    BY <1>1 DEF Founded, HeadersMade
  <2> QED
    BY <2>1, FormatAssumption DEF NextGen, Header, HeaderOf
<1> HIDE DEF g
<1>4. x \in IdxRec /\ x \in Blob /\ log[tx.off] \in DirRec
  BY <1>1, <1>2, <1>3, BlobTypes DEF Founded, HeadersMade
<1> HIDE DEF x
<1>5. h \in Header
  BY <1>2, <1>3, <1>4 DEF Header, HeaderOf
<1> HIDE DEF h
<1>6. FileKept /\ tx.off + 1 <= Len(log')
  BY <1>0, <1>1, <1>2, <1>4, PutAtFile
<1>7. /\ tx' \in [entries : Snapshots, off : Nat, h : HeaderOrBad]
      /\ tx'.off = tx.off + 1 /\ tx'.h = h
  <2>1. tx' = [tx EXCEPT !.off = @ + 1, !.h = h]
    BY <1>1
  <2>2. tx.off + 1 \in Nat
    BY <1>2
  <2>3. h \in HeaderOrBad
    BY <1>5 DEF HeaderOrBad
  <2>4. tx \in [entries : Snapshots, off : Nat, h : HeaderOrBad]
    BY <1>0 DEF TypeOK
  <2> QED
    BY <2>1, <2>2, <2>3, <2>4
<1>8. AppendsBehind'
  BY <1>1, <1>2, <1>6, <1>7, CommitAssumption DEF AppendsBehind, Pending
<1>9. pc' \in PCs /\ pc' # "idx" /\ pc # "down"
  BY <1>1 DEF PCs
<1> QED
  BY <1>0, <1>1, <1>5, <1>6, <1>7, <1>8, <1>9, CommitsFounded DEF ghosts, TypeOK

\* Both records of the header.
LEMMA RecordsFounded ==
    ASSUME Founded, NEW t \in Times, AppendJnl(t) \/ AppendBkp(t)
    PROVE  Founded'
<1>0. TypeOK /\ FileTypes /\ FirstDirectory /\ (pc # "down" => 1 <= Len(log))
  BY TypesSplit DEF Founded, AppendsBehind
<1>1. /\ \/ pc = "jnl" /\ pc' = "bkp" /\ maybe' = maybe \cup {tx.entries}
         \/ pc = "bkp" /\ pc' \in {"sync2", "bak"} /\ maybe' = maybe
      /\ \E k \in {"jnl", "bkp"} : PutAt(tx.off + 1, HeaderRecord(k, t, tx.h))
      /\ tx' = [tx EXCEPT !.off = @ + 1] /\ UNCHANGED <<mem, acked, budgets>>
  BY DEF AppendJnl, AppendBkp, CommitAppend, ghosts
<1>2. /\ tx.off \in Nat /\ tx.off >= 1 /\ tx.off + 1 \in 2 .. Len(log) + 1
      /\ tx.off + 1 <= MaxLog /\ tx.off + Pending[pc] <= MaxLog
  BY <1>1, AppendsWithin DEF Appending
<1>3. tx.h \in Header
  BY <1>1 DEF Founded, HeadersMade, Indexed, Synced1, Jnled
<1>4. FileKept /\ tx.off + 1 <= Len(log')
  <2>1. PICK k \in {"jnl", "bkp"} : PutAt(tx.off + 1, HeaderRecord(k, t, tx.h))
    BY <1>1
  <2>2. HeaderRecord(k, t, tx.h) \in Blob
    BY <1>3, BlobTypes
  <2> QED
    BY <1>0, <1>2, <2>1, <2>2, PutAtFile
<1>5. /\ tx' \in [entries : Snapshots, off : Nat, h : HeaderOrBad]
      /\ tx'.off = tx.off + 1 /\ tx'.h = tx.h
  <2>1. tx' = [tx EXCEPT !.off = @ + 1]
    BY <1>1
  <2>2. tx.off + 1 \in Nat
    BY <1>2
  <2>3. tx \in [entries : Snapshots, off : Nat, h : HeaderOrBad]
    BY <1>0 DEF TypeOK
  <2> QED
    BY <2>1, <2>2, <2>3
<1>6. AppendsBehind'
  BY <1>1, <1>2, <1>4, <1>5, CommitAssumption DEF AppendsBehind, Pending
<1>7. pc' \in PCs /\ pc' # "idx" /\ pc # "down" /\ maybe' \subseteq Snapshots
  BY <1>0, <1>1 DEF PCs, TypeOK
<1> QED
  BY <1>1, <1>3, <1>4, <1>5, <1>6, <1>7, CommitsFounded

\* The header slots and the fsyncs of Commit.
LEMMA SlotsFounded ==
    ASSUME Founded, WriteBackup \/ WritePrimary \/ Sync
    PROVE  Founded'
<1>0. TypeOK /\ FileTypes /\ FirstDirectory /\ (pc # "down" => 1 <= Len(log))
  BY TypesSplit DEF Founded, AppendsBehind
<1>1. FileKept
  <2>0. pc # "down" /\ tx.h \in SlotValue
    BY <1>0 DEF WriteBackup, WritePrimary, Sync, AfterSync, TypeOK, SlotValue
  <2>1. \A s \in Slots : PutSlot(s, tx.h) => FileKept
    BY <1>0, <2>0, PutSlotFile
  <2> QED
    BY <1>0, <2>0, <2>1, FlushFile DEF WriteBackup, WritePrimary, Sync, Slots
<1>2. /\ pc \in Indexed /\ pc' \in Indexed \ {"sync1"} /\ pc' \in PCs
      /\ UNCHANGED <<log, mem, tx, ghosts, budgets>>
      /\ pc' = "jnl" => pc = "sync1"
      /\ pc' # "bkp"
  BY DEF WriteBackup, WritePrimary, Sync, PutSlot, Flush, AfterSync, Indexed, Synced1,
         Jnled, Synced2, PCs
<1>3. pc \in InTx /\ pc # "down" /\ pc' # "idx" /\ tx.h \in Header
  BY <1>2 DEF InTx, Indexed, Synced1, Jnled, Synced2, Founded, HeadersMade
<1>4. AppendsBehind'
  BY <1>2, <1>3 DEF Founded, AppendsBehind, Pending, Indexed, Synced1, Jnled, Synced2
<1> QED
  BY <1>0, <1>1, <1>2, <1>3, <1>4, CommitsFounded DEF ghosts, TypeOK

LEMMA PublishFounded ==
    ASSUME Founded, Publish
    PROVE  Founded'
<1>0. TypeOK /\ FileTypes /\ FirstDirectory /\ (pc # "down" => 1 <= Len(log))
  BY TypesSplit DEF Founded, AppendsBehind
<1>1. /\ pc = "publish" /\ pc' = "open" /\ tx' = NoTx /\ UNCHANGED <<storage, budgets>>
      /\ mem' = [header |-> tx.h, entries |-> tx.entries]
      /\ acked' = tx.entries /\ maybe' = {}
  BY DEF Publish
<1>2. tx.h \in Header /\ tx.entries \in Snapshots
  BY <1>0, <1>1 DEF Founded, HeadersMade, Indexed, Synced1, Jnled, Synced2, TypeOK
<1>3. FileKept
  BY <1>0, <1>1, SameFile
<1>4. NoTx \in [entries : Snapshots, off : Nat, h : HeaderOrBad]
  BY BlobTypes DEF NoTx, HeaderOrBad
<1>5. ProcessTypes'
  BY <1>0, <1>1, <1>2, <1>4 DEF ProcessTypes, TypeOK, budgets, PCs, HeaderOrBad
<1> QED
  BY <1>1, <1>2, <1>3, <1>5, Outside, TypesSplitPrime DEF Founded, FileKept

----------------------------------------------------------------------------
(* Open, Close and power loss.                                             *)

\* A step of the process outside a transaction.
LEMMA OutsideFounded ==
    ASSUME Founded, FileKept, pc' \in {"open", "down"} \cup Persisting,
           tx' = tx \/ tx' = NoTx,
           mem' \in [header : HeaderOrBad, entries : Snapshots],
           pc' # "down" => mem'.header \in Header,
           acked' \in Snapshots, maybe' \subseteq Snapshots,
           crashes' \in 0 .. MaxCrashes, faults' \in 0 .. MaxFaults
    PROVE  Founded'
<1>1. NoTx \in [entries : Snapshots, off : Nat, h : HeaderOrBad]
  BY BlobTypes DEF NoTx, HeaderOrBad
<1>2. ProcessTypes'
  BY <1>1 DEF Founded, TypeOK, ProcessTypes, PCs, Persisting
<1> QED
  BY <1>2, Outside, TypesSplitPrime DEF Founded, FileKept

LEMMA NoMemTypes == NoMem \in [header : HeaderOrBad, entries : Snapshots]
BY BlobTypes DEF NoMem, HeaderOrBad

LEMMA OpensFounded ==
    ASSUME Founded, OpenPrimary \/ OpenRecovered \/ OpenScan
    PROVE  Founded'
<1>0. TypeOK /\ FileTypes /\ FirstDirectory /\ (pc # "down" => 1 <= Len(log))
  BY TypesSplit DEF Founded, AppendsBehind
<1>1. \E o \in OpenFrom(log, hdr) :
        mem' = [header |-> o.header, entries |-> o.header.dirCrc.entries]
  BY DEF OpenPrimary, OpenRecovered, OpenScan, Opened
<1>2. /\ mem' \in [header : HeaderOrBad, entries : Snapshots]
      /\ mem'.header \in Header /\ mem'.entries \in Snapshots
  BY <1>0, <1>1, OpenedHeader DEF HeaderOrBad
<1>3. UNCHANGED <<storage, tx, budgets>> /\ pc' \in {"open", "pprim"}
  BY DEF OpenPrimary, OpenRecovered, OpenScan, Opened
<1>4. acked' \in Snapshots /\ maybe' \subseteq Snapshots
  BY <1>0, <1>2 DEF OpenPrimary, OpenRecovered, OpenScan, Settle, ghosts, TypeOK
<1>5. FileKept
  <2>1. 1 <= Len(log)
    BY <1>0, <1>1, OpenedFile
  <2> QED
    BY <1>0, <1>3, <2>1, SameFile
<1> QED
  BY <1>0, <1>2, <1>3, <1>4, <1>5, OutsideFounded DEF budgets, TypeOK, Persisting

\* persistRecoveredHeader, whichever of its writes fail.
LEMMA PersistFounded ==
    ASSUME Founded, PersistPrimary \/ PersistBackup \/ PersistSync \/ PersistSkip
    PROVE  Founded'
<1>0. TypeOK /\ FileTypes /\ FirstDirectory /\ (pc # "down" => 1 <= Len(log))
  BY TypesSplit DEF Founded, AppendsBehind
<1>1. /\ pc # "down" /\ pc' \in {"open", "pbak", "psync"} /\ UNCHANGED <<mem, tx>>
  BY DEF PersistPrimary, PersistBackup, PersistSync, PersistSkip, PersistSlot
<1>2. acked' \in Snapshots /\ maybe' \subseteq Snapshots
  BY <1>0 DEF PersistPrimary, PersistBackup, PersistSync, PersistSkip, PersistSlot, Settle,
              ghosts, TypeOK
<1>3. crashes' \in 0 .. MaxCrashes /\ faults' \in 0 .. MaxFaults
  BY <1>0, FaultBound DEF PersistPrimary, PersistBackup, PersistSync, PersistSkip,
              PersistSlot, budgets, TypeOK
<1>4. FileKept
  <2>1. \A s \in Slots : \A at : \A next : PersistSlot(at, s, next) => FileKept
    <3> SUFFICES ASSUME NEW s \in Slots, NEW at, NEW next, PersistSlot(at, s, next)
                 PROVE  FileKept
      OBVIOUS
    <3>1. \E w \in SlotValue : PutSlot(s, w)
      BY <1>0, TearsFacts DEF PersistSlot, TypeOK, SlotValue
    <3> QED
      BY <1>0, <1>1, <3>1, PutSlotFile
  <2>2. PersistSync => FileKept
    BY <1>0, <1>1, FlushFile DEF PersistSync
  <2>3. PersistSkip => FileKept
    BY <1>0, <1>1, SameFile DEF PersistSkip
  <2> QED
    BY <2>1, <2>2, <2>3 DEF PersistPrimary, PersistBackup, Slots
<1>5. mem' \in [header : HeaderOrBad, entries : Snapshots] /\ mem'.header \in Header
  BY <1>0, <1>1 DEF Founded, HeadersMade, TypeOK
<1> QED
  BY <1>1, <1>2, <1>3, <1>4, <1>5, OutsideFounded DEF Persisting

LEMMA ClosesFounded ==
    ASSUME Founded, Close \/ Crash
    PROVE  Founded'
<1>0. TypeOK /\ FileTypes /\ FirstDirectory /\ (pc # "down" => 1 <= Len(log))
  BY TypesSplit DEF Founded, AppendsBehind
<1>1. pc' = "down" /\ mem' = NoMem /\ (tx' = tx \/ tx' = NoTx) /\ UNCHANGED ghosts
  BY DEF Close, Crash
<1>2. crashes' \in 0 .. MaxCrashes /\ faults' \in 0 .. MaxFaults
  BY <1>0, CommitAssumption DEF Close, Crash, budgets, TypeOK
<1>3. FileKept
  BY <1>0, <1>1, SameFile, CrashFile DEF Close
<1> QED
  BY <1>0, <1>1, <1>2, <1>3, OutsideFounded, NoMemTypes DEF ghosts, TypeOK

----------------------------------------------------------------------------
(* The invariant.                                                          *)

LEMMA InitFounded == Init => Founded
<1> SUFFICES ASSUME Init PROVE Founded
  OBVIOUS
<1>1. PICK t \in Times :
        LET d == Dir(Empty, t)
            x == Idx(1, d, 1)
            h == CreatedHeader(d, x)
        IN  /\ log = <<d, x, HeaderRecord("jnl", t, h), HeaderRecord("bkp", t, h)>>
            /\ hdr = [s \in Slots |-> h]
            /\ disk = [s \in Slots |-> IF SyncOnCommit THEN {h} ELSE {Bad, h}]
  BY DEF Init
<1> DEFINE d == Dir(Empty, t)
           x == Idx(1, d, 1)
           h == CreatedHeader(d, x)
           j == HeaderRecord("jnl", t, h)
           b == HeaderRecord("bkp", t, h)
<1>2. /\ log = <<d, x, j, b>>
      /\ hdr = [s \in Slots |-> h]
      /\ disk = [s \in Slots |-> IF SyncOnCommit THEN {h} ELSE {Bad, h}]
  BY <1>1
<1>3. d \in DirRec /\ d.entries = Empty
  BY BlobTypes DEF Dir
<1> HIDE DEF d
<1>4. 1 \in 0 .. MaxGen /\ x \in IdxRec
  <2>1. 1 \in 0 .. MaxGen
    BY FormatAssumption
  <2> QED
    BY <1>3, <2>1, BlobTypes
<1> HIDE DEF x
<1>5. h \in Header
  BY <1>3, <1>4 DEF CreatedHeader, Header, HeaderOf
<1> HIDE DEF h
<1>6. j \in HdrRec /\ b \in HdrRec
  BY <1>5, BlobTypes
<1> HIDE DEF j, b
<1>7. log \in Seq(Blob) /\ Len(log) = 4 /\ log[1] = d
  BY <1>2, <1>3, <1>4, <1>6, BlobTypes
<1>8. FileTypes /\ FirstDirectory
  <2>1. hdr \in [Slots -> SlotValue] /\ disk \in [Slots -> SUBSET SlotValue]
    <3>1. h \in SlotValue /\ Bad \in SlotValue
      BY <1>5 DEF SlotValue, HeaderOrBad
    <3> QED
      BY <1>2, <3>1
  <2>2. dur \subseteq 1 .. 4 /\ dirty \subseteq 0 .. 4 /\ (SyncOnCommit => 1 \in dur)
    BY DEF Init
  <2>3. log # <<>> /\ log[1] # Bad
    BY <1>3, <1>7, KindFacts DEF Bad
  <2> QED
    BY <1>3, <1>7, <2>1, <2>2, <2>3, CommitAssumption DEF FileTypes, FirstDirectory, Created
<1>9. ProcessTypes
  <2>1. /\ NoTx \in [entries : Snapshots, off : Nat, h : HeaderOrBad]
        /\ Empty \in Snapshots
    BY BlobTypes DEF NoTx, HeaderOrBad
  <2> QED
    BY <2>1, NoMemTypes, CommitAssumption DEF Init, ProcessTypes, PCs
<1>10. AppendsBehind /\ HeadersMade
  BY DEF Init, AppendsBehind, HeadersMade, InTx, Indexed, Synced1, Jnled, Synced2, Pending
<1> QED
  BY <1>8, <1>9, <1>10, TypesSplit DEF Founded

LEMMA NextFounded == Founded /\ [Next]_vars => Founded'
<1> SUFFICES ASSUME Founded, [Next]_vars PROVE Founded'
  OBVIOUS
<1>1. CASE Begin
  BY <1>1, BeginFounded
<1>2. CASE TxStep
  BY <1>2, PutsFounded, ChangesFounded, FailsFounded DEF TxStep
<1>3. CASE CommitStep
  BY <1>3, AppendDirFounded, AppendIdxFounded, RecordsFounded, SlotsFounded, PublishFounded
  DEF CommitStep
<1>4. CASE FailStep
  BY <1>4, FailsFounded
<1>5. CASE OpenStep
  BY <1>5, OpensFounded, PersistFounded DEF OpenStep
<1>6. CASE Close \/ Crash
  BY <1>6, ClosesFounded
<1>7. CASE UNCHANGED vars
  BY <1>7 DEF vars, Founded, TypeOK, FirstDirectory, Created, AppendsBehind, HeadersMade
<1> QED
  BY <1>1, <1>2, <1>3, <1>4, <1>5, <1>6, <1>7 DEF Next

\* The invariant holds in every reachable state, whatever the constants are.
THEOREM Foundation == Spec => []Founded
<1> QED
  BY InitFounded, NextFounded, PTL DEF Spec

\* Whatever Begin, the transaction's operations, Commit, Open, Close, power loss
\* and failing calls do, every variable keeps its type: only real blobs and
\* headers are ever written, the log keeps to its bound and the generation to
\* its width.
THEOREM TypeCorrect == Spec => []TypeOK
<1>1. Founded => TypeOK
  BY DEF Founded
<1> QED
  BY <1>1, Foundation, PTL

----------------------------------------------------------------------------
(* The scan finds a directory: the score orders the candidates.            *)

\* The read cap is above every directory.
UnderCap == IsFiniteSet(Paths) /\ Cardinality(Paths) <= MaxDirEntries

\* A function to the naturals has a least value on a nonempty set.
LEMMA LeastExists ==
    ASSUME NEW S, S # {}, NEW f, \A i \in S : f[i] \in Nat
    PROVE  \E i \in S : \A j \in S : f[i] <= f[j]
<1> DEFINE T == {f[i] : i \in S}
<1>1. T \subseteq Nat /\ T # {}
  <2>1. PICK k \in S : TRUE
    OBVIOUS
  <2>2. f[k] \in T
    BY <2>1
  <2> QED
    BY <2>2
<1>2. PICK x \in T : \A y \in T : ~(<<y, x>> \in OpToRel(<, Nat))
  BY <1>1, WFMin, NatLessThanWellFounded
<1>3. \A y \in T : ~(y < x)
  BY <1>1, <1>2 DEF OpToRel
<1>4. PICK i \in S : x = f[i]
  OBVIOUS
<1>5. ASSUME NEW j \in S
      PROVE  f[i] <= f[j]
  <2>1. f[j] \in T
    OBVIOUS
  <2>2. ~(f[j] < f[i])
    BY <1>3, <1>4, <2>1
  <2> QED
    BY <2>2
<1> QED
  BY <1>5

\* A bounded one has a greatest value.
LEMMA GreatestExists ==
    ASSUME NEW S, S # {}, NEW f, NEW m \in Nat,
           \A i \in S : f[i] \in Nat /\ f[i] <= m
    PROVE  \E i \in S : \A j \in S : f[i] >= f[j]
<1> DEFINE g == [i \in S |-> m - f[i]]
<1>1. \A i \in S : g[i] \in Nat
  OBVIOUS
<1>2. PICK i \in S : \A j \in S : g[i] <= g[j]
  <2> HIDE DEF g
  <2> QED
    BY <1>1, LeastExists
<1>3. \A j \in S : f[i] >= f[j]
  BY <1>2
<1> QED
  BY <1>3

\* The values of a sequence of naturals have a bound.
LEMMA BoundExists ==
    ASSUME NEW n \in Nat, NEW f, \A i \in 1 .. n : f[i] \in Nat
    PROVE  \E m \in Nat : \A i \in 1 .. n : f[i] <= m
<1> DEFINE Free == {k \in 0 .. n : \A m \in Nat : \E i \in 1 .. k : ~(f[i] <= m)}
<1> SUFFICES ASSUME n \in Free PROVE FALSE
  BY DEF Free
<1>1. Free \subseteq Nat /\ Free # {}
  OBVIOUS
<1>2. PICK k \in Free : \A y \in Free : ~(<<y, k>> \in OpToRel(<, Nat))
  <2> HIDE DEF Free
  <2> QED
    BY <1>1, WFMin, NatLessThanWellFounded
<1>3. \A y \in Free : ~(y < k)
  BY <1>1, <1>2 DEF OpToRel
<1>4. k \in 0 .. n /\ \A m \in Nat : \E i \in 1 .. k : ~(f[i] <= m)
  BY <1>2
<1>5. k # 0
  BY <1>4
<1>6. k - 1 \in 0 .. n /\ k - 1 \notin Free
  <2>1. k - 1 \in 0 .. n /\ k - 1 < k
    BY <1>4, <1>5
  <2> HIDE DEF Free
  <2> QED
    BY <1>3, <2>1
<1>7. PICK m \in Nat : \A i \in 1 .. (k - 1) : f[i] <= m
  BY <1>6
<1>8. f[k] \in Nat
  BY <1>4, <1>5
<1>9. m + f[k] \in Nat /\ \A i \in 1 .. k : f[i] <= m + f[k]
  <2> SUFFICES ASSUME NEW i \in 1 .. k PROVE m + f[k] \in Nat /\ f[i] <= m + f[k]
    BY <1>4, <1>5
  <2>1. CASE i = k
    BY <1>8, <2>1
  <2>2. CASE i # k
    <3>1. i \in 1 .. (k - 1) /\ f[i] \in Nat
      BY <1>4, <2>2
    <3> QED
      BY <1>7, <1>8, <3>1
  <2> QED
    BY <2>1, <2>2
<1> QED
  BY <1>4, <1>9

\* What a candidate is scored by are naturals, and the entries counted are
\* at most the live paths.
LEMMA ScoreTypes ==
    ASSUME IsFiniteSet(Paths), NEW l, NEW i
    PROVE  /\ assessReadableEntriesAt(l, i) \in Nat
           /\ assessReadableEntriesAt(l, i) <= Cardinality(Paths)
           /\ Unreadable(l, i) \in Nat
<1> DEFINE L == Live(l[i].entries)
           R == {p \in L : Readable(l, l[i].entries[p])}
<1>1. L \subseteq Paths /\ R \subseteq L /\ R \subseteq Paths
  BY DEF Live
<1>2. IsFiniteSet(L) /\ IsFiniteSet(R)
  BY <1>1, FS_Subset
<1>3. Cardinality(R) <= Cardinality(L) /\ Cardinality(R) <= Cardinality(Paths)
  BY <1>1, <1>2, FS_Subset
<1>4. Cardinality(R) \in Nat /\ Cardinality(L) \in Nat /\ Cardinality(Paths) \in Nat
  BY <1>2, FS_CardinalityType
<1>5. assessReadableEntriesAt(l, i) = Cardinality(R)
  BY DEF assessReadableEntriesAt
<1>6. Unreadable(l, i) = Cardinality(L) - Cardinality(R)
  BY <1>5 DEF Unreadable
<1> QED
  BY <1>3, <1>4, <1>5, <1>6

\* recoverHeaderFromDirectoryScan: of the candidates, whatever their number,
\* one is better than every other; ties end with the position.
LEMMA ScanFinds ==
    ASSUME TypeOK, IsFiniteSet(Paths), ScanCandidates(log) # {}
    PROVE  recoverHeaderFromDirectoryScan(log) # {}
<1> DEFINE C == ScanCandidates(log)
           n == Len(log)
           r == [i \in 1 .. n |-> assessReadableEntriesAt(log, i)]
           u == [i \in 1 .. n |-> Unreadable(log, i)]
           b == [i \in 1 .. n |-> log[i].build]
           at == [i \in 1 .. n |-> i]
<1>1. n \in Nat /\ C \subseteq 1 .. n /\ C # {}
  BY DEF TypeOK, ScanCandidates
<1>2. \A i \in C : log[i] \in DirRec
  BY <1>1, KindFacts DEF TypeOK, Blob, ScanCandidates
<1>3. \A i \in C : /\ r[i] = assessReadableEntriesAt(log, i)
                  /\ u[i] = Unreadable(log, i)
                  /\ b[i] = log[i].build
                  /\ at[i] = i
  BY <1>1
<1>4. /\ Cardinality(Paths) \in Nat
      /\ \A i \in C : r[i] \in Nat /\ r[i] <= Cardinality(Paths) /\ u[i] \in Nat
  <2>1. \A i : /\ assessReadableEntriesAt(log, i) \in Nat
               /\ assessReadableEntriesAt(log, i) <= Cardinality(Paths)
               /\ Unreadable(log, i) \in Nat
    BY ScoreTypes
  <2>2. Cardinality(Paths) \in Nat
    BY FS_CardinalityType
  <2> HIDE DEF C, r, u
  <2> QED
    BY <1>3, <2>1, <2>2
<1>5. \A i \in C : b[i] \in Nat
  BY <1>2, <1>3, FormatAssumption DEF DirRec
<1>6. PICK m \in Nat : \A i \in C : b[i] <= m
  <2> DEFINE f == [i \in 1 .. n |-> IF i \in C THEN b[i] ELSE 0]
  <2>1. \A i \in 1 .. n : f[i] \in Nat
    BY <1>5
  <2> HIDE DEF b, C
  <2>2. \A i \in C : f[i] = b[i]
    BY <1>1
  <2> HIDE DEF f, n
  <2>3. PICK m \in Nat : \A i \in 1 .. n : f[i] <= m
    BY <1>1, <2>1, BoundExists
  <2> QED
    BY <1>1, <2>2, <2>3
<1>7. \A i \in C : at[i] \in Nat /\ at[i] <= n
  BY <1>1, <1>3
<1>8. C = ScanCandidates(log)
  OBVIOUS
<1> HIDE DEF C, n, r, u, b, at
<1> DEFINE C1 == {i \in C : \A j \in C : r[i] >= r[j]}
           C2 == {i \in C1 : \A j \in C1 : u[i] <= u[j]}
           C3 == {i \in C2 : \A j \in C2 : b[i] >= b[j]}
<1>9. C1 # {}
  BY <1>1, <1>4, GreatestExists
<1>10. C2 # {}
  <2>1. \A i \in C1 : u[i] \in Nat
    BY <1>4
  <2> HIDE DEF C1
  <2> QED
    BY <1>9, <2>1, LeastExists
<1>11. C3 # {}
  <2>1. \A i \in C2 : b[i] \in Nat /\ b[i] <= m
    BY <1>5, <1>6
  <2> HIDE DEF C2
  <2> QED
    BY <1>10, <2>1, GreatestExists
<1>12. PICK i \in C3 : \A j \in C3 : at[i] >= at[j]
  <2>1. \A i \in C3 : at[i] \in Nat /\ at[i] <= n
    BY <1>7
  <2> HIDE DEF C3
  <2> QED
    BY <1>1, <1>11, <2>1, GreatestExists
<1>13. i \in C
  OBVIOUS
<1>14. ASSUME NEW j \in C \ {i}
       PROVE  betterRecoveryDirectoryScore(log, i, j)
  <2>1. /\ r[i] \in Nat /\ r[j] \in Nat /\ u[i] \in Nat /\ u[j] \in Nat
        /\ b[i] \in Nat /\ b[j] \in Nat /\ i \in Nat /\ j \in Nat
    BY <1>3, <1>4, <1>5, <1>7, <1>13
  <2>2. r[i] >= r[j]
    BY <1>12
  <2>3. r[i] = r[j] => j \in C1 /\ u[i] <= u[j]
    BY <1>12
  <2>4. r[i] = r[j] /\ u[i] = u[j] => j \in C2 /\ b[i] >= b[j]
    BY <1>12, <2>3
  <2>5. r[i] = r[j] /\ u[i] = u[j] /\ b[i] = b[j] => i > j
    <3> SUFFICES ASSUME r[i] = r[j], u[i] = u[j], b[i] = b[j] PROVE i > j
      OBVIOUS
    <3>1. j \in C2
      BY <2>4
    <3>2. j \in C3
      BY <1>12, <3>1
    <3>3. at[i] >= at[j]
      BY <1>12, <3>2
    <3> QED
      BY <1>3, <1>13, <2>1, <3>3
  <2>6. \/ r[i] > r[j]
        \/ r[i] = r[j] /\ u[i] < u[j]
        \/ r[i] = r[j] /\ u[i] = u[j] /\ b[i] > b[j]
        \/ r[i] = r[j] /\ u[i] = u[j] /\ b[i] = b[j] /\ i > j
    <3> HIDE DEF C1, C2, C3
    <3> QED
      BY <2>1, <2>2, <2>3, <2>4, <2>5
  <2> QED
    BY <1>3, <1>13, <2>6 DEF betterRecoveryDirectoryScore
<1> QED
  BY <1>8, <1>13, <1>14 DEF recoverHeaderFromDirectoryScan

----------------------------------------------------------------------------
(* No slot is one that Open refuses.                                       *)

\* A header as it is written, or none.
Plain(v) == v.kind \in {"hdr", "bad"}

\* What a header leaves of another is of a kind of one of the two, or none.
LEMMA TearsPlain ==
    ASSUME NEW a, NEW b, Plain(a), Plain(b), NEW w \in Tears(a, b)
    PROVE  Plain(w)
BY DEF Tears, Mix, Bad, Plain

\* Writing a header into a slot, all of it or a part.
LEMMA PutSlotPlain ==
    ASSUME NeverRefused, NEW s \in Slots, NEW h, Plain(h), NEW w \in Tears(hdr[s], h) \cup {h},
           TypeOK, PutSlot(s, w)
    PROVE  NeverRefused'
<1>1. \A t \in Slots : Plain(hdr[t]) /\ \A v \in disk[t] : Plain(v)
  BY DEF NeverRefused, SlotValues, Plain
<1>2. Plain(w)
  BY <1>1, TearsPlain
<1>3. \A v \in UNION {Tears(d, w) : d \in disk[s]} : Plain(v)
  BY <1>1, <1>2, TearsPlain
<1>4. /\ hdr' = [hdr EXCEPT ![s] = w]
      /\ disk' = [disk EXCEPT ![s] = UNION {Tears(d, w) : d \in disk[s]}]
  BY DEF PutSlot
<1>5. \A t \in Slots : Plain(hdr'[t]) /\ \A v \in disk'[t] : Plain(v)
  BY <1>1, <1>2, <1>3, <1>4 DEF TypeOK
<1> QED
  BY <1>5 DEF NeverRefused, SlotValues, Plain

LEMMA InitNeverRefused == Init => NeverRefused
BY DEF Init, NeverRefused, SlotValues, CreatedHeader, Bad

LEMMA NextNeverRefused == Founded /\ NeverRefused /\ [Next]_vars => NeverRefused'
<1> SUFFICES ASSUME Founded, NeverRefused, [Next]_vars PROVE NeverRefused'
  OBVIOUS
<1>0. TypeOK /\ (pc \in Indexed => tx.h.kind = "hdr") /\ (pc # "down" => mem.header.kind = "hdr")
  BY KindFacts DEF Founded, HeadersMade
<1>1. CASE UNCHANGED <<hdr, disk>>
  BY <1>1 DEF NeverRefused, SlotValues
<1>2. CASE \E s \in Slots : \E w \in Tears(hdr[s], tx.h) \cup {tx.h} :
               pc \in Indexed /\ PutSlot(s, w)
  BY <1>0, <1>2, PutSlotPlain DEF Plain
<1>3. CASE \E s \in Slots : \E w \in Tears(hdr[s], mem.header) \cup {mem.header} :
               pc # "down" /\ PutSlot(s, w)
  BY <1>0, <1>3, PutSlotPlain DEF Plain
<1>4. CASE Flush
  BY <1>4 DEF Flush, NeverRefused, SlotValues
<1>5. CASE Crash
  <2>1. \A s \in Slots : hdr'[s] \in disk[s] \cup {Bad}
    BY <1>5 DEF Crash, CrashSlots, Slots
  <2> QED
    BY <1>5, <2>1 DEF Crash, NeverRefused, SlotValues, Bad
<1>6. \/ UNCHANGED <<hdr, disk>>
      \/ \E s \in Slots : \E w \in Tears(hdr[s], tx.h) \cup {tx.h} :
             pc \in Indexed /\ PutSlot(s, w)
      \/ \E s \in Slots : \E w \in Tears(hdr[s], mem.header) \cup {mem.header} :
             pc # "down" /\ PutSlot(s, w)
      \/ Flush \/ Crash
  <2>1. CASE Begin \/ TxStep
    BY <2>1 DEF Begin, TxStep, TxPut, TxPutFail, TxRemove, TxSetMeta, Rollback, PutAt, storage
  <2>2. CASE CommitStep
    BY <2>2 DEF CommitStep, AppendDir, AppendIdx, AppendJnl, AppendBkp, CommitAppend, PutAt,
                WriteBackup, WritePrimary, Sync, Publish, storage, Slots, Indexed, Synced1,
                Jnled, Synced2
  <2>3. CASE FailStep
    BY <2>3 DEF FailStep, AppendFails, WriteBackupFails, WritePrimaryFails, SyncFails,
                CommitFails, PutAt, FlushFail, Slots, Indexed, Synced1, Jnled, Synced2
  <2>4. CASE OpenStep
    BY <2>4 DEF OpenStep, OpenPrimary, OpenRecovered, OpenScan, Opened, PersistPrimary,
                PersistBackup, PersistSync, PersistSkip, PersistSlot, FlushFail, storage, Slots
  <2>5. CASE Close \/ Crash
    BY <2>5 DEF Close, storage
  <2>6. CASE UNCHANGED vars
    BY <2>6 DEF vars
  <2> QED
    BY <2>1, <2>2, <2>3, <2>4, <2>5, <2>6 DEF Next
<1> QED
  BY <1>1, <1>2, <1>3, <1>4, <1>5, <1>6

----------------------------------------------------------------------------
(* Open.                                                                   *)

\* Whatever the slots and the tail look like, the last source works.
LEMMA FoundedOpens ==
    ASSUME Founded, NeverRefused, UnderCap, Created
    PROVE  OpenFrom(log, hdr) # {}
<1>1. ASSUME NEW d
      PROVE  ~TooLarge(d)
  <2>1. Live(d.entries) \subseteq Paths
    BY DEF Live
  <2>2. /\ Cardinality(Live(d.entries)) <= Cardinality(Paths)
        /\ Cardinality(Paths) \in Nat /\ Cardinality(Live(d.entries)) \in Nat
    BY <2>1, FS_Subset, FS_CardinalityType DEF UnderCap
  <2> QED
    BY <2>2, FormatAssumption DEF TooLarge, UnderCap
<1>2. 1 \in ScanCandidates(log)
  <2>1. 1 \in DOMAIN log /\ log[1].kind = "dir" /\ log[1].entries = Empty
    BY KindFacts DEF Founded, FirstDirectory, TypeOK, Created
  <2>2. \A p \in Paths : ChunkInFile(log, log[1].entries[p])
    BY <2>1 DEF ChunkInFile, Empty
  <2> QED
    BY <1>1, <2>1, <2>2 DEF ScanCandidates
<1>3. PICK i : i \in recoverHeaderFromDirectoryScan(log)
  BY <1>2, ScanFinds DEF Founded, UnderCap
<1>4. ~Fatal(log, hdr)
  <2>1. \A s \in Slots : hdr[s].kind # "refused"
    BY DEF NeverRefused, SlotValues
  <2> QED
    BY <1>1, <2>1 DEF Fatal, FatalPrimary, FatalBackup, Slots
<1> DEFINE tails == {h \in recoverBestHeader(log) : Loadable(log, h)}
<1>5. CASE Loadable(log, hdr["primary"])
  BY <1>5 DEF OpenFrom
<1>6. CASE ~Loadable(log, hdr["primary"]) /\ Loadable(log, hdr["backup"])
  BY <1>4, <1>6 DEF OpenFrom
<1>7. CASE ~Loadable(log, hdr["primary"]) /\ ~Loadable(log, hdr["backup"])
  <2>1. CASE tails # {}
    <3>1. OpenFrom(log, hdr) = {[src |-> "tail", header |-> h] : h \in tails}
      BY <1>4, <1>7, <2>1 DEF OpenFrom
    <3> QED
      BY <2>1, <3>1
  <2>2. CASE tails = {}
    <3>1. OpenFrom(log, hdr) = {[src |-> "scan", header |-> ScanHeader(log, k)] :
                                   k \in recoverHeaderFromDirectoryScan(log)}
      BY <1>4, <1>7, <2>2 DEF OpenFrom
    <3> QED
      BY <1>3, <3>1
  <2> QED
    BY <2>1, <2>2
<1> QED
  BY <1>5, <1>6, <1>7

\* With NoSyncOnCommit, failing writes and power loss that destroys both slots
\* and any blobs that were never synced, Open still returns a snapshot as long
\* as the directory that Create wrote is among those that are left: the one thing
\* that could still stop it is a directory above the read cap.
THEOREM StaysOpenableHolds ==
    ASSUME IsFiniteSet(Paths), Cardinality(Paths) <= MaxDirEntries
    PROVE  Spec => []StaysOpenable
<1>1. Founded /\ NeverRefused => StaysOpenable
  BY FoundedOpens DEF StaysOpenable, UnderCap
<1> QED
  BY <1>1, Foundation, InitNeverRefused, NextNeverRefused, PTL DEF Spec

=============================================================================
