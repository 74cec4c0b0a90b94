------------------------ MODULE SharedHandles_proofs ------------------------
(***************************************************************************)
(* Proofs about SharedHandles: the invariant Inv is inductive whenever     *)
(* writers are excluded (by the flock, or because all Containers live in   *)
(* one process), and from it follow OneWriter, SnapshotsIntact and         *)
(* NoLockLeft; with Bounded, which counts what transactions append, also   *)
(* TypeOK.                                                                 *)
(***************************************************************************)
EXTENDS SharedHandles_inv, SequenceTheorems, FiniteSetTheorems, TLAPS

----------------------------------------------------------------------------
(* Types.                                                                  *)

\* A goroutine that moves on, or returns, keeps its type.
LEMMA GotoTypes ==
    ASSUME thr \in [Threads -> ThreadSet], NEW t \in Threads, NEW x \in Pcs, Goto(t, x)
    PROVE  thr' \in [Threads -> ThreadSet]
<1>1. thr' = [thr EXCEPT ![t] = [thr[t] EXCEPT !.pc = x]]
  BY DEF Goto
<1>2. [thr[t] EXCEPT !.pc = x] \in ThreadSet
  BY DEF ThreadSet
<1> QED
  BY <1>1, <1>2

LEMMA IdleTypes == NoHeader \in HeaderSet /\ Idle \in ThreadSet
<1>1. NoHeader \in HeaderSet
  BY DEF NoHeader, Header, HeaderSet
<1>2. "idle" \in Pcs
  BY DEF Pcs
<1> QED
  BY <1>1, <1>2 DEF Idle, ThreadSet

LEMMA ReturnTypes ==
    ASSUME thr \in [Threads -> ThreadSet], NEW t \in Threads, Return(t)
    PROVE  thr' \in [Threads -> ThreadSet]
BY IdleTypes DEF Return

\* What goroutines and Containers hold are headers and references.
LEMMA FieldTypes ==
    /\ \A s \in ThreadSet : s.hdr \in HeaderSet /\ s.refs \in SUBSET RefSet
                            /\ s.off \in Nat /\ s.id \in Nat
    /\ \A c \in HandleSet : c.hdr \in HeaderSet
    /\ \A h \in HeaderSet : h.gen \in Nat /\ h.at \in Nat /\ h.refs \in SUBSET RefSet
BY DEF ThreadSet, HandleSet, HeaderSet

\* What is written is a blob.
LEMMA BlobTypes ==
    /\ \A id \in Nat : Chunk(id) \in BlobSet
    /\ \A refs \in SUBSET RefSet : Dir(refs) \in BlobSet
    /\ \A g, n \in Nat, refs \in SUBSET RefSet : Header(g, n, refs) \in HeaderSet
    /\ \A id, n \in Nat : [id |-> id, at |-> n] \in RefSet
BY DEF Chunk, Dir, Header, BlobSet, HeaderSet, RefSet

\* A transaction writes past the end of the file.
LEMMA WriteAppends ==
    ASSUME log \in Seq(BlobSet), AppendsAtEnd, NEW t \in Threads,
           thr[t].pc \in {"tx", "commit"}, NEW b \in BlobSet, WriteAt(thr[t].off, b)
    PROVE  log' = Append(log, b) /\ log' \in Seq(BlobSet)
<1>1. thr[t].off = Len(log) + 1 /\ Len(log) \in Nat
  BY DEF AppendsAtEnd
<1> QED
  BY <1>1 DEF WriteAt

\* The updates of a goroutine's record keep its type.
LEMMA UpdateTypes ==
    ASSUME NEW s \in ThreadSet
    PROVE  /\ \A x \in Pcs, h \in HeaderSet : [s EXCEPT !.pc = x, !.hdr = h] \in ThreadSet
           /\ \A x \in Pcs, n \in Nat : [s EXCEPT !.pc = x, !.id = n] \in ThreadSet
           /\ \A x \in Pcs, r \in SUBSET RefSet :
                [s EXCEPT !.pc = x, !.refs = r] \in ThreadSet
           /\ \A x \in Pcs, r \in SUBSET RefSet, n \in Nat :
                [s EXCEPT !.pc = x, !.refs = r, !.off = n] \in ThreadSet
           /\ \A r \in SUBSET RefSet, n \in Nat :
                [s EXCEPT !.off = n, !.refs = r] \in ThreadSet
           /\ \A x \in Pcs, n \in Nat, h \in HeaderSet :
                [s EXCEPT !.pc = x, !.off = n, !.hdr = h] \in ThreadSet
BY DEF ThreadSet

\* Every step keeps the types.
LEMMA TypesStep ==
    ASSUME Types, AppendsAtEnd, [Next]_vars
    PROVE  Types'
<1> USE SharedAssumption, NobodyAssumption
<1>m. \A u \in Threads : Mine(u) \in Handles /\ ProcessLockOf(u) \in Processes
  BY DEF Mine, ProcessLockOf
<1>h. \A u \in Threads : handle[Mine(u)].hdr \in HeaderSet
  BY <1>m, FieldTypes DEF Types
<1>1. ASSUME NEW t \in Threads, StartOpen(t) PROVE Types'
  <2>1. Goto(t, "readPrimary") /\ "readPrimary" \in Pcs
    BY <1>1 DEF StartOpen, Pcs
  <2>2. thr' \in [Threads -> ThreadSet]
    BY <2>1, GotoTypes DEF Types
  <2>3. handle' \in [Handles -> HandleSet]
    BY <1>1, <1>m, FieldTypes DEF StartOpen, Types, HandleSet
  <2> QED
    BY <1>1, <1>m, <2>2, <2>3 DEF StartOpen, file, locks, counters, Types,
       FileTypes, LockTypes
<1>2. ASSUME NEW t \in Threads, ReadPrimary(t) PROVE Types'
  <2>1. thr' = [thr EXCEPT ![t] = [thr[t] EXCEPT !.pc = "loadPrimary", !.hdr = primary]]
    BY <1>2 DEF ReadPrimary
  <2>2. thr' \in [Threads -> ThreadSet]
    <3>1. thr[t] \in ThreadSet /\ "loadPrimary" \in Pcs
      BY DEF Types, Pcs
    <3>2. [thr[t] EXCEPT !.pc = "loadPrimary", !.hdr = primary] \in ThreadSet
      BY <1>h, <3>1, FieldTypes, UpdateTypes DEF Types, FileTypes
    <3> QED
      BY <2>1, <3>2 DEF Types
  <2> QED
    BY <1>2, <1>m, <2>2 DEF ReadPrimary, file, locks, counters, Types,
       FileTypes, LockTypes
<1>3. ASSUME NEW t \in Threads, LoadPrimary(t) PROVE Types'
  <2>2. thr' \in [Threads -> ThreadSet]
    BY <1>3, ReturnTypes DEF LoadPrimary, Types
  <2>3. handle' \in [Handles -> HandleSet]
    BY <1>3, <1>m, FieldTypes DEF LoadPrimary, Build, Types, HandleSet
  <2> QED
    BY <1>3, <1>m, <2>2, <2>3 DEF LoadPrimary, file, locks, counters, Types,
       FileTypes, LockTypes
<1>4. ASSUME NEW t \in Threads, TryBackup(t) PROVE Types'
  <2>1. Goto(t, "readBackup") /\ "readBackup" \in Pcs
    BY <1>4 DEF TryBackup, Pcs
  <2>2. thr' \in [Threads -> ThreadSet]
    BY <2>1, GotoTypes DEF Types
  <2> QED
    BY <1>4, <1>m, <2>2 DEF TryBackup, file, locks, counters, Types,
       FileTypes, LockTypes
<1>5. ASSUME NEW t \in Threads, ReadBackup(t) PROVE Types'
  <2>1. thr' = [thr EXCEPT ![t] = [thr[t] EXCEPT !.pc = "loadBackup", !.hdr = backup]]
    BY <1>5 DEF ReadBackup
  <2>2. thr' \in [Threads -> ThreadSet]
    <3>1. thr[t] \in ThreadSet /\ "loadBackup" \in Pcs
      BY DEF Types, Pcs
    <3>2. [thr[t] EXCEPT !.pc = "loadBackup", !.hdr = backup] \in ThreadSet
      BY <1>h, <3>1, FieldTypes, UpdateTypes DEF Types, FileTypes
    <3> QED
      BY <2>1, <3>2 DEF Types
  <2> QED
    BY <1>5, <1>m, <2>2 DEF ReadBackup, file, locks, counters, Types,
       FileTypes, LockTypes
<1>6. ASSUME NEW t \in Threads, LoadBackup(t) PROVE Types'
  <2>1. Goto(t, "persistProcess") /\ "persistProcess" \in Pcs
    BY <1>6 DEF LoadBackup, Pcs
  <2>2. thr' \in [Threads -> ThreadSet]
    BY <2>1, GotoTypes DEF Types
  <2> QED
    BY <1>6, <1>m, <2>2 DEF LoadBackup, file, locks, counters, Types,
       FileTypes, LockTypes
<1>7. ASSUME NEW t \in Threads, PersistLockProcess(t) PROVE Types'
  <2>1. Goto(t, "persistFile") /\ "persistFile" \in Pcs
    BY <1>7 DEF PersistLockProcess, Pcs
  <2>2. thr' \in [Threads -> ThreadSet]
    BY <2>1, GotoTypes DEF Types
  <2> QED
    BY <1>7, <1>m, <2>2 DEF PersistLockProcess, AcquireProcess, file,
       counters, Types, FileTypes, LockTypes
<1>8. ASSUME NEW t \in Threads, PersistLockFile(t) PROVE Types'
  <2>1. Goto(t, "persistPrimary") /\ "persistPrimary" \in Pcs
    BY <1>8 DEF PersistLockFile, Pcs
  <2>2. thr' \in [Threads -> ThreadSet]
    BY <2>1, GotoTypes DEF Types
  <2> QED
    BY <1>8, <1>m, <2>2 DEF PersistLockFile, AcquireFile, file, counters,
       Types, FileTypes, LockTypes
<1>9. ASSUME NEW t \in Threads, PersistSkip(t) PROVE Types'
  <2>1. Goto(t, "persistUnlock") /\ "persistUnlock" \in Pcs
    BY <1>9 DEF PersistSkip, Pcs
  <2>2. thr' \in [Threads -> ThreadSet]
    BY <2>1, GotoTypes DEF Types
  <2> QED
    BY <1>9, <1>m, <2>2 DEF PersistSkip, file, locks, Fault, Types, FileTypes,
       LockTypes
<1>10. ASSUME NEW t \in Threads, PersistPrimary(t) PROVE Types'
  <2>1. Goto(t, "persistBackup") /\ "persistBackup" \in Pcs
    BY <1>10 DEF PersistPrimary, Pcs
  <2>2. thr' \in [Threads -> ThreadSet]
    BY <2>1, GotoTypes DEF Types
  <2> QED
    BY <1>10, <1>m, FieldTypes, <2>2 DEF PersistPrimary, locks, Fault,
       NoFault, Types, FileTypes, LockTypes
<1>11. ASSUME NEW t \in Threads, PersistBackup(t) PROVE Types'
  <2>1. Goto(t, "persistUnlockFile") /\ "persistUnlockFile" \in Pcs
    BY <1>11 DEF PersistBackup, Pcs
  <2>2. thr' \in [Threads -> ThreadSet]
    BY <2>1, GotoTypes DEF Types
  <2> QED
    BY <1>11, <1>m, FieldTypes, <2>2 DEF PersistBackup, locks, Fault, NoFault,
       Types, FileTypes, LockTypes
<1>12. ASSUME NEW t \in Threads, PersistUnlockFile(t) PROVE Types'
  <2>1. Goto(t, "persistUnlock") /\ "persistUnlock" \in Pcs
    BY <1>12 DEF PersistUnlockFile, Pcs
  <2>2. thr' \in [Threads -> ThreadSet]
    BY <2>1, GotoTypes DEF Types
  <2> QED
    BY <1>12, <1>m, <2>2 DEF PersistUnlockFile, ReleaseFile, file, counters,
       Types, FileTypes, LockTypes
<1>13. ASSUME NEW t \in Threads, PersistUnlock(t) PROVE Types'
  <2>2. thr' \in [Threads -> ThreadSet]
    BY <1>13, ReturnTypes DEF PersistUnlock, Types
  <2>3. handle' \in [Handles -> HandleSet]
    BY <1>13, <1>m, FieldTypes DEF PersistUnlock, Build, Types, HandleSet
  <2> QED
    BY <1>13, <1>m, <2>2, <2>3 DEF PersistUnlock, ReleaseProcess, file,
       counters, Types, FileTypes, LockTypes
<1>14. ASSUME NEW t \in Threads, CallBegin(t) PROVE Types'
  <2>1. thr' = [thr EXCEPT ![t] = [thr[t] EXCEPT !.pc = "beginTxMu", !.id = begun + 1]]
    BY <1>14 DEF CallBegin
  <2>2. thr' \in [Threads -> ThreadSet]
    <3>1. thr[t] \in ThreadSet /\ "beginTxMu" \in Pcs /\ begun + 1 \in Nat
      BY DEF Types, Pcs
    <3>2. [thr[t] EXCEPT !.pc = "beginTxMu", !.id = begun + 1] \in ThreadSet
      BY <1>h, <3>1, FieldTypes, UpdateTypes DEF Types, FileTypes
    <3> QED
      BY <2>1, <3>2 DEF Types
  <2> QED
    BY <1>14, <1>m, <2>2 DEF CallBegin, file, locks, Types, FileTypes,
       LockTypes
<1>15. ASSUME NEW t \in Threads, LockTxMu(t) PROVE Types'
  <2>1. Goto(t, "beginMu") /\ "beginMu" \in Pcs
    BY <1>15 DEF LockTxMu, Pcs
  <2>2. thr' \in [Threads -> ThreadSet]
    BY <2>1, GotoTypes DEF Types
  <2> QED
    BY <1>15, <1>m, <2>2 DEF LockTxMu, file, counters, Types, FileTypes,
       LockTypes
<1>16. ASSUME NEW t \in Threads, LockMu(t) PROVE Types'
  <2>1. Goto(t, "beginProcess") /\ "beginProcess" \in Pcs
    BY <1>16 DEF LockMu, Pcs
  <2>2. thr' \in [Threads -> ThreadSet]
    BY <2>1, GotoTypes DEF Types
  <2> QED
    BY <1>16, <1>m, <2>2 DEF LockMu, file, counters, Types, FileTypes,
       LockTypes
<1>17. ASSUME NEW t \in Threads, BeginClosed(t) PROVE Types'
  <2>2. thr' \in [Threads -> ThreadSet]
    BY <1>17, ReturnTypes DEF BeginClosed, Types
  <2> QED
    BY <1>17, <1>m, <2>2 DEF BeginClosed, ReleaseMutexes, file, counters,
       Types, FileTypes, LockTypes
<1>18. ASSUME NEW t \in Threads, BeginLockProcess(t) PROVE Types'
  <2>1. Goto(t, "beginFile") /\ "beginFile" \in Pcs
    BY <1>18 DEF BeginLockProcess, Pcs
  <2>2. thr' \in [Threads -> ThreadSet]
    BY <2>1, GotoTypes DEF Types
  <2> QED
    BY <1>18, <1>m, <2>2 DEF BeginLockProcess, AcquireProcess, file, counters,
       Types, FileTypes, LockTypes
<1>19. ASSUME NEW t \in Threads, BeginLockFile(t) PROVE Types'
  <2>1. Goto(t, "beginCopy") /\ "beginCopy" \in Pcs
    BY <1>19 DEF BeginLockFile, Pcs
  <2>2. thr' \in [Threads -> ThreadSet]
    BY <2>1, GotoTypes DEF Types
  <2> QED
    BY <1>19, <1>m, <2>2 DEF BeginLockFile, AcquireFile, file, counters,
       Types, FileTypes, LockTypes
<1>20. ASSUME NEW t \in Threads, BeginFailsLock(t) PROVE Types'
  <2>2. thr' \in [Threads -> ThreadSet]
    BY <1>20, ReturnTypes DEF BeginFailsLock, Types
  <2> QED
    BY <1>20, <1>m, <2>2 DEF BeginFailsLock, BeginUnlocks, ReleaseProcess,
       ReleaseMutexes, file, Fault, Types, FileTypes, LockTypes
<1>21. ASSUME NEW t \in Threads, Copy(t) PROVE Types'
  <2>1. thr' = [thr EXCEPT ![t] = [thr[t] EXCEPT !.pc = "tx",
                    !.refs = handle[Mine(t)].hdr.refs, !.off = Len(log) + 1]]
    BY <1>21 DEF Copy
  <2>2. thr' \in [Threads -> ThreadSet]
    <3>1. thr[t] \in ThreadSet /\ "tx" \in Pcs /\ Len(log) + 1 \in Nat
      BY DEF Types, FileTypes, Pcs
    <3>2. [thr[t] EXCEPT !.pc = "tx",
                !.refs = handle[Mine(t)].hdr.refs, !.off = Len(log) + 1] \in ThreadSet
      BY <1>h, <3>1, FieldTypes, UpdateTypes DEF Types, FileTypes
    <3> QED
      BY <2>1, <3>2 DEF Types
  <2> QED
    BY <1>21, <1>m, <2>2 DEF Copy, file, counters, Types, FileTypes, LockTypes
<1>22. ASSUME NEW t \in Threads, BeginFailsCopy(t) PROVE Types'
  <2>2. thr' \in [Threads -> ThreadSet]
    BY <1>22, ReturnTypes DEF BeginFailsCopy, Types
  <2> QED
    BY <1>22, <1>m, <2>2 DEF BeginFailsCopy, ReleaseFile, BeginUnlocks,
       ReleaseProcess, ReleaseMutexes, file, Fault, Types, FileTypes,
       LockTypes
<1>23. ASSUME NEW t \in Threads, Put(t) PROVE Types'
  <2>1. thr[t] \in ThreadSet
    BY DEF Types
  <2>2. [id |-> thr[t].id, at |-> thr[t].off] \in RefSet
    BY <1>h, <2>1, FieldTypes, BlobTypes
  <2>3. thr' = [thr EXCEPT ![t] = [thr[t] EXCEPT !.off = thr[t].off + 1,
                    !.refs = thr[t].refs \cup {[id |-> thr[t].id, at |-> thr[t].off]}]]
    BY <1>23 DEF Put
  <2>4. thr' \in [Threads -> ThreadSet]
    <3>1. /\ thr[t].off + 1 \in Nat
          /\ thr[t].refs \cup {[id |-> thr[t].id, at |-> thr[t].off]} \in SUBSET RefSet
      BY <2>1, <2>2, FieldTypes
    <3>2. [thr[t] EXCEPT !.off = thr[t].off + 1,
                !.refs = thr[t].refs \cup {[id |-> thr[t].id, at |-> thr[t].off]}]
                \in ThreadSet
      BY <2>1, <2>2, <3>1, UpdateTypes
    <3> QED
      BY <2>3, <3>2 DEF Types
  <2>5. log' \in Seq(BlobSet)
    <3>1. WriteAt(thr[t].off, Chunk(thr[t].id)) /\ thr[t].pc = "tx"
      BY <1>23 DEF Put, At
    <3>2. Chunk(thr[t].id) \in BlobSet
      BY <2>1, FieldTypes, BlobTypes
    <3> QED
      BY <3>1, <3>2, WriteAppends DEF Types, FileTypes
  <2> QED
    BY <1>23, <2>4, <2>5 DEF Put, locks, counters, Types, FileTypes, LockTypes
<1>24. ASSUME NEW t \in Threads, CallCommit(t) PROVE Types'
  <2>1. Goto(t, "commit") /\ "commit" \in Pcs
    BY <1>24 DEF CallCommit, Pcs
  <2>2. thr' \in [Threads -> ThreadSet]
    BY <2>1, GotoTypes DEF Types
  <2> QED
    BY <1>24, <1>m, <2>2 DEF CallCommit, file, locks, counters, Types,
       FileTypes, LockTypes
<1>25. ASSUME NEW t \in Threads, Rollback(t) PROVE Types'
  <2>1. Goto(t, "unlockFile") /\ "unlockFile" \in Pcs
    BY <1>25 DEF Rollback, Pcs
  <2>2. thr' \in [Threads -> ThreadSet]
    BY <2>1, GotoTypes DEF Types
  <2> QED
    BY <1>25, <1>m, <2>2 DEF Rollback, file, locks, counters, Types,
       FileTypes, LockTypes
<1>26. ASSUME NEW t \in Threads, CommitDir(t) PROVE Types'
  <2>1. thr[t] \in ThreadSet
    BY DEF Types
  <2>2. Header(handle[Mine(t)].hdr.gen + 1, thr[t].off, thr[t].refs) \in HeaderSet
    BY <1>h, <2>1, FieldTypes, BlobTypes
  <2>3. thr' = [thr EXCEPT ![t] = [thr[t] EXCEPT !.pc = "writeBackup",
                    !.off = thr[t].off + 1,
                    !.hdr = Header(handle[Mine(t)].hdr.gen + 1, thr[t].off, thr[t].refs)]]
    BY <1>26 DEF CommitDir
  <2>4. thr' \in [Threads -> ThreadSet]
    <3>1. thr[t].off + 1 \in Nat /\ "writeBackup" \in Pcs
      BY <2>1, FieldTypes DEF Pcs
    <3>2. [thr[t] EXCEPT !.pc = "writeBackup",
                    !.off = thr[t].off + 1,
                !.hdr = Header(handle[Mine(t)].hdr.gen + 1, thr[t].off, thr[t].refs)]
                \in ThreadSet
      BY <2>1, <2>2, <3>1, UpdateTypes
    <3> QED
      BY <2>3, <3>2 DEF Types
  <2>5. log' \in Seq(BlobSet)
    <3>1. WriteAt(thr[t].off, Dir(thr[t].refs)) /\ thr[t].pc = "commit"
      BY <1>26 DEF CommitDir, At
    <3>2. Dir(thr[t].refs) \in BlobSet
      BY <2>1, FieldTypes, BlobTypes
    <3> QED
      BY <3>1, <3>2, WriteAppends DEF Types, FileTypes
  <2> QED
    BY <1>26, <2>4, <2>5 DEF CommitDir, locks, counters, Types, FileTypes, LockTypes
<1>27. ASSUME NEW t \in Threads, CommitBackup(t) PROVE Types'
  <2>1. Goto(t, "writePrimary") /\ "writePrimary" \in Pcs
    BY <1>27 DEF CommitBackup, Pcs
  <2>2. thr' \in [Threads -> ThreadSet]
    BY <2>1, GotoTypes DEF Types
  <2> QED
    BY <1>27, <1>m, FieldTypes, <2>2 DEF CommitBackup, locks, counters, Types,
       FileTypes, LockTypes
<1>28. ASSUME NEW t \in Threads, CommitPrimary(t) PROVE Types'
  <2>1. Goto(t, "publish") /\ "publish" \in Pcs
    BY <1>28 DEF CommitPrimary, Pcs
  <2>2. thr' \in [Threads -> ThreadSet]
    BY <2>1, GotoTypes DEF Types
  <2> QED
    BY <1>28, <1>m, FieldTypes, <2>2 DEF CommitPrimary, locks, counters,
       Types, FileTypes, LockTypes
<1>29. ASSUME NEW t \in Threads, Publish(t) PROVE Types'
  <2>1. Goto(t, "unlockFile") /\ "unlockFile" \in Pcs
    BY <1>29 DEF Publish, Pcs
  <2>2. thr' \in [Threads -> ThreadSet]
    BY <2>1, GotoTypes DEF Types
  <2>3. handle' \in [Handles -> HandleSet]
    BY <1>29, <1>m, FieldTypes DEF Publish, Types, HandleSet
  <2> QED
    BY <1>29, <1>m, <2>2, <2>3 DEF Publish, file, locks, counters, Types,
       FileTypes, LockTypes
<1>30. ASSUME NEW t \in Threads, CommitFails(t) PROVE Types'
  <2>1. Goto(t, "unlockFile") /\ "unlockFile" \in Pcs
    BY <1>30 DEF CommitFails, Pcs
  <2>2. thr' \in [Threads -> ThreadSet]
    BY <2>1, GotoTypes DEF Types
  <2> QED
    BY <1>30, <1>m, <2>2 DEF CommitFails, file, locks, Fault, Types,
       FileTypes, LockTypes
<1>31. ASSUME NEW t \in Threads, UnlockFile(t) PROVE Types'
  <2>1. Goto(t, "unlockProcess") /\ "unlockProcess" \in Pcs
    BY <1>31 DEF UnlockFile, Pcs
  <2>2. thr' \in [Threads -> ThreadSet]
    BY <2>1, GotoTypes DEF Types
  <2> QED
    BY <1>31, <1>m, <2>2 DEF UnlockFile, ReleaseFile, file, counters, Types,
       FileTypes, LockTypes
<1>32. ASSUME NEW t \in Threads, UnlockProcess(t) PROVE Types'
  <2>1. Goto(t, "unlockTxMu") /\ "unlockTxMu" \in Pcs
    BY <1>32 DEF UnlockProcess, Pcs
  <2>2. thr' \in [Threads -> ThreadSet]
    BY <2>1, GotoTypes DEF Types
  <2> QED
    BY <1>32, <1>m, <2>2 DEF UnlockProcess, ReleaseProcess, file, counters,
       Types, FileTypes, LockTypes
<1>33. ASSUME NEW t \in Threads, UnlockTxMu(t) PROVE Types'
  <2>2. thr' \in [Threads -> ThreadSet]
    BY <1>33, ReturnTypes DEF UnlockTxMu, Types
  <2> QED
    BY <1>33, <1>m, <2>2 DEF UnlockTxMu, file, counters, Types, FileTypes,
       LockTypes
<1>34. ASSUME NEW t \in Threads, CallRead(t) PROVE Types'
  <2>1. Goto(t, "readMu") /\ "readMu" \in Pcs
    BY <1>34 DEF CallRead, Pcs
  <2>2. thr' \in [Threads -> ThreadSet]
    BY <2>1, GotoTypes DEF Types
  <2> QED
    BY <1>34, <1>m, <2>2 DEF CallRead, file, locks, counters, Types,
       FileTypes, LockTypes
<1>35. ASSUME NEW t \in Threads, LockForRead(t) PROVE Types'
  <2>1. thr' = [thr EXCEPT ![t] = [thr[t] EXCEPT !.pc = "reading",
                    !.refs = handle[Mine(t)].hdr.refs]]
    BY <1>35 DEF LockForRead
  <2>2. thr' \in [Threads -> ThreadSet]
    <3>1. thr[t] \in ThreadSet /\ "reading" \in Pcs
      BY DEF Types, Pcs
    <3>2. [thr[t] EXCEPT !.pc = "reading",
                !.refs = handle[Mine(t)].hdr.refs] \in ThreadSet
      BY <1>h, <3>1, FieldTypes, UpdateTypes DEF Types, FileTypes
    <3> QED
      BY <2>1, <3>2 DEF Types
  <2> QED
    BY <1>35, <1>m, <2>2 DEF LockForRead, file, locks, counters, Types,
       FileTypes, LockTypes
<1>36. ASSUME NEW t \in Threads, ReadClosed(t) PROVE Types'
  <2>2. thr' \in [Threads -> ThreadSet]
    BY <1>36, ReturnTypes DEF ReadClosed, Types
  <2> QED
    BY <1>36, <1>m, <2>2 DEF ReadClosed, file, locks, counters, Types,
       FileTypes, LockTypes
<1>37. ASSUME NEW t \in Threads, FinishRead(t) PROVE Types'
  <2>2. thr' \in [Threads -> ThreadSet]
    BY <1>37, ReturnTypes DEF FinishRead, Types
  <2> QED
    BY <1>37, <1>m, <2>2 DEF FinishRead, file, locks, counters, Types,
       FileTypes, LockTypes
<1>38. ASSUME NEW t \in Threads, Close(t) PROVE Types'
  <2>2. thr' \in [Threads -> ThreadSet]
    BY <1>38 DEF Close, Types
  <2>3. handle' \in [Handles -> HandleSet]
    BY <1>38, <1>m, FieldTypes, IdleTypes DEF Close, Types, HandleSet
  <2> QED
    BY <1>38, <1>m, <2>2, <2>3 DEF Close, file, locks, counters, Types,
       FileTypes, LockTypes
<1>39. ASSUME NEW p \in Processes, Crash(p) PROVE Types'
  <2>1. thr' \in [Threads -> ThreadSet]
    BY <1>39, IdleTypes DEF Crash, Types
  <2>2. handle' \in [Handles -> HandleSet]
    BY <1>39, IdleTypes DEF Crash, Types, HandleSet
  <2>3. LockTypes'
    BY <1>39 DEF Crash, Types, LockTypes
  <2> QED
    BY <1>39, <2>1, <2>2, <2>3 DEF Crash, file, Types, FileTypes
<1>40. CASE UNCHANGED vars
  BY <1>40 DEF vars, file, locks, counters, Types, FileTypes, LockTypes
<1> QED
  BY <1>1, <1>2, <1>3, <1>4, <1>5, <1>6, <1>7, <1>8, <1>9, <1>10, <1>11,
     <1>12, <1>13, <1>14, <1>15, <1>16, <1>17, <1>18, <1>19, <1>20, <1>21,
     <1>22, <1>23, <1>24, <1>25, <1>26, <1>27, <1>28, <1>29, <1>30, <1>31,
     <1>32, <1>33, <1>34, <1>35, <1>36, <1>37, <1>38, <1>39, <1>40
    DEF Next, Call, Step, Wait, OpenStep, CommitStep, Release

----------------------------------------------------------------------------
(* The locks.                                                              *)

\* Every step keeps ProcessLocks.
LEMMA ProcessLocksStep ==
    ASSUME Types, ProcessLocks, [Next]_vars
    PROVE  ProcessLocks'
<1>1. ASSUME NEW t \in Threads, StartOpen(t) PROVE ProcessLocks'
  BY <1>1 DEF StartOpen, At, Goto, Mine, file, locks, counters, Types,
     LockTypes, ThreadSet, ProcessLocks, HoldsProcess, HoldsFile
<1>2. ASSUME NEW t \in Threads, ReadPrimary(t) PROVE ProcessLocks'
  BY <1>2 DEF ReadPrimary, At, file, locks, counters, Types, LockTypes,
     ThreadSet, ProcessLocks, HoldsProcess, HoldsFile
<1>3. ASSUME NEW t \in Threads, LoadPrimary(t) PROVE ProcessLocks'
  BY <1>3 DEF LoadPrimary, At, Return, Idle, NoHeader, Header, Build, Mine,
     file, locks, counters, Types, LockTypes, ThreadSet, ProcessLocks,
     HoldsProcess, HoldsFile
<1>4. ASSUME NEW t \in Threads, TryBackup(t) PROVE ProcessLocks'
  BY <1>4 DEF TryBackup, At, Goto, file, locks, counters, Types, LockTypes,
     ThreadSet, ProcessLocks, HoldsProcess, HoldsFile
<1>5. ASSUME NEW t \in Threads, ReadBackup(t) PROVE ProcessLocks'
  BY <1>5 DEF ReadBackup, At, file, locks, counters, Types, LockTypes,
     ThreadSet, ProcessLocks, HoldsProcess, HoldsFile
<1>6. ASSUME NEW t \in Threads, LoadBackup(t) PROVE ProcessLocks'
  BY <1>6 DEF LoadBackup, At, Goto, file, locks, counters, Types, LockTypes,
     ThreadSet, ProcessLocks, HoldsProcess, HoldsFile
<1>7. ASSUME NEW t \in Threads, PersistLockProcess(t) PROVE ProcessLocks'
  <2> DEFINE own == ProcessLockOf(t)
  <2>1. \A u \in Threads : ProcessLockOf(u) \in Processes
    BY SharedAssumption DEF ProcessLockOf, Mine
  <2>2. processLock[own] = Nobody /\ processLock' = [processLock EXCEPT ![own] = t]
    BY <1>7 DEF PersistLockProcess, AcquireProcess
  <2>3. \A u \in Threads : thr'[u].pc = IF u = t THEN "persistFile" ELSE thr[u].pc
    BY <1>7 DEF PersistLockProcess, Goto, Types, ThreadSet
  <2>4. processLock \in [Processes -> Threads \cup {Nobody}]
    BY DEF Types, LockTypes
  <2>5. ASSUME NEW u \in Threads, thr'[u].pc \in HoldsProcess
        PROVE  processLock'[ProcessLockOf(u)] = u
    <3>1. CASE u = t
      BY <2>1, <2>2, <2>4, <3>1
    <3>2. CASE u # t
      <4>1. processLock[ProcessLockOf(u)] = u
        BY <2>3, <2>5, <3>2 DEF ProcessLocks
      <4> QED
        BY <2>1, <2>2, <2>4, <4>1, NobodyAssumption
    <3> QED
      BY <3>1, <3>2
  <2>6. ASSUME NEW l \in Processes, NEW u \in Threads, processLock'[l] = u
        PROVE  thr'[u].pc \in HoldsProcess /\ ProcessLockOf(u) = l
    <3>1. CASE l = own
      <4>1. u = t
        BY <2>1, <2>2, <2>4, <2>6, <3>1
      <4> QED
        BY <2>3, <3>1, <4>1 DEF HoldsProcess, HoldsFile
    <3>2. CASE l # own
      <4>1. processLock[l] = u
        BY <2>2, <2>4, <2>6, <3>2
      <4>2. thr[u].pc \in HoldsProcess /\ ProcessLockOf(u) = l
        BY <4>1 DEF ProcessLocks
      <4> QED
        BY <2>3, <3>2, <4>2
    <3> QED
      BY <3>1, <3>2
  <2> QED
    BY <2>5, <2>6 DEF ProcessLocks, ProcessLockOf, Mine
<1>8. ASSUME NEW t \in Threads, PersistLockFile(t) PROVE ProcessLocks'
  BY <1>8 DEF PersistLockFile, At, Goto, AcquireFile, Mine, file, counters,
     Types, LockTypes, ThreadSet, ProcessLocks, HoldsProcess, HoldsFile
<1>9. ASSUME NEW t \in Threads, PersistSkip(t) PROVE ProcessLocks'
  BY <1>9 DEF PersistSkip, At, Goto, file, locks, Fault, Types, LockTypes,
     ThreadSet, ProcessLocks, HoldsProcess, HoldsFile
<1>10. ASSUME NEW t \in Threads, PersistPrimary(t) PROVE ProcessLocks'
  BY <1>10 DEF PersistPrimary, At, Goto, locks, Fault, NoFault, Types,
     LockTypes, ThreadSet, ProcessLocks, HoldsProcess, HoldsFile
<1>11. ASSUME NEW t \in Threads, PersistBackup(t) PROVE ProcessLocks'
  BY <1>11 DEF PersistBackup, At, Goto, locks, Fault, NoFault, Types,
     LockTypes, ThreadSet, ProcessLocks, HoldsProcess, HoldsFile
<1>12. ASSUME NEW t \in Threads, PersistUnlockFile(t) PROVE ProcessLocks'
  BY <1>12 DEF PersistUnlockFile, At, Goto, ReleaseFile, Mine, file, counters,
     Types, LockTypes, ThreadSet, ProcessLocks, HoldsProcess, HoldsFile
<1>13. ASSUME NEW t \in Threads, PersistUnlock(t) PROVE ProcessLocks'
  BY <1>13, SharedAssumption, NobodyAssumption DEF PersistUnlock, At, Return,
     Idle, NoHeader, Header, ReleaseProcess, ProcessLockOf, Mine, Build, file,
     counters, Types, LockTypes, ThreadSet, ProcessLocks, HoldsProcess,
     HoldsFile
<1>14. ASSUME NEW t \in Threads, CallBegin(t) PROVE ProcessLocks'
  BY <1>14 DEF CallBegin, At, Mine, file, locks, Types, LockTypes, ThreadSet,
     ProcessLocks, HoldsProcess, HoldsFile
<1>15. ASSUME NEW t \in Threads, LockTxMu(t) PROVE ProcessLocks'
  BY <1>15 DEF LockTxMu, At, Goto, Mine, file, counters, Types, LockTypes,
     ThreadSet, ProcessLocks, HoldsProcess, HoldsFile
<1>16. ASSUME NEW t \in Threads, LockMu(t) PROVE ProcessLocks'
  BY <1>16 DEF LockMu, At, Goto, Mine, file, counters, Types, LockTypes,
     ThreadSet, ProcessLocks, HoldsProcess, HoldsFile
<1>17. ASSUME NEW t \in Threads, BeginClosed(t) PROVE ProcessLocks'
  BY <1>17 DEF BeginClosed, At, Return, Idle, NoHeader, Header, Mine,
     ReleaseMutexes, file, counters, Types, LockTypes, ThreadSet,
     ProcessLocks, HoldsProcess, HoldsFile
<1>18. ASSUME NEW t \in Threads, BeginLockProcess(t) PROVE ProcessLocks'
  <2> DEFINE own == ProcessLockOf(t)
  <2>1. \A u \in Threads : ProcessLockOf(u) \in Processes
    BY SharedAssumption DEF ProcessLockOf, Mine
  <2>2. processLock[own] = Nobody /\ processLock' = [processLock EXCEPT ![own] = t]
    BY <1>18 DEF BeginLockProcess, AcquireProcess
  <2>3. \A u \in Threads : thr'[u].pc = IF u = t THEN "beginFile" ELSE thr[u].pc
    BY <1>18 DEF BeginLockProcess, Goto, Types, ThreadSet
  <2>4. processLock \in [Processes -> Threads \cup {Nobody}]
    BY DEF Types, LockTypes
  <2>5. ASSUME NEW u \in Threads, thr'[u].pc \in HoldsProcess
        PROVE  processLock'[ProcessLockOf(u)] = u
    <3>1. CASE u = t
      BY <2>1, <2>2, <2>4, <3>1
    <3>2. CASE u # t
      <4>1. processLock[ProcessLockOf(u)] = u
        BY <2>3, <2>5, <3>2 DEF ProcessLocks
      <4> QED
        BY <2>1, <2>2, <2>4, <4>1, NobodyAssumption
    <3> QED
      BY <3>1, <3>2
  <2>6. ASSUME NEW l \in Processes, NEW u \in Threads, processLock'[l] = u
        PROVE  thr'[u].pc \in HoldsProcess /\ ProcessLockOf(u) = l
    <3>1. CASE l = own
      <4>1. u = t
        BY <2>1, <2>2, <2>4, <2>6, <3>1
      <4> QED
        BY <2>3, <3>1, <4>1 DEF HoldsProcess, HoldsFile
    <3>2. CASE l # own
      <4>1. processLock[l] = u
        BY <2>2, <2>4, <2>6, <3>2
      <4>2. thr[u].pc \in HoldsProcess /\ ProcessLockOf(u) = l
        BY <4>1 DEF ProcessLocks
      <4> QED
        BY <2>3, <3>2, <4>2
    <3> QED
      BY <3>1, <3>2
  <2> QED
    BY <2>5, <2>6 DEF ProcessLocks, ProcessLockOf, Mine
<1>19. ASSUME NEW t \in Threads, BeginLockFile(t) PROVE ProcessLocks'
  BY <1>19 DEF BeginLockFile, At, Goto, AcquireFile, Mine, file, counters,
     Types, LockTypes, ThreadSet, ProcessLocks, HoldsProcess, HoldsFile
<1>20. ASSUME NEW t \in Threads, BeginFailsLock(t) PROVE ProcessLocks'
  BY <1>20, SharedAssumption, NobodyAssumption DEF BeginFailsLock, At, Return,
     Idle, NoHeader, Header, BeginUnlocks, ReleaseProcess, ProcessLockOf,
     Mine, ReleaseMutexes, file, Fault, Types, LockTypes, ThreadSet,
     ProcessLocks, HoldsProcess, HoldsFile
<1>21. ASSUME NEW t \in Threads, Copy(t) PROVE ProcessLocks'
  BY <1>21 DEF Copy, At, Mine, file, counters, Types, LockTypes, ThreadSet,
     ProcessLocks, HoldsProcess, HoldsFile
<1>22. ASSUME NEW t \in Threads, BeginFailsCopy(t) PROVE ProcessLocks'
  BY <1>22, SharedAssumption, NobodyAssumption DEF BeginFailsCopy, At, Return,
     Idle, NoHeader, Header, ReleaseFile, Mine, BeginUnlocks, ReleaseProcess,
     ProcessLockOf, ReleaseMutexes, file, Fault, Types, LockTypes, ThreadSet,
     ProcessLocks, HoldsProcess, HoldsFile
<1>23. ASSUME NEW t \in Threads, Put(t) PROVE ProcessLocks'
  BY <1>23 DEF Put, At, locks, counters, WriteAt, Chunk, Types, LockTypes,
     ThreadSet, ProcessLocks, HoldsProcess, HoldsFile
<1>24. ASSUME NEW t \in Threads, CallCommit(t) PROVE ProcessLocks'
  BY <1>24 DEF CallCommit, At, Goto, file, locks, counters, Types, LockTypes,
     ThreadSet, ProcessLocks, HoldsProcess, HoldsFile
<1>25. ASSUME NEW t \in Threads, Rollback(t) PROVE ProcessLocks'
  BY <1>25 DEF Rollback, At, Goto, file, locks, counters, Types, LockTypes,
     ThreadSet, ProcessLocks, HoldsProcess, HoldsFile
<1>26. ASSUME NEW t \in Threads, CommitDir(t) PROVE ProcessLocks'
  BY <1>26 DEF CommitDir, At, Mine, locks, counters, WriteAt, Dir, Header,
     Types, LockTypes, ThreadSet, ProcessLocks, HoldsProcess, HoldsFile
<1>27. ASSUME NEW t \in Threads, CommitBackup(t) PROVE ProcessLocks'
  BY <1>27 DEF CommitBackup, At, Goto, locks, counters, Types, LockTypes,
     ThreadSet, ProcessLocks, HoldsProcess, HoldsFile
<1>28. ASSUME NEW t \in Threads, CommitPrimary(t) PROVE ProcessLocks'
  BY <1>28 DEF CommitPrimary, At, Goto, locks, counters, Types, LockTypes,
     ThreadSet, ProcessLocks, HoldsProcess, HoldsFile
<1>29. ASSUME NEW t \in Threads, Publish(t) PROVE ProcessLocks'
  BY <1>29 DEF Publish, At, Goto, Mine, file, locks, counters, Types,
     LockTypes, ThreadSet, ProcessLocks, HoldsProcess, HoldsFile
<1>30. ASSUME NEW t \in Threads, CommitFails(t) PROVE ProcessLocks'
  BY <1>30 DEF CommitFails, Goto, file, locks, Fault, Types, LockTypes,
     ThreadSet, ProcessLocks, HoldsProcess, HoldsFile
<1>31. ASSUME NEW t \in Threads, UnlockFile(t) PROVE ProcessLocks'
  BY <1>31 DEF UnlockFile, At, Goto, ReleaseFile, Mine, file, counters, Types,
     LockTypes, ThreadSet, ProcessLocks, HoldsProcess, HoldsFile
<1>32. ASSUME NEW t \in Threads, UnlockProcess(t) PROVE ProcessLocks'
  BY <1>32, SharedAssumption, NobodyAssumption DEF UnlockProcess, At, Goto,
     ReleaseProcess, ProcessLockOf, Mine, file, counters, Types, LockTypes,
     ThreadSet, ProcessLocks, HoldsProcess, HoldsFile
<1>33. ASSUME NEW t \in Threads, UnlockTxMu(t) PROVE ProcessLocks'
  BY <1>33 DEF UnlockTxMu, At, Return, Idle, NoHeader, Header, Mine, file,
     counters, Types, LockTypes, ThreadSet, ProcessLocks, HoldsProcess,
     HoldsFile
<1>34. ASSUME NEW t \in Threads, CallRead(t) PROVE ProcessLocks'
  BY <1>34 DEF CallRead, At, Goto, Mine, file, locks, counters, Types,
     LockTypes, ThreadSet, ProcessLocks, HoldsProcess, HoldsFile
<1>35. ASSUME NEW t \in Threads, LockForRead(t) PROVE ProcessLocks'
  BY <1>35 DEF LockForRead, At, Mine, file, locks, counters, Types, LockTypes,
     ThreadSet, ProcessLocks, HoldsProcess, HoldsFile
<1>36. ASSUME NEW t \in Threads, ReadClosed(t) PROVE ProcessLocks'
  BY <1>36 DEF ReadClosed, At, Return, Idle, NoHeader, Header, Mine, file,
     locks, counters, Types, LockTypes, ThreadSet, ProcessLocks, HoldsProcess,
     HoldsFile
<1>37. ASSUME NEW t \in Threads, FinishRead(t) PROVE ProcessLocks'
  BY <1>37 DEF FinishRead, At, Return, Idle, NoHeader, Header, file, locks,
     counters, Types, LockTypes, ThreadSet, ProcessLocks, HoldsProcess,
     HoldsFile
<1>38. ASSUME NEW t \in Threads, Close(t) PROVE ProcessLocks'
  BY <1>38 DEF Close, At, Mine, file, locks, counters, NoHeader, Header,
     Types, LockTypes, ThreadSet, ProcessLocks, HoldsProcess, HoldsFile
<1>39. ASSUME NEW p \in Processes, Crash(p) PROVE ProcessLocks'
  <2>1. \A u \in Threads :
            /\ ProcessLockOf(u) \in Processes
            /\ thr'[u] = IF ProcessLockOf(u) = p THEN Idle ELSE thr[u]
    BY <1>39, SharedAssumption DEF Crash, ProcessLockOf, Mine
  <2>2. processLock' = [processLock EXCEPT ![p] = Nobody]
    BY <1>39 DEF Crash
  <2>3. processLock \in [Processes -> Threads \cup {Nobody}]
    BY DEF Types, LockTypes
  <2>4. Idle.pc \notin HoldsProcess
    BY DEF Idle, HoldsProcess, HoldsFile
  <2>5. ASSUME NEW u \in Threads, thr'[u].pc \in HoldsProcess
        PROVE  processLock'[ProcessLockOf(u)] = u
    <3>1. ProcessLockOf(u) # p /\ thr'[u] = thr[u]
      BY <2>1, <2>4, <2>5
    <3> QED
      BY <2>1, <2>2, <2>3, <2>5, <3>1 DEF ProcessLocks
  <2>6. ASSUME NEW l \in Processes, NEW u \in Threads, processLock'[l] = u
        PROVE  thr'[u].pc \in HoldsProcess /\ ProcessLockOf(u) = l
    <3>1. l # p /\ processLock[l] = u
      BY <2>2, <2>3, <2>6, NobodyAssumption
    <3>2. thr[u].pc \in HoldsProcess /\ ProcessLockOf(u) = l
      BY <3>1 DEF ProcessLocks
    <3> QED
      BY <2>1, <3>1, <3>2
  <2> QED
    BY <2>5, <2>6 DEF ProcessLocks, ProcessLockOf, Mine
<1>40. CASE UNCHANGED vars
  BY <1>40 DEF vars, file, locks, counters, Types, LockTypes, ThreadSet,
     ProcessLocks, HoldsProcess, HoldsFile
<1> QED
  BY <1>1, <1>2, <1>3, <1>4, <1>5, <1>6, <1>7, <1>8, <1>9, <1>10, <1>11,
     <1>12, <1>13, <1>14, <1>15, <1>16, <1>17, <1>18, <1>19, <1>20, <1>21,
     <1>22, <1>23, <1>24, <1>25, <1>26, <1>27, <1>28, <1>29, <1>30, <1>31,
     <1>32, <1>33, <1>34, <1>35, <1>36, <1>37, <1>38, <1>39, <1>40
    DEF Next, Call, Step, Wait, OpenStep, CommitStep, Release

\* Every step keeps FileLock: ReleaseFile gives back t's own flock only.
LEMMA FileLockStep ==
    ASSUME Types, ProcessLocks, FileLock, [Next]_vars
    PROVE  FileLock'
<1>1. ASSUME NEW t \in Threads, StartOpen(t) PROVE FileLock'
  BY <1>1 DEF StartOpen, At, Goto, Mine, file, locks, counters, Types,
     LockTypes, ThreadSet, ProcessLocks, FileLock, HoldsProcess, HoldsFile
<1>2. ASSUME NEW t \in Threads, ReadPrimary(t) PROVE FileLock'
  BY <1>2 DEF ReadPrimary, At, file, locks, counters, Types, LockTypes,
     ThreadSet, ProcessLocks, FileLock, HoldsProcess, HoldsFile
<1>3. ASSUME NEW t \in Threads, LoadPrimary(t) PROVE FileLock'
  BY <1>3 DEF LoadPrimary, At, Return, Idle, NoHeader, Header, Build, Mine,
     file, locks, counters, Types, LockTypes, ThreadSet, ProcessLocks,
     FileLock, HoldsProcess, HoldsFile
<1>4. ASSUME NEW t \in Threads, TryBackup(t) PROVE FileLock'
  BY <1>4 DEF TryBackup, At, Goto, file, locks, counters, Types, LockTypes,
     ThreadSet, ProcessLocks, FileLock, HoldsProcess, HoldsFile
<1>5. ASSUME NEW t \in Threads, ReadBackup(t) PROVE FileLock'
  BY <1>5 DEF ReadBackup, At, file, locks, counters, Types, LockTypes,
     ThreadSet, ProcessLocks, FileLock, HoldsProcess, HoldsFile
<1>6. ASSUME NEW t \in Threads, LoadBackup(t) PROVE FileLock'
  BY <1>6 DEF LoadBackup, At, Goto, file, locks, counters, Types, LockTypes,
     ThreadSet, ProcessLocks, FileLock, HoldsProcess, HoldsFile
<1>7. ASSUME NEW t \in Threads, PersistLockProcess(t) PROVE FileLock'
  BY <1>7 DEF PersistLockProcess, At, Goto, AcquireProcess, ProcessLockOf,
     Mine, file, counters, Types, LockTypes, ThreadSet, ProcessLocks,
     FileLock, HoldsProcess, HoldsFile
<1>8. ASSUME NEW t \in Threads, PersistLockFile(t) PROVE FileLock'
  <2>1. /\ \A u \in Threads : Mine(u) \in Handles /\ Mine(u) # Nobody
        /\ thr[t].pc = "persistFile"
        /\ \A u \in Threads : thr'[u].pc = IF u = t THEN "persistPrimary" ELSE thr[u].pc
    <3>1. \A u \in Threads : Mine(u) \in Handles /\ Mine(u) # Nobody
      BY SharedAssumption, NobodyAssumption DEF Mine
    <3>2. thr[t].pc = "persistFile" /\ Goto(t, "persistPrimary")
      BY <1>8 DEF PersistLockFile, At
    <3> QED
      BY <3>1, <3>2 DEF Goto, Types, ThreadSet
  <2>2. "persistFile" \notin HoldsFile /\ "persistPrimary" \in HoldsFile
    BY DEF HoldsFile
  <2>3. CASE Flock
    <3>1. flock \in {Nobody, Mine(t)} /\ flock' = Mine(t)
      BY <1>8, <2>3 DEF PersistLockFile, AcquireFile
    <3>2. \A u \in Threads : thr'[u].pc \in HoldsFile => Mine(u) = Mine(t)
      BY <2>1, <2>2, <2>3, <3>1 DEF FileLock
    <3> QED
      BY <2>1, <2>2, <3>1, <3>2 DEF FileLock, Mine
  <2>4. CASE ~Flock
    <3>1. flock' = flock
      BY <1>8, <2>4 DEF PersistLockFile, AcquireFile
    <3> QED
      BY <2>1, <2>2, <2>4, <3>1 DEF FileLock, Mine
  <2> QED
    BY <2>3, <2>4
<1>9. ASSUME NEW t \in Threads, PersistSkip(t) PROVE FileLock'
  BY <1>9 DEF PersistSkip, At, Goto, file, locks, Fault, Types, LockTypes,
     ThreadSet, ProcessLocks, FileLock, HoldsProcess, HoldsFile
<1>10. ASSUME NEW t \in Threads, PersistPrimary(t) PROVE FileLock'
  BY <1>10 DEF PersistPrimary, At, Goto, locks, Fault, NoFault, Types,
     LockTypes, ThreadSet, ProcessLocks, FileLock, HoldsProcess, HoldsFile
<1>11. ASSUME NEW t \in Threads, PersistBackup(t) PROVE FileLock'
  BY <1>11 DEF PersistBackup, At, Goto, locks, Fault, NoFault, Types,
     LockTypes, ThreadSet, ProcessLocks, FileLock, HoldsProcess, HoldsFile
<1>12. ASSUME NEW t \in Threads, PersistUnlockFile(t) PROVE FileLock'
  <2>1. /\ thr[t].pc = "persistUnlockFile"
        /\ \A u \in Threads : thr'[u].pc = IF u = t THEN "persistUnlock" ELSE thr[u].pc
        /\ flock' = IF flock = Mine(t) THEN Nobody ELSE flock
    BY <1>12 DEF PersistUnlockFile, At, Goto, ReleaseFile, Types, ThreadSet
  <2>2. /\ "persistUnlockFile" \in HoldsFile /\ "persistUnlock" \notin HoldsFile
        /\ HoldsFile \subseteq HoldsProcess
    BY DEF HoldsFile, HoldsProcess
  <2>3. ASSUME Flock, NEW u \in Threads, u # t PROVE thr[u].pc \notin HoldsFile
    <3>1. SUFFICES ASSUME thr[u].pc \in HoldsFile PROVE FALSE
      OBVIOUS
    <3>2. ProcessLockOf(u) = ProcessLockOf(t)
      BY <2>1, <2>2, <2>3, <3>1 DEF FileLock, ProcessLockOf
    <3> QED
      BY <2>1, <2>2, <2>3, <3>1, <3>2 DEF ProcessLocks
  <2> QED
    BY <2>1, <2>2, <2>3 DEF FileLock, Mine
<1>13. ASSUME NEW t \in Threads, PersistUnlock(t) PROVE FileLock'
  BY <1>13 DEF PersistUnlock, At, Return, Idle, NoHeader, Header,
     ReleaseProcess, ProcessLockOf, Mine, Build, file, counters, Types,
     LockTypes, ThreadSet, ProcessLocks, FileLock, HoldsProcess, HoldsFile
<1>14. ASSUME NEW t \in Threads, CallBegin(t) PROVE FileLock'
  BY <1>14 DEF CallBegin, At, Mine, file, locks, Types, LockTypes, ThreadSet,
     ProcessLocks, FileLock, HoldsProcess, HoldsFile
<1>15. ASSUME NEW t \in Threads, LockTxMu(t) PROVE FileLock'
  BY <1>15 DEF LockTxMu, At, Goto, Mine, file, counters, Types, LockTypes,
     ThreadSet, ProcessLocks, FileLock, HoldsProcess, HoldsFile
<1>16. ASSUME NEW t \in Threads, LockMu(t) PROVE FileLock'
  BY <1>16 DEF LockMu, At, Goto, Mine, file, counters, Types, LockTypes,
     ThreadSet, ProcessLocks, FileLock, HoldsProcess, HoldsFile
<1>17. ASSUME NEW t \in Threads, BeginClosed(t) PROVE FileLock'
  BY <1>17 DEF BeginClosed, At, Return, Idle, NoHeader, Header, Mine,
     ReleaseMutexes, file, counters, Types, LockTypes, ThreadSet,
     ProcessLocks, FileLock, HoldsProcess, HoldsFile
<1>18. ASSUME NEW t \in Threads, BeginLockProcess(t) PROVE FileLock'
  BY <1>18 DEF BeginLockProcess, At, Goto, AcquireProcess, ProcessLockOf,
     Mine, file, counters, Types, LockTypes, ThreadSet, ProcessLocks,
     FileLock, HoldsProcess, HoldsFile
<1>19. ASSUME NEW t \in Threads, BeginLockFile(t) PROVE FileLock'
  <2>1. /\ \A u \in Threads : Mine(u) \in Handles /\ Mine(u) # Nobody
        /\ thr[t].pc = "beginFile"
        /\ \A u \in Threads : thr'[u].pc = IF u = t THEN "beginCopy" ELSE thr[u].pc
    <3>1. \A u \in Threads : Mine(u) \in Handles /\ Mine(u) # Nobody
      BY SharedAssumption, NobodyAssumption DEF Mine
    <3>2. thr[t].pc = "beginFile" /\ Goto(t, "beginCopy")
      BY <1>19 DEF BeginLockFile, At
    <3> QED
      BY <3>1, <3>2 DEF Goto, Types, ThreadSet
  <2>2. "beginFile" \notin HoldsFile /\ "beginCopy" \in HoldsFile
    BY DEF HoldsFile
  <2>3. CASE Flock
    <3>1. flock \in {Nobody, Mine(t)} /\ flock' = Mine(t)
      BY <1>19, <2>3 DEF BeginLockFile, AcquireFile
    <3>2. \A u \in Threads : thr'[u].pc \in HoldsFile => Mine(u) = Mine(t)
      BY <2>1, <2>2, <2>3, <3>1 DEF FileLock
    <3> QED
      BY <2>1, <2>2, <3>1, <3>2 DEF FileLock, Mine
  <2>4. CASE ~Flock
    <3>1. flock' = flock
      BY <1>19, <2>4 DEF BeginLockFile, AcquireFile
    <3> QED
      BY <2>1, <2>2, <2>4, <3>1 DEF FileLock, Mine
  <2> QED
    BY <2>3, <2>4
<1>20. ASSUME NEW t \in Threads, BeginFailsLock(t) PROVE FileLock'
  BY <1>20 DEF BeginFailsLock, At, Return, Idle, NoHeader, Header,
     BeginUnlocks, ReleaseProcess, ProcessLockOf, Mine, ReleaseMutexes, file,
     Fault, Types, LockTypes, ThreadSet, ProcessLocks, FileLock, HoldsProcess,
     HoldsFile
<1>21. ASSUME NEW t \in Threads, Copy(t) PROVE FileLock'
  BY <1>21 DEF Copy, At, Mine, file, counters, Types, LockTypes, ThreadSet,
     ProcessLocks, FileLock, HoldsProcess, HoldsFile
<1>22. ASSUME NEW t \in Threads, BeginFailsCopy(t) PROVE FileLock'
  BY <1>22 DEF BeginFailsCopy, At, Return, Idle, NoHeader, Header,
     ReleaseFile, Mine, BeginUnlocks, ReleaseProcess, ProcessLockOf,
     ReleaseMutexes, file, Fault, Types, LockTypes, ThreadSet, ProcessLocks,
     FileLock, HoldsProcess, HoldsFile
<1>23. ASSUME NEW t \in Threads, Put(t) PROVE FileLock'
  BY <1>23 DEF Put, At, locks, counters, WriteAt, Chunk, Types, LockTypes,
     ThreadSet, ProcessLocks, FileLock, HoldsProcess, HoldsFile
<1>24. ASSUME NEW t \in Threads, CallCommit(t) PROVE FileLock'
  BY <1>24 DEF CallCommit, At, Goto, file, locks, counters, Types, LockTypes,
     ThreadSet, ProcessLocks, FileLock, HoldsProcess, HoldsFile
<1>25. ASSUME NEW t \in Threads, Rollback(t) PROVE FileLock'
  BY <1>25 DEF Rollback, At, Goto, file, locks, counters, Types, LockTypes,
     ThreadSet, ProcessLocks, FileLock, HoldsProcess, HoldsFile
<1>26. ASSUME NEW t \in Threads, CommitDir(t) PROVE FileLock'
  BY <1>26 DEF CommitDir, At, Mine, locks, counters, WriteAt, Dir, Header,
     Types, LockTypes, ThreadSet, ProcessLocks, FileLock, HoldsProcess,
     HoldsFile
<1>27. ASSUME NEW t \in Threads, CommitBackup(t) PROVE FileLock'
  BY <1>27 DEF CommitBackup, At, Goto, locks, counters, Types, LockTypes,
     ThreadSet, ProcessLocks, FileLock, HoldsProcess, HoldsFile
<1>28. ASSUME NEW t \in Threads, CommitPrimary(t) PROVE FileLock'
  BY <1>28 DEF CommitPrimary, At, Goto, locks, counters, Types, LockTypes,
     ThreadSet, ProcessLocks, FileLock, HoldsProcess, HoldsFile
<1>29. ASSUME NEW t \in Threads, Publish(t) PROVE FileLock'
  BY <1>29 DEF Publish, At, Goto, Mine, file, locks, counters, Types,
     LockTypes, ThreadSet, ProcessLocks, FileLock, HoldsProcess, HoldsFile
<1>30. ASSUME NEW t \in Threads, CommitFails(t) PROVE FileLock'
  BY <1>30 DEF CommitFails, Goto, file, locks, Fault, Types, LockTypes,
     ThreadSet, ProcessLocks, FileLock, HoldsProcess, HoldsFile
<1>31. ASSUME NEW t \in Threads, UnlockFile(t) PROVE FileLock'
  <2>1. /\ thr[t].pc = "unlockFile"
        /\ \A u \in Threads : thr'[u].pc = IF u = t THEN "unlockProcess" ELSE thr[u].pc
        /\ flock' = IF flock = Mine(t) THEN Nobody ELSE flock
    BY <1>31 DEF UnlockFile, At, Goto, ReleaseFile, Types, ThreadSet
  <2>2. /\ "unlockFile" \in HoldsFile /\ "unlockProcess" \notin HoldsFile
        /\ HoldsFile \subseteq HoldsProcess
    BY DEF HoldsFile, HoldsProcess
  <2>3. ASSUME Flock, NEW u \in Threads, u # t PROVE thr[u].pc \notin HoldsFile
    <3>1. SUFFICES ASSUME thr[u].pc \in HoldsFile PROVE FALSE
      OBVIOUS
    <3>2. ProcessLockOf(u) = ProcessLockOf(t)
      BY <2>1, <2>2, <2>3, <3>1 DEF FileLock, ProcessLockOf
    <3> QED
      BY <2>1, <2>2, <2>3, <3>1, <3>2 DEF ProcessLocks
  <2> QED
    BY <2>1, <2>2, <2>3 DEF FileLock, Mine
<1>32. ASSUME NEW t \in Threads, UnlockProcess(t) PROVE FileLock'
  BY <1>32 DEF UnlockProcess, At, Goto, ReleaseProcess, ProcessLockOf, Mine,
     file, counters, Types, LockTypes, ThreadSet, ProcessLocks, FileLock,
     HoldsProcess, HoldsFile
<1>33. ASSUME NEW t \in Threads, UnlockTxMu(t) PROVE FileLock'
  BY <1>33 DEF UnlockTxMu, At, Return, Idle, NoHeader, Header, Mine, file,
     counters, Types, LockTypes, ThreadSet, ProcessLocks, FileLock,
     HoldsProcess, HoldsFile
<1>34. ASSUME NEW t \in Threads, CallRead(t) PROVE FileLock'
  BY <1>34 DEF CallRead, At, Goto, Mine, file, locks, counters, Types,
     LockTypes, ThreadSet, ProcessLocks, FileLock, HoldsProcess, HoldsFile
<1>35. ASSUME NEW t \in Threads, LockForRead(t) PROVE FileLock'
  BY <1>35 DEF LockForRead, At, Mine, file, locks, counters, Types, LockTypes,
     ThreadSet, ProcessLocks, FileLock, HoldsProcess, HoldsFile
<1>36. ASSUME NEW t \in Threads, ReadClosed(t) PROVE FileLock'
  BY <1>36 DEF ReadClosed, At, Return, Idle, NoHeader, Header, Mine, file,
     locks, counters, Types, LockTypes, ThreadSet, ProcessLocks, FileLock,
     HoldsProcess, HoldsFile
<1>37. ASSUME NEW t \in Threads, FinishRead(t) PROVE FileLock'
  BY <1>37 DEF FinishRead, At, Return, Idle, NoHeader, Header, file, locks,
     counters, Types, LockTypes, ThreadSet, ProcessLocks, FileLock,
     HoldsProcess, HoldsFile
<1>38. ASSUME NEW t \in Threads, Close(t) PROVE FileLock'
  BY <1>38 DEF Close, At, Mine, file, locks, counters, NoHeader, Header,
     Types, LockTypes, ThreadSet, ProcessLocks, FileLock, HoldsProcess,
     HoldsFile
<1>39. ASSUME NEW p \in Processes, Crash(p) PROVE FileLock'
  BY <1>39 DEF Crash, Mine, file, Idle, NoHeader, Header, Types, LockTypes,
     ThreadSet, ProcessLocks, FileLock, HoldsProcess, HoldsFile
<1>40. CASE UNCHANGED vars
  BY <1>40 DEF vars, file, locks, counters, Types, LockTypes, ThreadSet,
     ProcessLocks, FileLock, HoldsProcess, HoldsFile
<1> QED
  BY <1>1, <1>2, <1>3, <1>4, <1>5, <1>6, <1>7, <1>8, <1>9, <1>10, <1>11,
     <1>12, <1>13, <1>14, <1>15, <1>16, <1>17, <1>18, <1>19, <1>20, <1>21,
     <1>22, <1>23, <1>24, <1>25, <1>26, <1>27, <1>28, <1>29, <1>30, <1>31,
     <1>32, <1>33, <1>34, <1>35, <1>36, <1>37, <1>38, <1>39, <1>40
    DEF Next, Call, Step, Wait, OpenStep, CommitStep, Release

\* Every step keeps TxMutexes.
LEMMA TxMutexesStep ==
    ASSUME Types, TxMutexes, [Next]_vars
    PROVE  TxMutexes'
<1>1. ASSUME NEW t \in Threads, StartOpen(t) PROVE TxMutexes'
  BY <1>1 DEF StartOpen, At, Goto, Mine, file, locks, counters, Types,
     LockTypes, ThreadSet, TxMutexes, HoldsTxMu, HoldsMu
<1>2. ASSUME NEW t \in Threads, ReadPrimary(t) PROVE TxMutexes'
  BY <1>2 DEF ReadPrimary, At, file, locks, counters, Types, LockTypes,
     ThreadSet, TxMutexes, HoldsTxMu, HoldsMu
<1>3. ASSUME NEW t \in Threads, LoadPrimary(t) PROVE TxMutexes'
  BY <1>3 DEF LoadPrimary, At, Return, Idle, NoHeader, Header, Build, Mine,
     file, locks, counters, Types, LockTypes, ThreadSet, TxMutexes, HoldsTxMu,
     HoldsMu
<1>4. ASSUME NEW t \in Threads, TryBackup(t) PROVE TxMutexes'
  BY <1>4 DEF TryBackup, At, Goto, file, locks, counters, Types, LockTypes,
     ThreadSet, TxMutexes, HoldsTxMu, HoldsMu
<1>5. ASSUME NEW t \in Threads, ReadBackup(t) PROVE TxMutexes'
  BY <1>5 DEF ReadBackup, At, file, locks, counters, Types, LockTypes,
     ThreadSet, TxMutexes, HoldsTxMu, HoldsMu
<1>6. ASSUME NEW t \in Threads, LoadBackup(t) PROVE TxMutexes'
  BY <1>6 DEF LoadBackup, At, Goto, file, locks, counters, Types, LockTypes,
     ThreadSet, TxMutexes, HoldsTxMu, HoldsMu
<1>7. ASSUME NEW t \in Threads, PersistLockProcess(t) PROVE TxMutexes'
  BY <1>7 DEF PersistLockProcess, At, Goto, AcquireProcess, ProcessLockOf,
     Mine, file, counters, Types, LockTypes, ThreadSet, TxMutexes, HoldsTxMu,
     HoldsMu
<1>8. ASSUME NEW t \in Threads, PersistLockFile(t) PROVE TxMutexes'
  BY <1>8 DEF PersistLockFile, At, Goto, AcquireFile, Mine, file, counters,
     Types, LockTypes, ThreadSet, TxMutexes, HoldsTxMu, HoldsMu
<1>9. ASSUME NEW t \in Threads, PersistSkip(t) PROVE TxMutexes'
  BY <1>9 DEF PersistSkip, At, Goto, file, locks, Fault, Types, LockTypes,
     ThreadSet, TxMutexes, HoldsTxMu, HoldsMu
<1>10. ASSUME NEW t \in Threads, PersistPrimary(t) PROVE TxMutexes'
  BY <1>10 DEF PersistPrimary, At, Goto, locks, Fault, NoFault, Types,
     LockTypes, ThreadSet, TxMutexes, HoldsTxMu, HoldsMu
<1>11. ASSUME NEW t \in Threads, PersistBackup(t) PROVE TxMutexes'
  BY <1>11 DEF PersistBackup, At, Goto, locks, Fault, NoFault, Types,
     LockTypes, ThreadSet, TxMutexes, HoldsTxMu, HoldsMu
<1>12. ASSUME NEW t \in Threads, PersistUnlockFile(t) PROVE TxMutexes'
  BY <1>12 DEF PersistUnlockFile, At, Goto, ReleaseFile, Mine, file, counters,
     Types, LockTypes, ThreadSet, TxMutexes, HoldsTxMu, HoldsMu
<1>13. ASSUME NEW t \in Threads, PersistUnlock(t) PROVE TxMutexes'
  BY <1>13 DEF PersistUnlock, At, Return, Idle, NoHeader, Header,
     ReleaseProcess, ProcessLockOf, Mine, Build, file, counters, Types,
     LockTypes, ThreadSet, TxMutexes, HoldsTxMu, HoldsMu
<1>14. ASSUME NEW t \in Threads, CallBegin(t) PROVE TxMutexes'
  <2>1. \A u \in Threads : thr'[u].pc = IF u = t THEN "beginTxMu" ELSE thr[u].pc
    BY <1>14 DEF CallBegin, Types, ThreadSet
  <2>2. thr[t].pc = "idle" /\ txMu' = txMu
    BY <1>14 DEF CallBegin, At, locks
  <2> QED
    BY <2>1, <2>2 DEF TxMutexes, HoldsTxMu, HoldsMu, Mine
<1>15. ASSUME NEW t \in Threads, LockTxMu(t) PROVE TxMutexes'
  <2> DEFINE own == Mine(t)
  <2>1. \A u \in Threads : Mine(u) \in Handles
    BY SharedAssumption DEF Mine
  <2>2. txMu[own] = Nobody /\ txMu' = [txMu EXCEPT ![own] = t]
    BY <1>15 DEF LockTxMu
  <2>3. \A u \in Threads : thr'[u].pc = IF u = t THEN "beginMu" ELSE thr[u].pc
    BY <1>15 DEF LockTxMu, Goto, Types, ThreadSet
  <2>4. txMu \in [Handles -> Threads \cup {Nobody}]
    BY DEF Types, LockTypes
  <2>5. ASSUME NEW u \in Threads, thr'[u].pc \in HoldsTxMu
        PROVE  txMu'[Mine(u)] = u
    <3>1. CASE u = t
      BY <2>1, <2>2, <2>4, <3>1
    <3>2. CASE u # t
      <4>1. txMu[Mine(u)] = u
        BY <2>3, <2>5, <3>2 DEF TxMutexes
      <4> QED
        BY <2>1, <2>2, <2>4, <4>1, NobodyAssumption
    <3> QED
      BY <3>1, <3>2
  <2>6. ASSUME NEW l \in Handles, NEW u \in Threads, txMu'[l] = u
        PROVE  thr'[u].pc \in HoldsTxMu /\ Mine(u) = l
    <3>1. CASE l = own
      <4>1. u = t
        BY <2>1, <2>2, <2>4, <2>6, <3>1
      <4> QED
        BY <2>3, <3>1, <4>1 DEF HoldsTxMu, HoldsMu
    <3>2. CASE l # own
      <4>1. txMu[l] = u
        BY <2>2, <2>4, <2>6, <3>2
      <4>2. thr[u].pc \in HoldsTxMu /\ Mine(u) = l
        BY <4>1 DEF TxMutexes
      <4> QED
        BY <2>3, <3>2, <4>2
    <3> QED
      BY <3>1, <3>2
  <2> QED
    BY <2>5, <2>6 DEF TxMutexes, Mine
<1>16. ASSUME NEW t \in Threads, LockMu(t) PROVE TxMutexes'
  BY <1>16 DEF LockMu, At, Goto, Mine, file, counters, Types, LockTypes,
     ThreadSet, TxMutexes, HoldsTxMu, HoldsMu
<1>17. ASSUME NEW t \in Threads, BeginClosed(t) PROVE TxMutexes'
  BY <1>17, SharedAssumption, NobodyAssumption DEF BeginClosed, At, Return,
     Idle, NoHeader, Header, Mine, ReleaseMutexes, file, counters, Types,
     LockTypes, ThreadSet, TxMutexes, HoldsTxMu, HoldsMu
<1>18. ASSUME NEW t \in Threads, BeginLockProcess(t) PROVE TxMutexes'
  BY <1>18 DEF BeginLockProcess, At, Goto, AcquireProcess, ProcessLockOf,
     Mine, file, counters, Types, LockTypes, ThreadSet, TxMutexes, HoldsTxMu,
     HoldsMu
<1>19. ASSUME NEW t \in Threads, BeginLockFile(t) PROVE TxMutexes'
  BY <1>19 DEF BeginLockFile, At, Goto, AcquireFile, Mine, file, counters,
     Types, LockTypes, ThreadSet, TxMutexes, HoldsTxMu, HoldsMu
<1>20. ASSUME NEW t \in Threads, BeginFailsLock(t) PROVE TxMutexes'
  BY <1>20, SharedAssumption, NobodyAssumption DEF BeginFailsLock, At, Return,
     Idle, NoHeader, Header, BeginUnlocks, ReleaseProcess, ProcessLockOf,
     Mine, ReleaseMutexes, file, Fault, Types, LockTypes, ThreadSet,
     TxMutexes, HoldsTxMu, HoldsMu
<1>21. ASSUME NEW t \in Threads, Copy(t) PROVE TxMutexes'
  BY <1>21 DEF Copy, At, Mine, file, counters, Types, LockTypes, ThreadSet,
     TxMutexes, HoldsTxMu, HoldsMu
<1>22. ASSUME NEW t \in Threads, BeginFailsCopy(t) PROVE TxMutexes'
  BY <1>22, SharedAssumption, NobodyAssumption DEF BeginFailsCopy, At, Return,
     Idle, NoHeader, Header, ReleaseFile, Mine, BeginUnlocks, ReleaseProcess,
     ProcessLockOf, ReleaseMutexes, file, Fault, Types, LockTypes, ThreadSet,
     TxMutexes, HoldsTxMu, HoldsMu
<1>23. ASSUME NEW t \in Threads, Put(t) PROVE TxMutexes'
  BY <1>23 DEF Put, At, locks, counters, WriteAt, Chunk, Types, LockTypes,
     ThreadSet, TxMutexes, HoldsTxMu, HoldsMu
<1>24. ASSUME NEW t \in Threads, CallCommit(t) PROVE TxMutexes'
  BY <1>24 DEF CallCommit, At, Goto, file, locks, counters, Types, LockTypes,
     ThreadSet, TxMutexes, HoldsTxMu, HoldsMu
<1>25. ASSUME NEW t \in Threads, Rollback(t) PROVE TxMutexes'
  BY <1>25 DEF Rollback, At, Goto, file, locks, counters, Types, LockTypes,
     ThreadSet, TxMutexes, HoldsTxMu, HoldsMu
<1>26. ASSUME NEW t \in Threads, CommitDir(t) PROVE TxMutexes'
  BY <1>26 DEF CommitDir, At, Mine, locks, counters, WriteAt, Dir, Header,
     Types, LockTypes, ThreadSet, TxMutexes, HoldsTxMu, HoldsMu
<1>27. ASSUME NEW t \in Threads, CommitBackup(t) PROVE TxMutexes'
  BY <1>27 DEF CommitBackup, At, Goto, locks, counters, Types, LockTypes,
     ThreadSet, TxMutexes, HoldsTxMu, HoldsMu
<1>28. ASSUME NEW t \in Threads, CommitPrimary(t) PROVE TxMutexes'
  BY <1>28 DEF CommitPrimary, At, Goto, locks, counters, Types, LockTypes,
     ThreadSet, TxMutexes, HoldsTxMu, HoldsMu
<1>29. ASSUME NEW t \in Threads, Publish(t) PROVE TxMutexes'
  BY <1>29 DEF Publish, At, Goto, Mine, file, locks, counters, Types,
     LockTypes, ThreadSet, TxMutexes, HoldsTxMu, HoldsMu
<1>30. ASSUME NEW t \in Threads, CommitFails(t) PROVE TxMutexes'
  BY <1>30 DEF CommitFails, Goto, file, locks, Fault, Types, LockTypes,
     ThreadSet, TxMutexes, HoldsTxMu, HoldsMu
<1>31. ASSUME NEW t \in Threads, UnlockFile(t) PROVE TxMutexes'
  BY <1>31 DEF UnlockFile, At, Goto, ReleaseFile, Mine, file, counters, Types,
     LockTypes, ThreadSet, TxMutexes, HoldsTxMu, HoldsMu
<1>32. ASSUME NEW t \in Threads, UnlockProcess(t) PROVE TxMutexes'
  BY <1>32 DEF UnlockProcess, At, Goto, ReleaseProcess, ProcessLockOf, Mine,
     file, counters, Types, LockTypes, ThreadSet, TxMutexes, HoldsTxMu,
     HoldsMu
<1>33. ASSUME NEW t \in Threads, UnlockTxMu(t) PROVE TxMutexes'
  BY <1>33, SharedAssumption, NobodyAssumption DEF UnlockTxMu, At, Return,
     Idle, NoHeader, Header, Mine, file, counters, Types, LockTypes,
     ThreadSet, TxMutexes, HoldsTxMu, HoldsMu
<1>34. ASSUME NEW t \in Threads, CallRead(t) PROVE TxMutexes'
  BY <1>34 DEF CallRead, At, Goto, Mine, file, locks, counters, Types,
     LockTypes, ThreadSet, TxMutexes, HoldsTxMu, HoldsMu
<1>35. ASSUME NEW t \in Threads, LockForRead(t) PROVE TxMutexes'
  BY <1>35 DEF LockForRead, At, Mine, file, locks, counters, Types, LockTypes,
     ThreadSet, TxMutexes, HoldsTxMu, HoldsMu
<1>36. ASSUME NEW t \in Threads, ReadClosed(t) PROVE TxMutexes'
  BY <1>36 DEF ReadClosed, At, Return, Idle, NoHeader, Header, Mine, file,
     locks, counters, Types, LockTypes, ThreadSet, TxMutexes, HoldsTxMu,
     HoldsMu
<1>37. ASSUME NEW t \in Threads, FinishRead(t) PROVE TxMutexes'
  BY <1>37 DEF FinishRead, At, Return, Idle, NoHeader, Header, file, locks,
     counters, Types, LockTypes, ThreadSet, TxMutexes, HoldsTxMu, HoldsMu
<1>38. ASSUME NEW t \in Threads, Close(t) PROVE TxMutexes'
  BY <1>38 DEF Close, At, Mine, file, locks, counters, NoHeader, Header,
     Types, LockTypes, ThreadSet, TxMutexes, HoldsTxMu, HoldsMu
<1>39. ASSUME NEW p \in Processes, Crash(p) PROVE TxMutexes'
  BY <1>39, SharedAssumption, NobodyAssumption DEF Crash, Mine, file, Idle,
     NoHeader, Header, Types, LockTypes, ThreadSet, TxMutexes, HoldsTxMu,
     HoldsMu
<1>40. CASE UNCHANGED vars
  BY <1>40 DEF vars, file, locks, counters, Types, LockTypes, ThreadSet,
     TxMutexes, HoldsTxMu, HoldsMu
<1> QED
  BY <1>1, <1>2, <1>3, <1>4, <1>5, <1>6, <1>7, <1>8, <1>9, <1>10, <1>11,
     <1>12, <1>13, <1>14, <1>15, <1>16, <1>17, <1>18, <1>19, <1>20, <1>21,
     <1>22, <1>23, <1>24, <1>25, <1>26, <1>27, <1>28, <1>29, <1>30, <1>31,
     <1>32, <1>33, <1>34, <1>35, <1>36, <1>37, <1>38, <1>39, <1>40
    DEF Next, Call, Step, Wait, OpenStep, CommitStep, Release

\* Every step keeps Mutexes.
LEMMA MutexesStep ==
    ASSUME Types, Mutexes, [Next]_vars
    PROVE  Mutexes'
<1>1. ASSUME NEW t \in Threads, StartOpen(t) PROVE Mutexes'
  BY <1>1 DEF StartOpen, At, Goto, Mine, file, locks, counters, Types,
     LockTypes, ThreadSet, Mutexes, HoldsMu
<1>2. ASSUME NEW t \in Threads, ReadPrimary(t) PROVE Mutexes'
  BY <1>2 DEF ReadPrimary, At, file, locks, counters, Types, LockTypes,
     ThreadSet, Mutexes, HoldsMu
<1>3. ASSUME NEW t \in Threads, LoadPrimary(t) PROVE Mutexes'
  BY <1>3 DEF LoadPrimary, At, Return, Idle, NoHeader, Header, Build, Mine,
     file, locks, counters, Types, LockTypes, ThreadSet, Mutexes, HoldsMu
<1>4. ASSUME NEW t \in Threads, TryBackup(t) PROVE Mutexes'
  BY <1>4 DEF TryBackup, At, Goto, file, locks, counters, Types, LockTypes,
     ThreadSet, Mutexes, HoldsMu
<1>5. ASSUME NEW t \in Threads, ReadBackup(t) PROVE Mutexes'
  BY <1>5 DEF ReadBackup, At, file, locks, counters, Types, LockTypes,
     ThreadSet, Mutexes, HoldsMu
<1>6. ASSUME NEW t \in Threads, LoadBackup(t) PROVE Mutexes'
  BY <1>6 DEF LoadBackup, At, Goto, file, locks, counters, Types, LockTypes,
     ThreadSet, Mutexes, HoldsMu
<1>7. ASSUME NEW t \in Threads, PersistLockProcess(t) PROVE Mutexes'
  BY <1>7 DEF PersistLockProcess, At, Goto, AcquireProcess, ProcessLockOf,
     Mine, file, counters, Types, LockTypes, ThreadSet, Mutexes, HoldsMu
<1>8. ASSUME NEW t \in Threads, PersistLockFile(t) PROVE Mutexes'
  BY <1>8 DEF PersistLockFile, At, Goto, AcquireFile, Mine, file, counters,
     Types, LockTypes, ThreadSet, Mutexes, HoldsMu
<1>9. ASSUME NEW t \in Threads, PersistSkip(t) PROVE Mutexes'
  BY <1>9 DEF PersistSkip, At, Goto, file, locks, Fault, Types, LockTypes,
     ThreadSet, Mutexes, HoldsMu
<1>10. ASSUME NEW t \in Threads, PersistPrimary(t) PROVE Mutexes'
  BY <1>10 DEF PersistPrimary, At, Goto, locks, Fault, NoFault, Types,
     LockTypes, ThreadSet, Mutexes, HoldsMu
<1>11. ASSUME NEW t \in Threads, PersistBackup(t) PROVE Mutexes'
  BY <1>11 DEF PersistBackup, At, Goto, locks, Fault, NoFault, Types,
     LockTypes, ThreadSet, Mutexes, HoldsMu
<1>12. ASSUME NEW t \in Threads, PersistUnlockFile(t) PROVE Mutexes'
  BY <1>12 DEF PersistUnlockFile, At, Goto, ReleaseFile, Mine, file, counters,
     Types, LockTypes, ThreadSet, Mutexes, HoldsMu
<1>13. ASSUME NEW t \in Threads, PersistUnlock(t) PROVE Mutexes'
  BY <1>13 DEF PersistUnlock, At, Return, Idle, NoHeader, Header,
     ReleaseProcess, ProcessLockOf, Mine, Build, file, counters, Types,
     LockTypes, ThreadSet, Mutexes, HoldsMu
<1>14. ASSUME NEW t \in Threads, CallBegin(t) PROVE Mutexes'
  BY <1>14 DEF CallBegin, At, Mine, file, locks, Types, LockTypes, ThreadSet,
     Mutexes, HoldsMu
<1>15. ASSUME NEW t \in Threads, LockTxMu(t) PROVE Mutexes'
  BY <1>15 DEF LockTxMu, At, Goto, Mine, file, counters, Types, LockTypes,
     ThreadSet, Mutexes, HoldsMu
<1>16. ASSUME NEW t \in Threads, LockMu(t) PROVE Mutexes'
  <2> DEFINE own == Mine(t)
  <2>1. \A u \in Threads : Mine(u) \in Handles
    BY SharedAssumption DEF Mine
  <2>2. mu[own] = Nobody /\ mu' = [mu EXCEPT ![own] = t]
    BY <1>16 DEF LockMu
  <2>3. \A u \in Threads : thr'[u].pc = IF u = t THEN "beginProcess" ELSE thr[u].pc
    BY <1>16 DEF LockMu, Goto, Types, ThreadSet
  <2>4. mu \in [Handles -> Threads \cup {Nobody}]
    BY DEF Types, LockTypes
  <2>5. ASSUME NEW u \in Threads, thr'[u].pc \in HoldsMu
        PROVE  mu'[Mine(u)] = u
    <3>1. CASE u = t
      BY <2>1, <2>2, <2>4, <3>1
    <3>2. CASE u # t
      <4>1. mu[Mine(u)] = u
        BY <2>3, <2>5, <3>2 DEF Mutexes
      <4> QED
        BY <2>1, <2>2, <2>4, <4>1, NobodyAssumption
    <3> QED
      BY <3>1, <3>2
  <2>6. ASSUME NEW l \in Handles, NEW u \in Threads, mu'[l] = u
        PROVE  thr'[u].pc \in HoldsMu /\ Mine(u) = l
    <3>1. CASE l = own
      <4>1. u = t
        BY <2>1, <2>2, <2>4, <2>6, <3>1
      <4> QED
        BY <2>3, <3>1, <4>1 DEF HoldsMu
    <3>2. CASE l # own
      <4>1. mu[l] = u
        BY <2>2, <2>4, <2>6, <3>2
      <4>2. thr[u].pc \in HoldsMu /\ Mine(u) = l
        BY <4>1 DEF Mutexes
      <4> QED
        BY <2>3, <3>2, <4>2
    <3> QED
      BY <3>1, <3>2
  <2> QED
    BY <2>5, <2>6 DEF Mutexes, Mine
<1>17. ASSUME NEW t \in Threads, BeginClosed(t) PROVE Mutexes'
  BY <1>17, SharedAssumption, NobodyAssumption DEF BeginClosed, At, Return,
     Idle, NoHeader, Header, Mine, ReleaseMutexes, file, counters, Types,
     LockTypes, ThreadSet, Mutexes, HoldsMu
<1>18. ASSUME NEW t \in Threads, BeginLockProcess(t) PROVE Mutexes'
  BY <1>18 DEF BeginLockProcess, At, Goto, AcquireProcess, ProcessLockOf,
     Mine, file, counters, Types, LockTypes, ThreadSet, Mutexes, HoldsMu
<1>19. ASSUME NEW t \in Threads, BeginLockFile(t) PROVE Mutexes'
  BY <1>19 DEF BeginLockFile, At, Goto, AcquireFile, Mine, file, counters,
     Types, LockTypes, ThreadSet, Mutexes, HoldsMu
<1>20. ASSUME NEW t \in Threads, BeginFailsLock(t) PROVE Mutexes'
  BY <1>20, SharedAssumption, NobodyAssumption DEF BeginFailsLock, At, Return,
     Idle, NoHeader, Header, BeginUnlocks, ReleaseProcess, ProcessLockOf,
     Mine, ReleaseMutexes, file, Fault, Types, LockTypes, ThreadSet, Mutexes,
     HoldsMu
<1>21. ASSUME NEW t \in Threads, Copy(t) PROVE Mutexes'
  BY <1>21, SharedAssumption, NobodyAssumption DEF Copy, At, Mine, file,
     counters, Types, LockTypes, ThreadSet, Mutexes, HoldsMu
<1>22. ASSUME NEW t \in Threads, BeginFailsCopy(t) PROVE Mutexes'
  BY <1>22, SharedAssumption, NobodyAssumption DEF BeginFailsCopy, At, Return,
     Idle, NoHeader, Header, ReleaseFile, Mine, BeginUnlocks, ReleaseProcess,
     ProcessLockOf, ReleaseMutexes, file, Fault, Types, LockTypes, ThreadSet,
     Mutexes, HoldsMu
<1>23. ASSUME NEW t \in Threads, Put(t) PROVE Mutexes'
  BY <1>23 DEF Put, At, locks, counters, WriteAt, Chunk, Types, LockTypes,
     ThreadSet, Mutexes, HoldsMu
<1>24. ASSUME NEW t \in Threads, CallCommit(t) PROVE Mutexes'
  BY <1>24 DEF CallCommit, At, Goto, file, locks, counters, Types, LockTypes,
     ThreadSet, Mutexes, HoldsMu
<1>25. ASSUME NEW t \in Threads, Rollback(t) PROVE Mutexes'
  BY <1>25 DEF Rollback, At, Goto, file, locks, counters, Types, LockTypes,
     ThreadSet, Mutexes, HoldsMu
<1>26. ASSUME NEW t \in Threads, CommitDir(t) PROVE Mutexes'
  BY <1>26 DEF CommitDir, At, Mine, locks, counters, WriteAt, Dir, Header,
     Types, LockTypes, ThreadSet, Mutexes, HoldsMu
<1>27. ASSUME NEW t \in Threads, CommitBackup(t) PROVE Mutexes'
  BY <1>27 DEF CommitBackup, At, Goto, locks, counters, Types, LockTypes,
     ThreadSet, Mutexes, HoldsMu
<1>28. ASSUME NEW t \in Threads, CommitPrimary(t) PROVE Mutexes'
  BY <1>28 DEF CommitPrimary, At, Goto, locks, counters, Types, LockTypes,
     ThreadSet, Mutexes, HoldsMu
<1>29. ASSUME NEW t \in Threads, Publish(t) PROVE Mutexes'
  BY <1>29 DEF Publish, At, Goto, Mine, file, locks, counters, Types,
     LockTypes, ThreadSet, Mutexes, HoldsMu
<1>30. ASSUME NEW t \in Threads, CommitFails(t) PROVE Mutexes'
  BY <1>30 DEF CommitFails, Goto, file, locks, Fault, Types, LockTypes,
     ThreadSet, Mutexes, HoldsMu
<1>31. ASSUME NEW t \in Threads, UnlockFile(t) PROVE Mutexes'
  BY <1>31 DEF UnlockFile, At, Goto, ReleaseFile, Mine, file, counters, Types,
     LockTypes, ThreadSet, Mutexes, HoldsMu
<1>32. ASSUME NEW t \in Threads, UnlockProcess(t) PROVE Mutexes'
  BY <1>32 DEF UnlockProcess, At, Goto, ReleaseProcess, ProcessLockOf, Mine,
     file, counters, Types, LockTypes, ThreadSet, Mutexes, HoldsMu
<1>33. ASSUME NEW t \in Threads, UnlockTxMu(t) PROVE Mutexes'
  BY <1>33 DEF UnlockTxMu, At, Return, Idle, NoHeader, Header, Mine, file,
     counters, Types, LockTypes, ThreadSet, Mutexes, HoldsMu
<1>34. ASSUME NEW t \in Threads, CallRead(t) PROVE Mutexes'
  BY <1>34 DEF CallRead, At, Goto, Mine, file, locks, counters, Types,
     LockTypes, ThreadSet, Mutexes, HoldsMu
<1>35. ASSUME NEW t \in Threads, LockForRead(t) PROVE Mutexes'
  BY <1>35 DEF LockForRead, At, Mine, file, locks, counters, Types, LockTypes,
     ThreadSet, Mutexes, HoldsMu
<1>36. ASSUME NEW t \in Threads, ReadClosed(t) PROVE Mutexes'
  BY <1>36 DEF ReadClosed, At, Return, Idle, NoHeader, Header, Mine, file,
     locks, counters, Types, LockTypes, ThreadSet, Mutexes, HoldsMu
<1>37. ASSUME NEW t \in Threads, FinishRead(t) PROVE Mutexes'
  BY <1>37 DEF FinishRead, At, Return, Idle, NoHeader, Header, file, locks,
     counters, Types, LockTypes, ThreadSet, Mutexes, HoldsMu
<1>38. ASSUME NEW t \in Threads, Close(t) PROVE Mutexes'
  BY <1>38 DEF Close, At, Mine, file, locks, counters, NoHeader, Header,
     Types, LockTypes, ThreadSet, Mutexes, HoldsMu
<1>39. ASSUME NEW p \in Processes, Crash(p) PROVE Mutexes'
  BY <1>39, SharedAssumption, NobodyAssumption DEF Crash, Mine, file, Idle,
     NoHeader, Header, Types, LockTypes, ThreadSet, Mutexes, HoldsMu
<1>40. CASE UNCHANGED vars
  BY <1>40 DEF vars, file, locks, counters, Types, LockTypes, ThreadSet,
     Mutexes, HoldsMu
<1> QED
  BY <1>1, <1>2, <1>3, <1>4, <1>5, <1>6, <1>7, <1>8, <1>9, <1>10, <1>11,
     <1>12, <1>13, <1>14, <1>15, <1>16, <1>17, <1>18, <1>19, <1>20, <1>21,
     <1>22, <1>23, <1>24, <1>25, <1>26, <1>27, <1>28, <1>29, <1>30, <1>31,
     <1>32, <1>33, <1>34, <1>35, <1>36, <1>37, <1>38, <1>39, <1>40
    DEF Next, Call, Step, Wait, OpenStep, CommitStep, Release

\* Every step keeps States: Close needs txMu, which a transaction holds.
LEMMA StatesStep ==
    ASSUME Types, TxMutexes, States, [Next]_vars
    PROVE  States'
<1>1. ASSUME NEW t \in Threads, StartOpen(t) PROVE States'
  <2>1. /\ \A u \in Threads : Mine(u) \in Handles
        /\ handle[Mine(t)].state = "closed"
        /\ \A u \in Threads : thr'[u].pc = IF u = t THEN "readPrimary" ELSE thr[u].pc
        /\ \A h \in Handles :
              handle'[h].state = IF h = Mine(t) THEN "opening" ELSE handle[h].state
    BY <1>1, SharedAssumption DEF StartOpen, At, Goto, Mine, Types, ThreadSet, HandleSet
  <2>2. \A u \in Threads : thr[u].pc \in Opening \cup InTx => Mine(u) # Mine(t)
    BY <2>1 DEF States
  <2>3. "readPrimary" \in Opening /\ "readPrimary" \notin InTx
    BY DEF Opening, InTx
  <2> QED
    BY <2>1, <2>2, <2>3 DEF States, Mine
<1>2. ASSUME NEW t \in Threads, ReadPrimary(t) PROVE States'
  BY <1>2 DEF ReadPrimary, At, file, locks, counters, Types, LockTypes,
     ThreadSet, HandleSet, States, Opening, InTx, TxMutexes, HoldsTxMu,
     HoldsMu
<1>3. ASSUME NEW t \in Threads, LoadPrimary(t) PROVE States'
  BY <1>3 DEF LoadPrimary, At, Return, Idle, NoHeader, Header, Build, Mine,
     file, locks, counters, Types, LockTypes, ThreadSet, HandleSet, States,
     Opening, InTx, TxMutexes, HoldsTxMu, HoldsMu
<1>4. ASSUME NEW t \in Threads, TryBackup(t) PROVE States'
  BY <1>4 DEF TryBackup, At, Goto, file, locks, counters, Types, LockTypes,
     ThreadSet, HandleSet, States, Opening, InTx, TxMutexes, HoldsTxMu,
     HoldsMu
<1>5. ASSUME NEW t \in Threads, ReadBackup(t) PROVE States'
  BY <1>5 DEF ReadBackup, At, file, locks, counters, Types, LockTypes,
     ThreadSet, HandleSet, States, Opening, InTx, TxMutexes, HoldsTxMu,
     HoldsMu
<1>6. ASSUME NEW t \in Threads, LoadBackup(t) PROVE States'
  BY <1>6 DEF LoadBackup, At, Goto, file, locks, counters, Types, LockTypes,
     ThreadSet, HandleSet, States, Opening, InTx, TxMutexes, HoldsTxMu,
     HoldsMu
<1>7. ASSUME NEW t \in Threads, PersistLockProcess(t) PROVE States'
  BY <1>7 DEF PersistLockProcess, At, Goto, AcquireProcess, ProcessLockOf,
     Mine, file, counters, Types, LockTypes, ThreadSet, HandleSet, States,
     Opening, InTx, TxMutexes, HoldsTxMu, HoldsMu
<1>8. ASSUME NEW t \in Threads, PersistLockFile(t) PROVE States'
  BY <1>8 DEF PersistLockFile, At, Goto, AcquireFile, Mine, file, counters,
     Types, LockTypes, ThreadSet, HandleSet, States, Opening, InTx, TxMutexes,
     HoldsTxMu, HoldsMu
<1>9. ASSUME NEW t \in Threads, PersistSkip(t) PROVE States'
  BY <1>9 DEF PersistSkip, At, Goto, file, locks, Fault, Types, LockTypes,
     ThreadSet, HandleSet, States, Opening, InTx, TxMutexes, HoldsTxMu,
     HoldsMu
<1>10. ASSUME NEW t \in Threads, PersistPrimary(t) PROVE States'
  BY <1>10 DEF PersistPrimary, At, Goto, locks, Fault, NoFault, Types,
     LockTypes, ThreadSet, HandleSet, States, Opening, InTx, TxMutexes,
     HoldsTxMu, HoldsMu
<1>11. ASSUME NEW t \in Threads, PersistBackup(t) PROVE States'
  BY <1>11 DEF PersistBackup, At, Goto, locks, Fault, NoFault, Types,
     LockTypes, ThreadSet, HandleSet, States, Opening, InTx, TxMutexes,
     HoldsTxMu, HoldsMu
<1>12. ASSUME NEW t \in Threads, PersistUnlockFile(t) PROVE States'
  BY <1>12 DEF PersistUnlockFile, At, Goto, ReleaseFile, Mine, file, counters,
     Types, LockTypes, ThreadSet, HandleSet, States, Opening, InTx, TxMutexes,
     HoldsTxMu, HoldsMu
<1>13. ASSUME NEW t \in Threads, PersistUnlock(t) PROVE States'
  BY <1>13 DEF PersistUnlock, At, Return, Idle, NoHeader, Header,
     ReleaseProcess, ProcessLockOf, Mine, Build, file, counters, Types,
     LockTypes, ThreadSet, HandleSet, States, Opening, InTx, TxMutexes,
     HoldsTxMu, HoldsMu
<1>14. ASSUME NEW t \in Threads, CallBegin(t) PROVE States'
  BY <1>14 DEF CallBegin, At, Mine, file, locks, Types, LockTypes, ThreadSet,
     HandleSet, States, Opening, InTx, TxMutexes, HoldsTxMu, HoldsMu
<1>15. ASSUME NEW t \in Threads, LockTxMu(t) PROVE States'
  BY <1>15 DEF LockTxMu, At, Goto, Mine, file, counters, Types, LockTypes,
     ThreadSet, HandleSet, States, Opening, InTx, TxMutexes, HoldsTxMu,
     HoldsMu
<1>16. ASSUME NEW t \in Threads, LockMu(t) PROVE States'
  BY <1>16 DEF LockMu, At, Goto, Mine, file, counters, Types, LockTypes,
     ThreadSet, HandleSet, States, Opening, InTx, TxMutexes, HoldsTxMu,
     HoldsMu
<1>17. ASSUME NEW t \in Threads, BeginClosed(t) PROVE States'
  BY <1>17 DEF BeginClosed, At, Return, Idle, NoHeader, Header, Mine,
     ReleaseMutexes, file, counters, Types, LockTypes, ThreadSet, HandleSet,
     States, Opening, InTx, TxMutexes, HoldsTxMu, HoldsMu
<1>18. ASSUME NEW t \in Threads, BeginLockProcess(t) PROVE States'
  BY <1>18 DEF BeginLockProcess, At, Goto, AcquireProcess, ProcessLockOf,
     Mine, file, counters, Types, LockTypes, ThreadSet, HandleSet, States,
     Opening, InTx, TxMutexes, HoldsTxMu, HoldsMu
<1>19. ASSUME NEW t \in Threads, BeginLockFile(t) PROVE States'
  BY <1>19 DEF BeginLockFile, At, Goto, AcquireFile, Mine, file, counters,
     Types, LockTypes, ThreadSet, HandleSet, States, Opening, InTx, TxMutexes,
     HoldsTxMu, HoldsMu
<1>20. ASSUME NEW t \in Threads, BeginFailsLock(t) PROVE States'
  BY <1>20 DEF BeginFailsLock, At, Return, Idle, NoHeader, Header,
     BeginUnlocks, ReleaseProcess, ProcessLockOf, Mine, ReleaseMutexes, file,
     Fault, Types, LockTypes, ThreadSet, HandleSet, States, Opening, InTx,
     TxMutexes, HoldsTxMu, HoldsMu
<1>21. ASSUME NEW t \in Threads, Copy(t) PROVE States'
  BY <1>21 DEF Copy, At, Mine, file, counters, Types, LockTypes, ThreadSet,
     HandleSet, States, Opening, InTx, TxMutexes, HoldsTxMu, HoldsMu
<1>22. ASSUME NEW t \in Threads, BeginFailsCopy(t) PROVE States'
  BY <1>22 DEF BeginFailsCopy, At, Return, Idle, NoHeader, Header,
     ReleaseFile, Mine, BeginUnlocks, ReleaseProcess, ProcessLockOf,
     ReleaseMutexes, file, Fault, Types, LockTypes, ThreadSet, HandleSet,
     States, Opening, InTx, TxMutexes, HoldsTxMu, HoldsMu
<1>23. ASSUME NEW t \in Threads, Put(t) PROVE States'
  BY <1>23 DEF Put, At, locks, counters, WriteAt, Chunk, Types, LockTypes,
     ThreadSet, HandleSet, States, Opening, InTx, TxMutexes, HoldsTxMu,
     HoldsMu
<1>24. ASSUME NEW t \in Threads, CallCommit(t) PROVE States'
  BY <1>24 DEF CallCommit, At, Goto, file, locks, counters, Types, LockTypes,
     ThreadSet, HandleSet, States, Opening, InTx, TxMutexes, HoldsTxMu,
     HoldsMu
<1>25. ASSUME NEW t \in Threads, Rollback(t) PROVE States'
  BY <1>25 DEF Rollback, At, Goto, file, locks, counters, Types, LockTypes,
     ThreadSet, HandleSet, States, Opening, InTx, TxMutexes, HoldsTxMu,
     HoldsMu
<1>26. ASSUME NEW t \in Threads, CommitDir(t) PROVE States'
  BY <1>26 DEF CommitDir, At, Mine, locks, counters, WriteAt, Dir, Header,
     Types, LockTypes, ThreadSet, HandleSet, States, Opening, InTx, TxMutexes,
     HoldsTxMu, HoldsMu
<1>27. ASSUME NEW t \in Threads, CommitBackup(t) PROVE States'
  BY <1>27 DEF CommitBackup, At, Goto, locks, counters, Types, LockTypes,
     ThreadSet, HandleSet, States, Opening, InTx, TxMutexes, HoldsTxMu,
     HoldsMu
<1>28. ASSUME NEW t \in Threads, CommitPrimary(t) PROVE States'
  BY <1>28 DEF CommitPrimary, At, Goto, locks, counters, Types, LockTypes,
     ThreadSet, HandleSet, States, Opening, InTx, TxMutexes, HoldsTxMu,
     HoldsMu
<1>29. ASSUME NEW t \in Threads, Publish(t) PROVE States'
  BY <1>29 DEF Publish, At, Goto, Mine, file, locks, counters, Types,
     LockTypes, ThreadSet, HandleSet, States, Opening, InTx, TxMutexes,
     HoldsTxMu, HoldsMu
<1>30. ASSUME NEW t \in Threads, CommitFails(t) PROVE States'
  BY <1>30 DEF CommitFails, Goto, file, locks, Fault, Types, LockTypes,
     ThreadSet, HandleSet, States, Opening, InTx, TxMutexes, HoldsTxMu,
     HoldsMu
<1>31. ASSUME NEW t \in Threads, UnlockFile(t) PROVE States'
  BY <1>31 DEF UnlockFile, At, Goto, ReleaseFile, Mine, file, counters, Types,
     LockTypes, ThreadSet, HandleSet, States, Opening, InTx, TxMutexes,
     HoldsTxMu, HoldsMu
<1>32. ASSUME NEW t \in Threads, UnlockProcess(t) PROVE States'
  BY <1>32 DEF UnlockProcess, At, Goto, ReleaseProcess, ProcessLockOf, Mine,
     file, counters, Types, LockTypes, ThreadSet, HandleSet, States, Opening,
     InTx, TxMutexes, HoldsTxMu, HoldsMu
<1>33. ASSUME NEW t \in Threads, UnlockTxMu(t) PROVE States'
  BY <1>33 DEF UnlockTxMu, At, Return, Idle, NoHeader, Header, Mine, file,
     counters, Types, LockTypes, ThreadSet, HandleSet, States, Opening, InTx,
     TxMutexes, HoldsTxMu, HoldsMu
<1>34. ASSUME NEW t \in Threads, CallRead(t) PROVE States'
  BY <1>34 DEF CallRead, At, Goto, Mine, file, locks, counters, Types,
     LockTypes, ThreadSet, HandleSet, States, Opening, InTx, TxMutexes,
     HoldsTxMu, HoldsMu
<1>35. ASSUME NEW t \in Threads, LockForRead(t) PROVE States'
  BY <1>35 DEF LockForRead, At, Mine, file, locks, counters, Types, LockTypes,
     ThreadSet, HandleSet, States, Opening, InTx, TxMutexes, HoldsTxMu,
     HoldsMu
<1>36. ASSUME NEW t \in Threads, ReadClosed(t) PROVE States'
  BY <1>36 DEF ReadClosed, At, Return, Idle, NoHeader, Header, Mine, file,
     locks, counters, Types, LockTypes, ThreadSet, HandleSet, States, Opening,
     InTx, TxMutexes, HoldsTxMu, HoldsMu
<1>37. ASSUME NEW t \in Threads, FinishRead(t) PROVE States'
  BY <1>37 DEF FinishRead, At, Return, Idle, NoHeader, Header, file, locks,
     counters, Types, LockTypes, ThreadSet, HandleSet, States, Opening, InTx,
     TxMutexes, HoldsTxMu, HoldsMu
<1>38. ASSUME NEW t \in Threads, Close(t) PROVE States'
  BY <1>38, SharedAssumption, NobodyAssumption DEF Close, At, Mine, file,
     locks, counters, NoHeader, Header, Types, LockTypes, ThreadSet,
     HandleSet, States, Opening, InTx, TxMutexes, HoldsTxMu, HoldsMu
<1>39. ASSUME NEW p \in Processes, Crash(p) PROVE States'
  BY <1>39, SharedAssumption, NobodyAssumption DEF Crash, Mine, file, Idle,
     NoHeader, Header, Types, LockTypes, ThreadSet, HandleSet, States,
     Opening, InTx, TxMutexes, HoldsTxMu, HoldsMu
<1>40. CASE UNCHANGED vars
  BY <1>40 DEF vars, file, locks, counters, Types, LockTypes, ThreadSet,
     HandleSet, States, Opening, InTx, TxMutexes, HoldsTxMu, HoldsMu
<1> QED
  BY <1>1, <1>2, <1>3, <1>4, <1>5, <1>6, <1>7, <1>8, <1>9, <1>10, <1>11,
     <1>12, <1>13, <1>14, <1>15, <1>16, <1>17, <1>18, <1>19, <1>20, <1>21,
     <1>22, <1>23, <1>24, <1>25, <1>26, <1>27, <1>28, <1>29, <1>30, <1>31,
     <1>32, <1>33, <1>34, <1>35, <1>36, <1>37, <1>38, <1>39, <1>40
    DEF Next, Call, Step, Wait, OpenStep, CommitStep, Release

----------------------------------------------------------------------------
(* The file.                                                               *)

\* At most one goroutine is between taking the locks of the file and giving
\* them back: two Containers cannot both hold the flock, and two goroutines of
\* one process cannot both hold its lock.
LEMMA OneHolder ==
    ASSUME Excluded, ProcessLocks, FileLock, NEW t \in Threads, NEW u \in Threads,
           thr[t].pc \in HoldsFile, thr[u].pc \in HoldsFile
    PROVE  t = u
<1>1. ProcessLockOf(t) = ProcessLockOf(u)
  <2>1. CASE Flock
    BY <2>1 DEF FileLock, ProcessLockOf
  <2>2. CASE \A g, h \in Handles : ProcessOf[g] = ProcessOf[h]
    BY <2>2, SharedAssumption DEF ProcessLockOf, Mine
  <2> QED
    BY <2>1, <2>2 DEF Excluded
<1>2. thr[t].pc \in HoldsProcess /\ thr[u].pc \in HoldsProcess
  BY DEF HoldsProcess
<1> QED
  BY <1>1, <1>2 DEF ProcessLocks

\* What is intact in the file stays so when the file grows.
LEMMA Growth ==
    ASSUME NEW l \in Seq(BlobSet), NEW b \in BlobSet
    PROVE  /\ \A refs : IntactIn(l, refs) => IntactIn(Append(l, b), refs)
           /\ \A h : GoodIn(l, h) => GoodIn(Append(l, b), h)
<1>1. /\ Len(l) \in Nat
      /\ Len(Append(l, b)) = Len(l) + 1
      /\ \A i \in 1 .. Len(l) : Append(l, b)[i] = l[i]
  OBVIOUS
<1>2. \A refs : IntactIn(l, refs) => IntactIn(Append(l, b), refs)
  BY <1>1 DEF IntactIn
<1> QED
  BY <1>1, <1>2 DEF GoodIn

\* A transaction writes what its references and its header then name.
LEMMA Written ==
    ASSUME NEW l \in Seq(BlobSet), NEW refs, IntactIn(l, refs)
    PROVE  /\ \A id \in Nat :
                IntactIn(Append(l, Chunk(id)), refs \cup {[id |-> id, at |-> Len(l) + 1]})
           /\ refs \in SUBSET RefSet => \A g \in Nat :
                GoodIn(Append(l, Dir(refs)), Header(g, Len(l) + 1, refs))
<1>1. ASSUME NEW id \in Nat
      PROVE  IntactIn(Append(l, Chunk(id)), refs \cup {[id |-> id, at |-> Len(l) + 1]})
  <2>1. Chunk(id) \in BlobSet
    BY <1>1, BlobTypes
  <2>2. IntactIn(Append(l, Chunk(id)), refs)
    BY <2>1, Growth
  <2>3. /\ Len(l) + 1 \in 1 .. Len(Append(l, Chunk(id)))
        /\ Append(l, Chunk(id))[Len(l) + 1] = Chunk(id)
    BY <2>1
  <2> QED
    BY <2>2, <2>3 DEF IntactIn
<1>2. ASSUME refs \in SUBSET RefSet, NEW g \in Nat
      PROVE  GoodIn(Append(l, Dir(refs)), Header(g, Len(l) + 1, refs))
  <2>1. Dir(refs) \in BlobSet
    BY <1>2, BlobTypes
  <2>2. IntactIn(Append(l, Dir(refs)), refs)
    BY <2>1, Growth
  <2>3. /\ Len(l) + 1 \in 1 .. Len(Append(l, Dir(refs)))
        /\ Append(l, Dir(refs))[Len(l) + 1] = Dir(refs)
    BY <2>1
  <2> QED
    BY <2>2, <2>3 DEF GoodIn, Header
<1> QED
  BY <1>1, <1>2

\* Nothing loads from no header, and a header that loads is good or none.
LEMMA GoodFacts ==
    ASSUME log \in Seq(BlobSet)
    PROVE  /\ ~Loads(NoHeader)
           /\ IntactIn(log, {})
           /\ \A h : GoodIn(log, h) => Loads(h) /\ IntactIn(log, h.refs)
BY DEF Loads, NoHeader, Header, IntactIn, GoodIn

\* Every step keeps AppendsAtEnd: only one goroutine at a time appends.
LEMMA AppendsAtEndStep ==
    ASSUME Types, Excluded, ProcessLocks, FileLock, AppendsAtEnd, [Next]_vars
    PROVE  AppendsAtEnd'
<1>1. ASSUME NEW t \in Threads, StartOpen(t) PROVE AppendsAtEnd'
  BY <1>1 DEF StartOpen, At, Goto, Mine, file, locks, counters, Types,
     ThreadSet, AppendsAtEnd
<1>2. ASSUME NEW t \in Threads, ReadPrimary(t) PROVE AppendsAtEnd'
  BY <1>2 DEF ReadPrimary, At, file, locks, counters, Types, ThreadSet,
     AppendsAtEnd
<1>3. ASSUME NEW t \in Threads, LoadPrimary(t) PROVE AppendsAtEnd'
  BY <1>3 DEF LoadPrimary, At, Return, Idle, NoHeader, Header, Build, Mine,
     file, locks, counters, Types, ThreadSet, AppendsAtEnd
<1>4. ASSUME NEW t \in Threads, TryBackup(t) PROVE AppendsAtEnd'
  BY <1>4 DEF TryBackup, At, Goto, file, locks, counters, Types, ThreadSet,
     AppendsAtEnd
<1>5. ASSUME NEW t \in Threads, ReadBackup(t) PROVE AppendsAtEnd'
  BY <1>5 DEF ReadBackup, At, file, locks, counters, Types, ThreadSet,
     AppendsAtEnd
<1>6. ASSUME NEW t \in Threads, LoadBackup(t) PROVE AppendsAtEnd'
  BY <1>6 DEF LoadBackup, At, Goto, file, locks, counters, Types, ThreadSet,
     AppendsAtEnd
<1>7. ASSUME NEW t \in Threads, PersistLockProcess(t) PROVE AppendsAtEnd'
  BY <1>7 DEF PersistLockProcess, At, Goto, AcquireProcess, ProcessLockOf,
     Mine, file, counters, Types, ThreadSet, AppendsAtEnd
<1>8. ASSUME NEW t \in Threads, PersistLockFile(t) PROVE AppendsAtEnd'
  BY <1>8 DEF PersistLockFile, At, Goto, AcquireFile, Mine, file, counters,
     Types, ThreadSet, AppendsAtEnd
<1>9. ASSUME NEW t \in Threads, PersistSkip(t) PROVE AppendsAtEnd'
  BY <1>9 DEF PersistSkip, At, Goto, file, locks, Fault, Types, ThreadSet,
     AppendsAtEnd
<1>10. ASSUME NEW t \in Threads, PersistPrimary(t) PROVE AppendsAtEnd'
  BY <1>10 DEF PersistPrimary, At, Goto, locks, Fault, NoFault, Types,
     ThreadSet, AppendsAtEnd
<1>11. ASSUME NEW t \in Threads, PersistBackup(t) PROVE AppendsAtEnd'
  BY <1>11 DEF PersistBackup, At, Goto, locks, Fault, NoFault, Types,
     ThreadSet, AppendsAtEnd
<1>12. ASSUME NEW t \in Threads, PersistUnlockFile(t) PROVE AppendsAtEnd'
  BY <1>12 DEF PersistUnlockFile, At, Goto, ReleaseFile, Mine, file, counters,
     Types, ThreadSet, AppendsAtEnd
<1>13. ASSUME NEW t \in Threads, PersistUnlock(t) PROVE AppendsAtEnd'
  BY <1>13 DEF PersistUnlock, At, Return, Idle, NoHeader, Header,
     ReleaseProcess, ProcessLockOf, Mine, Build, file, counters, Types,
     ThreadSet, AppendsAtEnd
<1>14. ASSUME NEW t \in Threads, CallBegin(t) PROVE AppendsAtEnd'
  BY <1>14 DEF CallBegin, At, Mine, file, locks, Types, ThreadSet,
     AppendsAtEnd
<1>15. ASSUME NEW t \in Threads, LockTxMu(t) PROVE AppendsAtEnd'
  BY <1>15 DEF LockTxMu, At, Goto, Mine, file, counters, Types, ThreadSet,
     AppendsAtEnd
<1>16. ASSUME NEW t \in Threads, LockMu(t) PROVE AppendsAtEnd'
  BY <1>16 DEF LockMu, At, Goto, Mine, file, counters, Types, ThreadSet,
     AppendsAtEnd
<1>17. ASSUME NEW t \in Threads, BeginClosed(t) PROVE AppendsAtEnd'
  BY <1>17 DEF BeginClosed, At, Return, Idle, NoHeader, Header, Mine,
     ReleaseMutexes, file, counters, Types, ThreadSet, AppendsAtEnd
<1>18. ASSUME NEW t \in Threads, BeginLockProcess(t) PROVE AppendsAtEnd'
  BY <1>18 DEF BeginLockProcess, At, Goto, AcquireProcess, ProcessLockOf,
     Mine, file, counters, Types, ThreadSet, AppendsAtEnd
<1>19. ASSUME NEW t \in Threads, BeginLockFile(t) PROVE AppendsAtEnd'
  BY <1>19 DEF BeginLockFile, At, Goto, AcquireFile, Mine, file, counters,
     Types, ThreadSet, AppendsAtEnd
<1>20. ASSUME NEW t \in Threads, BeginFailsLock(t) PROVE AppendsAtEnd'
  BY <1>20 DEF BeginFailsLock, At, Return, Idle, NoHeader, Header,
     BeginUnlocks, ReleaseProcess, ProcessLockOf, Mine, ReleaseMutexes, file,
     Fault, Types, ThreadSet, AppendsAtEnd
<1>21. ASSUME NEW t \in Threads, Copy(t) PROVE AppendsAtEnd'
  BY <1>21 DEF Copy, At, Mine, file, counters, Types, ThreadSet, AppendsAtEnd
<1>22. ASSUME NEW t \in Threads, BeginFailsCopy(t) PROVE AppendsAtEnd'
  BY <1>22 DEF BeginFailsCopy, At, Return, Idle, NoHeader, Header,
     ReleaseFile, Mine, BeginUnlocks, ReleaseProcess, ProcessLockOf,
     ReleaseMutexes, file, Fault, Types, ThreadSet, AppendsAtEnd
<1>23. ASSUME NEW t \in Threads, Put(t) PROVE AppendsAtEnd'
  <2>1. WriteAt(thr[t].off, Chunk(thr[t].id)) /\ thr[t].pc = "tx"
    BY <1>23 DEF Put, At
  <2>2. thr[t] \in ThreadSet
    BY DEF Types
  <2>3. Chunk(thr[t].id) \in BlobSet
    BY <2>2, FieldTypes, BlobTypes
  <2>4. log' = Append(log, Chunk(thr[t].id)) /\ Len(log) \in Nat
    BY <2>1, <2>3, WriteAppends DEF Types, FileTypes
  <2>5. Len(log') = Len(log) + 1
    BY <2>3, <2>4 DEF Types, FileTypes
  <2>6. \A u \in Threads \ {t} : thr[u].pc \notin {"tx", "commit"} /\ thr'[u] = thr[u]
    BY <1>23, <2>1, OneHolder DEF Put, HoldsFile, Types
  <2>7. thr'[t].off = Len(log) + 2
    BY <1>23, <2>1, <2>4 DEF Put, Types, ThreadSet, AppendsAtEnd
  <2> QED
    BY <2>4, <2>5, <2>6, <2>7 DEF AppendsAtEnd
<1>24. ASSUME NEW t \in Threads, CallCommit(t) PROVE AppendsAtEnd'
  BY <1>24 DEF CallCommit, At, Goto, file, locks, counters, Types, ThreadSet,
     AppendsAtEnd
<1>25. ASSUME NEW t \in Threads, Rollback(t) PROVE AppendsAtEnd'
  BY <1>25 DEF Rollback, At, Goto, file, locks, counters, Types, ThreadSet,
     AppendsAtEnd
<1>26. ASSUME NEW t \in Threads, CommitDir(t) PROVE AppendsAtEnd'
  <2>1. WriteAt(thr[t].off, Dir(thr[t].refs)) /\ thr[t].pc = "commit"
    BY <1>26 DEF CommitDir, At
  <2>2. thr[t] \in ThreadSet
    BY DEF Types
  <2>3. Dir(thr[t].refs) \in BlobSet
    BY <2>2, FieldTypes, BlobTypes
  <2>4. log' = Append(log, Dir(thr[t].refs)) /\ Len(log) \in Nat
    BY <2>1, <2>3, WriteAppends DEF Types, FileTypes
  <2>5. \A u \in Threads \ {t} : thr[u].pc \notin {"tx", "commit"} /\ thr'[u] = thr[u]
    BY <1>26, <2>1, OneHolder DEF CommitDir, HoldsFile, Types
  <2>6. thr'[t].pc = "writeBackup"
    BY <1>26 DEF CommitDir, Types, ThreadSet
  <2> QED
    BY <2>5, <2>6 DEF AppendsAtEnd
<1>27. ASSUME NEW t \in Threads, CommitBackup(t) PROVE AppendsAtEnd'
  BY <1>27 DEF CommitBackup, At, Goto, locks, counters, Types, ThreadSet,
     AppendsAtEnd
<1>28. ASSUME NEW t \in Threads, CommitPrimary(t) PROVE AppendsAtEnd'
  BY <1>28 DEF CommitPrimary, At, Goto, locks, counters, Types, ThreadSet,
     AppendsAtEnd
<1>29. ASSUME NEW t \in Threads, Publish(t) PROVE AppendsAtEnd'
  BY <1>29 DEF Publish, At, Goto, Mine, file, locks, counters, Types,
     ThreadSet, AppendsAtEnd
<1>30. ASSUME NEW t \in Threads, CommitFails(t) PROVE AppendsAtEnd'
  BY <1>30 DEF CommitFails, Goto, file, locks, Fault, Types, ThreadSet,
     AppendsAtEnd
<1>31. ASSUME NEW t \in Threads, UnlockFile(t) PROVE AppendsAtEnd'
  BY <1>31 DEF UnlockFile, At, Goto, ReleaseFile, Mine, file, counters, Types,
     ThreadSet, AppendsAtEnd
<1>32. ASSUME NEW t \in Threads, UnlockProcess(t) PROVE AppendsAtEnd'
  BY <1>32 DEF UnlockProcess, At, Goto, ReleaseProcess, ProcessLockOf, Mine,
     file, counters, Types, ThreadSet, AppendsAtEnd
<1>33. ASSUME NEW t \in Threads, UnlockTxMu(t) PROVE AppendsAtEnd'
  BY <1>33 DEF UnlockTxMu, At, Return, Idle, NoHeader, Header, Mine, file,
     counters, Types, ThreadSet, AppendsAtEnd
<1>34. ASSUME NEW t \in Threads, CallRead(t) PROVE AppendsAtEnd'
  BY <1>34 DEF CallRead, At, Goto, Mine, file, locks, counters, Types,
     ThreadSet, AppendsAtEnd
<1>35. ASSUME NEW t \in Threads, LockForRead(t) PROVE AppendsAtEnd'
  BY <1>35 DEF LockForRead, At, Mine, file, locks, counters, Types, ThreadSet,
     AppendsAtEnd
<1>36. ASSUME NEW t \in Threads, ReadClosed(t) PROVE AppendsAtEnd'
  BY <1>36 DEF ReadClosed, At, Return, Idle, NoHeader, Header, Mine, file,
     locks, counters, Types, ThreadSet, AppendsAtEnd
<1>37. ASSUME NEW t \in Threads, FinishRead(t) PROVE AppendsAtEnd'
  BY <1>37 DEF FinishRead, At, Return, Idle, NoHeader, Header, file, locks,
     counters, Types, ThreadSet, AppendsAtEnd
<1>38. ASSUME NEW t \in Threads, Close(t) PROVE AppendsAtEnd'
  BY <1>38 DEF Close, At, Mine, file, locks, counters, NoHeader, Header,
     Types, ThreadSet, AppendsAtEnd
<1>39. ASSUME NEW p \in Processes, Crash(p) PROVE AppendsAtEnd'
  BY <1>39 DEF Crash, Mine, file, Idle, NoHeader, Header, Types, ThreadSet,
     AppendsAtEnd
<1>40. CASE UNCHANGED vars
  BY <1>40 DEF vars, file, locks, counters, Types, ThreadSet, AppendsAtEnd
<1> QED
  BY <1>1, <1>2, <1>3, <1>4, <1>5, <1>6, <1>7, <1>8, <1>9, <1>10, <1>11,
     <1>12, <1>13, <1>14, <1>15, <1>16, <1>17, <1>18, <1>19, <1>20, <1>21,
     <1>22, <1>23, <1>24, <1>25, <1>26, <1>27, <1>28, <1>29, <1>30, <1>31,
     <1>32, <1>33, <1>34, <1>35, <1>36, <1>37, <1>38, <1>39, <1>40
    DEF Next, Call, Step, Wait, OpenStep, CommitStep, Release

\* Every step keeps Content.
LEMMA ContentStep ==
    ASSUME Types, AppendsAtEnd, States, Content, [Next]_vars
    PROVE  Content'
<1>1. ASSUME NEW t \in Threads, StartOpen(t) PROVE Content'
  BY <1>1, GoodFacts DEF StartOpen, At, Goto, Mine, file, locks, counters,
     Types, FileTypes, ThreadSet, HandleSet, Content, HasHeader
<1>2. ASSUME NEW t \in Threads, ReadPrimary(t) PROVE Content'
  BY <1>2, GoodFacts DEF ReadPrimary, At, file, locks, counters, Types,
     FileTypes, ThreadSet, HandleSet, Content, HasHeader
<1>3. ASSUME NEW t \in Threads, LoadPrimary(t) PROVE Content'
  BY <1>3, GoodFacts DEF LoadPrimary, At, Return, Idle, NoHeader, Header,
     Build, Mine, file, locks, counters, Types, FileTypes, ThreadSet,
     HandleSet, Content, HasHeader
<1>4. ASSUME NEW t \in Threads, TryBackup(t) PROVE Content'
  BY <1>4, GoodFacts DEF TryBackup, At, Goto, file, locks, counters, Types,
     FileTypes, ThreadSet, HandleSet, Content, HasHeader
<1>5. ASSUME NEW t \in Threads, ReadBackup(t) PROVE Content'
  BY <1>5, GoodFacts DEF ReadBackup, At, file, locks, counters, Types,
     FileTypes, ThreadSet, HandleSet, Content, HasHeader
<1>6. ASSUME NEW t \in Threads, LoadBackup(t) PROVE Content'
  BY <1>6, GoodFacts DEF LoadBackup, At, Goto, file, locks, counters, Types,
     FileTypes, ThreadSet, HandleSet, Content, HasHeader
<1>7. ASSUME NEW t \in Threads, PersistLockProcess(t) PROVE Content'
  BY <1>7, GoodFacts DEF PersistLockProcess, At, Goto, AcquireProcess,
     ProcessLockOf, Mine, file, counters, Types, FileTypes, ThreadSet,
     HandleSet, Content, HasHeader
<1>8. ASSUME NEW t \in Threads, PersistLockFile(t) PROVE Content'
  BY <1>8, GoodFacts DEF PersistLockFile, At, Goto, AcquireFile, Mine, file,
     counters, Types, FileTypes, ThreadSet, HandleSet, Content, HasHeader
<1>9. ASSUME NEW t \in Threads, PersistSkip(t) PROVE Content'
  BY <1>9, GoodFacts DEF PersistSkip, At, Goto, file, locks, Fault, Types,
     FileTypes, ThreadSet, HandleSet, Content, HasHeader
<1>10. ASSUME NEW t \in Threads, PersistPrimary(t) PROVE Content'
  BY <1>10, GoodFacts DEF PersistPrimary, At, Goto, locks, Fault, NoFault,
     Types, FileTypes, ThreadSet, HandleSet, Content, HasHeader
<1>11. ASSUME NEW t \in Threads, PersistBackup(t) PROVE Content'
  BY <1>11, GoodFacts DEF PersistBackup, At, Goto, locks, Fault, NoFault,
     Types, FileTypes, ThreadSet, HandleSet, Content, HasHeader
<1>12. ASSUME NEW t \in Threads, PersistUnlockFile(t) PROVE Content'
  BY <1>12, GoodFacts DEF PersistUnlockFile, At, Goto, ReleaseFile, Mine,
     file, counters, Types, FileTypes, ThreadSet, HandleSet, Content,
     HasHeader
<1>13. ASSUME NEW t \in Threads, PersistUnlock(t) PROVE Content'
  BY <1>13, GoodFacts DEF PersistUnlock, At, Return, Idle, NoHeader, Header,
     ReleaseProcess, ProcessLockOf, Mine, Build, file, counters, Types,
     FileTypes, ThreadSet, HandleSet, Content, HasHeader
<1>14. ASSUME NEW t \in Threads, CallBegin(t) PROVE Content'
  BY <1>14, GoodFacts DEF CallBegin, At, Mine, file, locks, Types, FileTypes,
     ThreadSet, HandleSet, Content, HasHeader
<1>15. ASSUME NEW t \in Threads, LockTxMu(t) PROVE Content'
  BY <1>15, GoodFacts DEF LockTxMu, At, Goto, Mine, file, counters, Types,
     FileTypes, ThreadSet, HandleSet, Content, HasHeader
<1>16. ASSUME NEW t \in Threads, LockMu(t) PROVE Content'
  BY <1>16, GoodFacts DEF LockMu, At, Goto, Mine, file, counters, Types,
     FileTypes, ThreadSet, HandleSet, Content, HasHeader
<1>17. ASSUME NEW t \in Threads, BeginClosed(t) PROVE Content'
  BY <1>17, GoodFacts DEF BeginClosed, At, Return, Idle, NoHeader, Header,
     Mine, ReleaseMutexes, file, counters, Types, FileTypes, ThreadSet,
     HandleSet, Content, HasHeader
<1>18. ASSUME NEW t \in Threads, BeginLockProcess(t) PROVE Content'
  BY <1>18, GoodFacts DEF BeginLockProcess, At, Goto, AcquireProcess,
     ProcessLockOf, Mine, file, counters, Types, FileTypes, ThreadSet,
     HandleSet, Content, HasHeader
<1>19. ASSUME NEW t \in Threads, BeginLockFile(t) PROVE Content'
  BY <1>19, GoodFacts DEF BeginLockFile, At, Goto, AcquireFile, Mine, file,
     counters, Types, FileTypes, ThreadSet, HandleSet, Content, HasHeader
<1>20. ASSUME NEW t \in Threads, BeginFailsLock(t) PROVE Content'
  BY <1>20, GoodFacts DEF BeginFailsLock, At, Return, Idle, NoHeader, Header,
     BeginUnlocks, ReleaseProcess, ProcessLockOf, Mine, ReleaseMutexes, file,
     Fault, Types, FileTypes, ThreadSet, HandleSet, Content, HasHeader
<1>21. ASSUME NEW t \in Threads, Copy(t) PROVE Content'
  BY <1>21, GoodFacts DEF Copy, At, Mine, file, counters, Types, FileTypes,
     ThreadSet, HandleSet, Content, HasHeader
<1>22. ASSUME NEW t \in Threads, BeginFailsCopy(t) PROVE Content'
  BY <1>22, GoodFacts DEF BeginFailsCopy, At, Return, Idle, NoHeader, Header,
     ReleaseFile, Mine, BeginUnlocks, ReleaseProcess, ProcessLockOf,
     ReleaseMutexes, file, Fault, Types, FileTypes, ThreadSet, HandleSet,
     Content, HasHeader
<1>23. ASSUME NEW t \in Threads, Put(t) PROVE Content'
  <2>1. WriteAt(thr[t].off, Chunk(thr[t].id)) /\ thr[t].pc = "tx"
    BY <1>23 DEF Put, At
  <2>2. thr[t] \in ThreadSet
    BY DEF Types
  <2>3. Chunk(thr[t].id) \in BlobSet
    BY <2>2, FieldTypes, BlobTypes
  <2>4. log' = Append(log, Chunk(thr[t].id)) /\ Len(log) \in Nat
    BY <2>1, <2>3, WriteAppends DEF Types, FileTypes
  <2>g. /\ \A refs : IntactIn(log, refs) => IntactIn(log', refs)
        /\ \A h : GoodIn(log, h) => GoodIn(log', h)
    BY <2>3, <2>4, Growth DEF Types, FileTypes
  <2>5. thr[t].off = Len(log) + 1 /\ thr[t].id \in Nat /\ IntactIn(log, thr[t].refs)
    BY <2>1, <2>2, FieldTypes DEF AppendsAtEnd, Content
  <2>6. IntactIn(log', thr[t].refs \cup {[id |-> thr[t].id, at |-> thr[t].off]})
    BY <2>4, <2>5, Written DEF Types, FileTypes
  <2>7. /\ \A u \in Threads : thr'[u].pc = thr[u].pc /\ thr'[u].hdr = thr[u].hdr
        /\ \A u \in Threads : thr'[u].refs =
              IF u = t THEN thr[t].refs \cup {[id |-> thr[t].id, at |-> thr[t].off]}
                       ELSE thr[u].refs
        /\ UNCHANGED <<primary, backup, handle>>
    BY <1>23 DEF Put, Types, ThreadSet
  <2> QED
    BY <2>g, <2>6, <2>7 DEF Content
<1>24. ASSUME NEW t \in Threads, CallCommit(t) PROVE Content'
  BY <1>24, GoodFacts DEF CallCommit, At, Goto, file, locks, counters, Types,
     FileTypes, ThreadSet, HandleSet, Content, HasHeader
<1>25. ASSUME NEW t \in Threads, Rollback(t) PROVE Content'
  BY <1>25, GoodFacts DEF Rollback, At, Goto, file, locks, counters, Types,
     FileTypes, ThreadSet, HandleSet, Content, HasHeader
<1>26. ASSUME NEW t \in Threads, CommitDir(t) PROVE Content'
  <2>1. WriteAt(thr[t].off, Dir(thr[t].refs)) /\ thr[t].pc = "commit"
    BY <1>26 DEF CommitDir, At
  <2>2. thr[t] \in ThreadSet
    BY DEF Types
  <2>3. Dir(thr[t].refs) \in BlobSet
    BY <2>2, FieldTypes, BlobTypes
  <2>4. log' = Append(log, Dir(thr[t].refs)) /\ Len(log) \in Nat
    BY <2>1, <2>3, WriteAppends DEF Types, FileTypes
  <2>g. /\ \A refs : IntactIn(log, refs) => IntactIn(log', refs)
        /\ \A h : GoodIn(log, h) => GoodIn(log', h)
    BY <2>3, <2>4, Growth DEF Types, FileTypes
  <2>5. /\ thr[t].off = Len(log) + 1 /\ IntactIn(log, thr[t].refs)
        /\ thr[t].refs \in SUBSET RefSet
        /\ handle[Mine(t)].hdr.gen + 1 \in Nat
    BY <2>1, <2>2, SharedAssumption, FieldTypes DEF AppendsAtEnd, Content, Mine, Types
  <2> DEFINE new == Header(handle[Mine(t)].hdr.gen + 1, thr[t].off, thr[t].refs)
  <2>6. GoodIn(log', new)
    BY <2>4, <2>5, Written DEF Types, FileTypes
  <2>7. /\ \A u \in Threads : thr'[u].hdr = IF u = t THEN new ELSE thr[u].hdr
        /\ \A u \in Threads : thr'[u].refs = thr[u].refs
        /\ \A u \in Threads \ {t} : thr'[u].pc = thr[u].pc
        /\ UNCHANGED <<primary, backup, handle>>
    BY <1>26 DEF CommitDir, Types, ThreadSet
  <2> QED
    BY <2>g, <2>6, <2>7 DEF Content
<1>27. ASSUME NEW t \in Threads, CommitBackup(t) PROVE Content'
  BY <1>27, GoodFacts DEF CommitBackup, At, Goto, locks, counters, Types,
     FileTypes, ThreadSet, HandleSet, Content, HasHeader
<1>28. ASSUME NEW t \in Threads, CommitPrimary(t) PROVE Content'
  BY <1>28, GoodFacts DEF CommitPrimary, At, Goto, locks, counters, Types,
     FileTypes, ThreadSet, HandleSet, Content, HasHeader
<1>29. ASSUME NEW t \in Threads, Publish(t) PROVE Content'
  BY <1>29, GoodFacts DEF Publish, At, Goto, Mine, file, locks, counters,
     Types, FileTypes, ThreadSet, HandleSet, Content, HasHeader
<1>30. ASSUME NEW t \in Threads, CommitFails(t) PROVE Content'
  BY <1>30, GoodFacts DEF CommitFails, Goto, file, locks, Fault, Types,
     FileTypes, ThreadSet, HandleSet, Content, HasHeader
<1>31. ASSUME NEW t \in Threads, UnlockFile(t) PROVE Content'
  BY <1>31, GoodFacts DEF UnlockFile, At, Goto, ReleaseFile, Mine, file,
     counters, Types, FileTypes, ThreadSet, HandleSet, Content, HasHeader
<1>32. ASSUME NEW t \in Threads, UnlockProcess(t) PROVE Content'
  BY <1>32, GoodFacts DEF UnlockProcess, At, Goto, ReleaseProcess,
     ProcessLockOf, Mine, file, counters, Types, FileTypes, ThreadSet,
     HandleSet, Content, HasHeader
<1>33. ASSUME NEW t \in Threads, UnlockTxMu(t) PROVE Content'
  BY <1>33, GoodFacts DEF UnlockTxMu, At, Return, Idle, NoHeader, Header,
     Mine, file, counters, Types, FileTypes, ThreadSet, HandleSet, Content,
     HasHeader
<1>34. ASSUME NEW t \in Threads, CallRead(t) PROVE Content'
  BY <1>34, GoodFacts DEF CallRead, At, Goto, Mine, file, locks, counters,
     Types, FileTypes, ThreadSet, HandleSet, Content, HasHeader
<1>35. ASSUME NEW t \in Threads, LockForRead(t) PROVE Content'
  BY <1>35, SharedAssumption, NobodyAssumption, GoodFacts DEF LockForRead, At,
     Mine, file, locks, counters, Types, FileTypes, ThreadSet, HandleSet,
     Content, HasHeader
<1>36. ASSUME NEW t \in Threads, ReadClosed(t) PROVE Content'
  BY <1>36, GoodFacts DEF ReadClosed, At, Return, Idle, NoHeader, Header,
     Mine, file, locks, counters, Types, FileTypes, ThreadSet, HandleSet,
     Content, HasHeader
<1>37. ASSUME NEW t \in Threads, FinishRead(t) PROVE Content'
  BY <1>37, GoodFacts DEF FinishRead, At, Return, Idle, NoHeader, Header,
     file, locks, counters, Types, FileTypes, ThreadSet, HandleSet, Content,
     HasHeader
<1>38. ASSUME NEW t \in Threads, Close(t) PROVE Content'
  BY <1>38, GoodFacts DEF Close, At, Mine, file, locks, counters, NoHeader,
     Header, Types, FileTypes, ThreadSet, HandleSet, Content, HasHeader
<1>39. ASSUME NEW p \in Processes, Crash(p) PROVE Content'
  <2>1. /\ \A u \in Threads : thr'[u] = thr[u] \/ thr'[u] = Idle
        /\ \A h \in Handles : handle'[h] = handle[h] \/ handle'[h].state = "closed"
        /\ UNCHANGED file
    BY <1>39 DEF Crash, Types
  <2>2. Idle.pc \notin HasHeader /\ Idle.hdr = NoHeader /\ Idle.refs = {}
    BY DEF Idle, HasHeader
  <2> QED
    BY <2>1, <2>2, GoodFacts DEF Content, Types, FileTypes, file
<1>40. CASE UNCHANGED vars
  BY <1>40, GoodFacts DEF vars, file, locks, counters, Types, FileTypes,
     ThreadSet, HandleSet, Content, HasHeader
<1> QED
  BY <1>1, <1>2, <1>3, <1>4, <1>5, <1>6, <1>7, <1>8, <1>9, <1>10, <1>11,
     <1>12, <1>13, <1>14, <1>15, <1>16, <1>17, <1>18, <1>19, <1>20, <1>21,
     <1>22, <1>23, <1>24, <1>25, <1>26, <1>27, <1>28, <1>29, <1>30, <1>31,
     <1>32, <1>33, <1>34, <1>35, <1>36, <1>37, <1>38, <1>39, <1>40
    DEF Next, Call, Step, Wait, OpenStep, CommitStep, Release

----------------------------------------------------------------------------
(* The invariant and the theorems.                                         *)

LEMMA InitInv == Init => Inv
<1> SUFFICES ASSUME Init PROVE Inv
  OBVIOUS
<1> USE SharedAssumption, NobodyAssumption
<1>1. /\ log = <<Dir({})>> /\ log \in Seq(BlobSet)
      /\ backup = Header(1, 1, {}) /\ backup \in HeaderSet
      /\ primary \in {NoHeader, backup} /\ NoHeader \in HeaderSet
  <2>1. Dir({}) \in BlobSet /\ Header(1, 1, {}) \in HeaderSet
    BY BlobTypes
  <2> QED
    BY <2>1, IdleTypes DEF Init
<1>2. \A t \in Threads : thr[t] = Idle
  BY DEF Init
<1>3. Types
  BY <1>1, IdleTypes DEF Init, Types, FileTypes, LockTypes, HandleSet
<1>4. /\ Idle.pc = "idle" /\ Idle.hdr = NoHeader /\ Idle.refs = {}
      /\ "idle" \notin HoldsProcess \cup HoldsFile \cup HoldsTxMu \cup HoldsMu
      /\ "idle" \notin Opening \cup InTx \cup HasHeader \cup {"tx", "commit"}
  BY DEF Idle, HoldsProcess, HoldsFile, HoldsTxMu, HoldsMu, Opening, InTx, HasHeader
<1>5. ProcessLocks /\ FileLock /\ TxMutexes /\ Mutexes
  BY <1>2, <1>4 DEF Init, ProcessLocks, FileLock, TxMutexes, Mutexes
<1>6. States /\ AppendsAtEnd
  BY <1>2, <1>4 DEF States, AppendsAtEnd
<1>7. GoodIn(log, backup) /\ IntactIn(log, {})
  <2>1. Len(log) = 1 /\ log[1] = Dir({})
    BY <1>1
  <2>2. backup.at = 1 /\ backup.refs = {}
    BY <1>1 DEF Header
  <2> QED
    BY <2>1, <2>2 DEF GoodIn, IntactIn
<1>8. Content
  BY <1>1, <1>2, <1>4, <1>7 DEF Init, Content
<1> QED
  BY <1>3, <1>5, <1>6, <1>8 DEF Inv

\* With writers excluded, every step keeps the invariant.
LEMMA NextInv == Excluded /\ Inv /\ [Next]_vars => Inv'
BY TypesStep, ProcessLocksStep, FileLockStep, TxMutexesStep, MutexesStep,
   StatesStep, AppendsAtEndStep, ContentStep DEF Inv

\* The inductive invariant holds always.
THEOREM Invariance ==
    ASSUME Excluded
    PROVE  Spec => []Inv
<1>1. Inv /\ [Next]_vars => Inv'
  BY NextInv
<1> QED
  BY <1>1, InitInv, PTL DEF Spec

\* Begin, Commit and the write-back in Open: whatever the number of processes,
\* Containers and goroutines, of all of them one at most may write.
THEOREM OneWriterHolds ==
    ASSUME Excluded
    PROVE  Spec => []OneWriter
<1>1. Inv => OneWriter
  <2> SUFFICES ASSUME Inv, NEW t \in Threads, Writing(t)
               PROVE  /\ \A u \in Threads \ {t} : ~Writing(u)
                      /\ handle[Mine(t)].state # "closed"
    BY DEF OneWriter
  <2>1. \A u \in Threads : Writing(u) => thr[u].pc \in HoldsFile
    BY DEF Writing, HoldsFile
  <2>2. \A u \in Threads \ {t} : ~Writing(u)
    BY <2>1, OneHolder DEF Inv
  <2>3. thr[t].pc \in Opening \cup InTx
    BY DEF Writing, Opening, InTx
  <2> QED
    BY <2>2, <2>3 DEF Inv, States
<1> QED
  BY <1>1, Invariance, PTL

\* No transaction overwrites a chunk that a snapshot, a transaction or a reader
\* refers to, not even those of a Container that is out of date.
THEOREM SnapshotsIntactHolds ==
    ASSUME Excluded
    PROVE  Spec => []SnapshotsIntact
<1>1. Inv => SnapshotsIntact
  <2> SUFFICES ASSUME Inv PROVE SnapshotsIntact
    OBVIOUS
  <2>1. \A refs : IntactIn(log, refs) <=> Intact(refs)
    BY DEF IntactIn, Intact
  <2>2. \A h : GoodIn(log, h) => Loads(h) /\ Intact(h.refs)
    BY <2>1 DEF GoodIn, Loads
  <2>3. ~Loads(NoHeader)
    BY GoodFacts DEF Inv, Types, FileTypes
  <2>4. Intact(Current.refs)
    BY <2>2, <2>3 DEF Inv, Content, Current
  <2> QED
    BY <2>1, <2>2, <2>4 DEF Inv, Content, SnapshotsIntact
<1> QED
  BY <1>1, Invariance, PTL

\* Begin, Commit, Rollback and Open leave no lock behind, whichever of their
\* calls fails and whichever process is killed.
THEOREM NoLockLeftHolds ==
    ASSUME Excluded
    PROVE  Spec => []NoLockLeft
<1>1. Inv => NoLockLeft
  <2> SUFFICES ASSUME Inv, \A t \in Threads : thr[t].pc = "idle"
               PROVE  /\ \A h \in Handles : txMu[h] = Nobody /\ mu[h] = Nobody
                      /\ \A p \in Processes : processLock[p] = Nobody
                      /\ flock = Nobody
    BY DEF NoLockLeft, At
  <2>1. "idle" \notin HoldsProcess \cup HoldsFile \cup HoldsTxMu \cup HoldsMu
    BY DEF HoldsProcess, HoldsFile, HoldsTxMu, HoldsMu
  <2>2. \A h \in Handles : txMu[h] = Nobody /\ mu[h] = Nobody
    BY <2>1 DEF Inv, Types, LockTypes, TxMutexes, Mutexes
  <2>3. \A p \in Processes : processLock[p] = Nobody
    BY <2>1 DEF Inv, Types, LockTypes, ProcessLocks
  <2>4. flock = Nobody
    BY <2>1 DEF Inv, FileLock
  <2> QED
    BY <2>2, <2>3, <2>4
<1> QED
  BY <1>1, Invariance, PTL

----------------------------------------------------------------------------
(* The widths of TypeOK.                                                   *)

\* Which stages of a call are of a transaction, and of which kind.
LEMMA ActiveStages ==
    /\ Active = Starting \cup Appending \cup Heading
    /\ Starting \cap Appending = {}
    /\ Heading \cap (Starting \cup Appending) = {}
    /\ "idle" \notin Active
BY DEF Active, Starting, Appending, Heading, Filling

\* What a goroutine may become in a step that leaves the file's blobs alone: it
\* keeps its number while its transaction lasts.
Moves(s, r) ==
    /\ r.hdr \in Headers
    /\ r.pc \in Active => s.pc \in Active /\ r.id = s.id
    /\ r.pc \in Starting => s.pc \in Starting
    /\ r.pc \in Appending => s.pc \in Starting \/ (s.pc \in Appending /\ r.refs = s.refs)

HandleKept(h) ==
    /\ handle'[h].hdr \in Headers
    /\ handle'[h].state # "open" => handle'[h].hdr = NoHeader

\* A step that appends nothing and begins nothing.
Quiet ==
    /\ log' = log /\ begun' = begun /\ acked' \subseteq acked \cup 1 .. begun
    /\ {primary', backup'} \subseteq Headers
    /\ \A t \in Threads : Moves(thr[t], thr'[t])
    /\ \A h \in Handles : HandleKept(h)

\* Whoever does not move, may.
LEMMA StayFacts ==
    /\ NoHeader \in Headers /\ primary \in Headers /\ backup \in Headers
    /\ \A h \in Handles : handle[h].hdr \in Headers
    /\ \A t \in Threads : thr[t].hdr \in Headers /\ Moves(thr[t], thr[t]) /\ Moves(thr[t], Idle)
<1>1. Idle.pc \notin Active /\ Idle.hdr = NoHeader
  BY ActiveStages DEF Idle
<1> QED
  BY <1>1, ActiveStages DEF Headers, Moves

\* A step that appends nothing and begins nothing keeps the bounds.
LEMMA QuietBounded ==
    ASSUME Types, Bounded, Quiet
    PROVE  Bounded'
<1>1. Numbered'
  BY DEF Bounded, Numbered, Quiet, Moves, Types
<1>2. Owned'
  <2>1. PICK own \in [DOMAIN log -> 0 .. begun] : Owns(own)
    BY DEF Bounded, Owned
  <2>2. ASSUME NEW t \in Threads, NEW i \in DOMAIN log,
               thr'[t].pc \in Starting \cup Appending, own[i] = thr'[t].id
        PROVE  /\ thr'[t].pc \in Appending
               /\ log[i].kind = "chunk"
               /\ \E r \in thr'[t].refs : r.id = thr'[t].id
    <3>1. Moves(thr[t], thr'[t])
      BY DEF Quiet
    <3>2. thr[t].pc \in Starting \cup Appending /\ own[i] = thr[t].id
      BY <2>2, <3>1, ActiveStages DEF Moves
    <3>3. thr[t].pc \in Appending
      BY <2>1, <3>2 DEF Owns
    <3>4. thr'[t].pc \in Appending /\ thr'[t].refs = thr[t].refs /\ thr'[t].id = thr[t].id
      BY <2>2, <3>1, <3>3, ActiveStages DEF Moves
    <3> QED
      BY <2>1, <3>2, <3>4 DEF Owns
  <2>3. Owns(own)'
    BY <2>1, <2>2 DEF Owns, Quiet
  <2> QED
    BY <2>3 DEF Owned, Quiet
<1>3. Headers' \subseteq Headers
  BY StayFacts DEF Headers, Quiet, Moves, HandleKept
<1>4. Generations' /\ OpenOnly'
  BY <1>3 DEF Bounded, Generations, OpenOnly, Quiet, HandleKept, Kept
<1> QED
  BY <1>1, <1>2, <1>4 DEF Bounded

\* The goroutine t alone goes on.
LEMMA GoesQuietly ==
    ASSUME Types, OpenOnly, NEW t \in Threads, NEW x \in Pcs, Goto(t, x),
           x \in Active => thr[t].pc \in Active,
           x \in Starting => thr[t].pc \in Starting,
           x \in Appending => thr[t].pc \in Appending,
           UNCHANGED <<log, begun, handle, acked>>, {primary', backup'} \subseteq Headers
    PROVE  Quiet
<1>1. \A u \in Threads : thr'[u] = IF u = t THEN [thr[t] EXCEPT !.pc = x] ELSE thr[u]
  BY DEF Goto, Types
<1>2. thr[t] \in ThreadSet
  BY DEF Types
<1>3. Moves(thr[t], [thr[t] EXCEPT !.pc = x])
  BY <1>2, StayFacts DEF Moves, ThreadSet
<1> QED
  BY <1>1, <1>3, StayFacts DEF Quiet, HandleKept, OpenOnly

\* The same when it returns, to whatever a Container has become.
LEMMA ReturnsQuietly ==
    ASSUME Types, OpenOnly, NEW t \in Threads, Return(t),
           UNCHANGED <<log, begun, acked, primary, backup>>, \A h \in Handles : HandleKept(h)
    PROVE  Quiet
<1>1. \A u \in Threads : thr'[u] = IF u = t THEN Idle ELSE thr[u]
  BY DEF Return, Types
<1> QED
  BY <1>1, StayFacts DEF Quiet

\* No Container changes.
LEMMA HandlesStay ==
    ASSUME OpenOnly, handle' = handle
    PROVE  \A h \in Handles : HandleKept(h)
BY StayFacts DEF HandleKept, OpenOnly

\* Every step that only moves a goroutine on.
LEMMA GoingOn ==
    ASSUME Types, OpenOnly, NEW t \in Threads,
           \/ TryBackup(t) \/ LoadBackup(t) \/ PersistLockProcess(t) \/ PersistLockFile(t)
           \/ PersistSkip(t) \/ PersistPrimary(t) \/ PersistBackup(t) \/ PersistUnlockFile(t)
           \/ LockTxMu(t) \/ LockMu(t) \/ BeginLockProcess(t) \/ BeginLockFile(t)
           \/ CallCommit(t) \/ Rollback(t) \/ CommitBackup(t) \/ CommitPrimary(t)
           \/ CommitFails(t) \/ UnlockFile(t) \/ UnlockProcess(t) \/ CallRead(t)
    PROVE  Quiet
<1>1. CASE TryBackup(t)
  <2>1. /\ Goto(t, "readBackup") /\ "readBackup" \in Pcs
        /\ UNCHANGED <<log, begun, handle, acked>>
        /\ primary' \in {primary, thr[t].hdr} /\ backup' \in {backup, thr[t].hdr}
    BY <1>1 DEF TryBackup, Pcs, file, counters
  <2>2. /\ "readBackup" \in Active => thr[t].pc \in Active
        /\ "readBackup" \in Starting => thr[t].pc \in Starting
        /\ "readBackup" \in Appending => thr[t].pc \in Appending
    BY <1>1 DEF TryBackup, At, Active, Starting, Appending, Filling, Heading
  <2> QED
    BY <2>1, <2>2, StayFacts, GoesQuietly
<1>2. CASE LoadBackup(t)
  <2>1. /\ Goto(t, "persistProcess") /\ "persistProcess" \in Pcs
        /\ UNCHANGED <<log, begun, handle, acked>>
        /\ primary' \in {primary, thr[t].hdr} /\ backup' \in {backup, thr[t].hdr}
    BY <1>2 DEF LoadBackup, Pcs, file, counters
  <2>2. /\ "persistProcess" \in Active => thr[t].pc \in Active
        /\ "persistProcess" \in Starting => thr[t].pc \in Starting
        /\ "persistProcess" \in Appending => thr[t].pc \in Appending
    BY <1>2 DEF LoadBackup, At, Active, Starting, Appending, Filling, Heading
  <2> QED
    BY <2>1, <2>2, StayFacts, GoesQuietly
<1>3. CASE PersistLockProcess(t)
  <2>1. /\ Goto(t, "persistFile") /\ "persistFile" \in Pcs
        /\ UNCHANGED <<log, begun, handle, acked>>
        /\ primary' \in {primary, thr[t].hdr} /\ backup' \in {backup, thr[t].hdr}
    BY <1>3 DEF PersistLockProcess, Pcs, file, counters
  <2>2. /\ "persistFile" \in Active => thr[t].pc \in Active
        /\ "persistFile" \in Starting => thr[t].pc \in Starting
        /\ "persistFile" \in Appending => thr[t].pc \in Appending
    BY <1>3 DEF PersistLockProcess, At, Active, Starting, Appending, Filling, Heading
  <2> QED
    BY <2>1, <2>2, StayFacts, GoesQuietly
<1>4. CASE PersistLockFile(t)
  <2>1. /\ Goto(t, "persistPrimary") /\ "persistPrimary" \in Pcs
        /\ UNCHANGED <<log, begun, handle, acked>>
        /\ primary' \in {primary, thr[t].hdr} /\ backup' \in {backup, thr[t].hdr}
    BY <1>4 DEF PersistLockFile, Pcs, file, counters
  <2>2. /\ "persistPrimary" \in Active => thr[t].pc \in Active
        /\ "persistPrimary" \in Starting => thr[t].pc \in Starting
        /\ "persistPrimary" \in Appending => thr[t].pc \in Appending
    BY <1>4 DEF PersistLockFile, At, Active, Starting, Appending, Filling, Heading
  <2> QED
    BY <2>1, <2>2, StayFacts, GoesQuietly
<1>5. CASE PersistSkip(t)
  <2>1. /\ Goto(t, "persistUnlock") /\ "persistUnlock" \in Pcs
        /\ UNCHANGED <<log, begun, handle, acked>>
        /\ primary' \in {primary, thr[t].hdr} /\ backup' \in {backup, thr[t].hdr}
    BY <1>5 DEF PersistSkip, Pcs, file, counters
  <2>2. /\ "persistUnlock" \in Active => thr[t].pc \in Active
        /\ "persistUnlock" \in Starting => thr[t].pc \in Starting
        /\ "persistUnlock" \in Appending => thr[t].pc \in Appending
    BY <1>5 DEF PersistSkip, At, Active, Starting, Appending, Filling, Heading
  <2> QED
    BY <2>1, <2>2, StayFacts, GoesQuietly
<1>6. CASE PersistPrimary(t)
  <2>1. /\ Goto(t, "persistBackup") /\ "persistBackup" \in Pcs
        /\ UNCHANGED <<log, begun, handle, acked>>
        /\ primary' \in {primary, thr[t].hdr} /\ backup' \in {backup, thr[t].hdr}
    BY <1>6 DEF PersistPrimary, Pcs, file, counters
  <2>2. /\ "persistBackup" \in Active => thr[t].pc \in Active
        /\ "persistBackup" \in Starting => thr[t].pc \in Starting
        /\ "persistBackup" \in Appending => thr[t].pc \in Appending
    BY <1>6 DEF PersistPrimary, At, Active, Starting, Appending, Filling, Heading
  <2> QED
    BY <2>1, <2>2, StayFacts, GoesQuietly
<1>7. CASE PersistBackup(t)
  <2>1. /\ Goto(t, "persistUnlockFile") /\ "persistUnlockFile" \in Pcs
        /\ UNCHANGED <<log, begun, handle, acked>>
        /\ primary' \in {primary, thr[t].hdr} /\ backup' \in {backup, thr[t].hdr}
    BY <1>7 DEF PersistBackup, Pcs, file, counters
  <2>2. /\ "persistUnlockFile" \in Active => thr[t].pc \in Active
        /\ "persistUnlockFile" \in Starting => thr[t].pc \in Starting
        /\ "persistUnlockFile" \in Appending => thr[t].pc \in Appending
    BY <1>7 DEF PersistBackup, At, Active, Starting, Appending, Filling, Heading
  <2> QED
    BY <2>1, <2>2, StayFacts, GoesQuietly
<1>8. CASE PersistUnlockFile(t)
  <2>1. /\ Goto(t, "persistUnlock") /\ "persistUnlock" \in Pcs
        /\ UNCHANGED <<log, begun, handle, acked>>
        /\ primary' \in {primary, thr[t].hdr} /\ backup' \in {backup, thr[t].hdr}
    BY <1>8 DEF PersistUnlockFile, Pcs, file, counters
  <2>2. /\ "persistUnlock" \in Active => thr[t].pc \in Active
        /\ "persistUnlock" \in Starting => thr[t].pc \in Starting
        /\ "persistUnlock" \in Appending => thr[t].pc \in Appending
    BY <1>8 DEF PersistUnlockFile, At, Active, Starting, Appending, Filling, Heading
  <2> QED
    BY <2>1, <2>2, StayFacts, GoesQuietly
<1>9. CASE LockTxMu(t)
  <2>1. /\ Goto(t, "beginMu") /\ "beginMu" \in Pcs
        /\ UNCHANGED <<log, begun, handle, acked>>
        /\ primary' \in {primary, thr[t].hdr} /\ backup' \in {backup, thr[t].hdr}
    BY <1>9 DEF LockTxMu, Pcs, file, counters
  <2>2. /\ "beginMu" \in Active => thr[t].pc \in Active
        /\ "beginMu" \in Starting => thr[t].pc \in Starting
        /\ "beginMu" \in Appending => thr[t].pc \in Appending
    BY <1>9 DEF LockTxMu, At, Active, Starting, Appending, Filling, Heading
  <2> QED
    BY <2>1, <2>2, StayFacts, GoesQuietly
<1>10. CASE LockMu(t)
  <2>1. /\ Goto(t, "beginProcess") /\ "beginProcess" \in Pcs
        /\ UNCHANGED <<log, begun, handle, acked>>
        /\ primary' \in {primary, thr[t].hdr} /\ backup' \in {backup, thr[t].hdr}
    BY <1>10 DEF LockMu, Pcs, file, counters
  <2>2. /\ "beginProcess" \in Active => thr[t].pc \in Active
        /\ "beginProcess" \in Starting => thr[t].pc \in Starting
        /\ "beginProcess" \in Appending => thr[t].pc \in Appending
    BY <1>10 DEF LockMu, At, Active, Starting, Appending, Filling, Heading
  <2> QED
    BY <2>1, <2>2, StayFacts, GoesQuietly
<1>11. CASE BeginLockProcess(t)
  <2>1. /\ Goto(t, "beginFile") /\ "beginFile" \in Pcs
        /\ UNCHANGED <<log, begun, handle, acked>>
        /\ primary' \in {primary, thr[t].hdr} /\ backup' \in {backup, thr[t].hdr}
    BY <1>11 DEF BeginLockProcess, Pcs, file, counters
  <2>2. /\ "beginFile" \in Active => thr[t].pc \in Active
        /\ "beginFile" \in Starting => thr[t].pc \in Starting
        /\ "beginFile" \in Appending => thr[t].pc \in Appending
    BY <1>11 DEF BeginLockProcess, At, Active, Starting, Appending, Filling, Heading
  <2> QED
    BY <2>1, <2>2, StayFacts, GoesQuietly
<1>12. CASE BeginLockFile(t)
  <2>1. /\ Goto(t, "beginCopy") /\ "beginCopy" \in Pcs
        /\ UNCHANGED <<log, begun, handle, acked>>
        /\ primary' \in {primary, thr[t].hdr} /\ backup' \in {backup, thr[t].hdr}
    BY <1>12 DEF BeginLockFile, Pcs, file, counters
  <2>2. /\ "beginCopy" \in Active => thr[t].pc \in Active
        /\ "beginCopy" \in Starting => thr[t].pc \in Starting
        /\ "beginCopy" \in Appending => thr[t].pc \in Appending
    BY <1>12 DEF BeginLockFile, At, Active, Starting, Appending, Filling, Heading
  <2> QED
    BY <2>1, <2>2, StayFacts, GoesQuietly
<1>13. CASE CallCommit(t)
  <2>1. /\ Goto(t, "commit") /\ "commit" \in Pcs
        /\ UNCHANGED <<log, begun, handle, acked>>
        /\ primary' \in {primary, thr[t].hdr} /\ backup' \in {backup, thr[t].hdr}
    BY <1>13 DEF CallCommit, Pcs, file, counters
  <2>2. /\ "commit" \in Active => thr[t].pc \in Active
        /\ "commit" \in Starting => thr[t].pc \in Starting
        /\ "commit" \in Appending => thr[t].pc \in Appending
    BY <1>13 DEF CallCommit, At, Active, Starting, Appending, Filling, Heading
  <2> QED
    BY <2>1, <2>2, StayFacts, GoesQuietly
<1>14. CASE Rollback(t)
  <2>1. /\ Goto(t, "unlockFile") /\ "unlockFile" \in Pcs
        /\ UNCHANGED <<log, begun, handle, acked>>
        /\ primary' \in {primary, thr[t].hdr} /\ backup' \in {backup, thr[t].hdr}
    BY <1>14 DEF Rollback, Pcs, file, counters
  <2>2. /\ "unlockFile" \in Active => thr[t].pc \in Active
        /\ "unlockFile" \in Starting => thr[t].pc \in Starting
        /\ "unlockFile" \in Appending => thr[t].pc \in Appending
    BY <1>14 DEF Rollback, At, Active, Starting, Appending, Filling, Heading
  <2> QED
    BY <2>1, <2>2, StayFacts, GoesQuietly
<1>15. CASE CommitBackup(t)
  <2>1. /\ Goto(t, "writePrimary") /\ "writePrimary" \in Pcs
        /\ UNCHANGED <<log, begun, handle, acked>>
        /\ primary' \in {primary, thr[t].hdr} /\ backup' \in {backup, thr[t].hdr}
    BY <1>15 DEF CommitBackup, Pcs, file, counters
  <2>2. /\ "writePrimary" \in Active => thr[t].pc \in Active
        /\ "writePrimary" \in Starting => thr[t].pc \in Starting
        /\ "writePrimary" \in Appending => thr[t].pc \in Appending
    BY <1>15 DEF CommitBackup, At, Active, Starting, Appending, Filling, Heading
  <2> QED
    BY <2>1, <2>2, StayFacts, GoesQuietly
<1>16. CASE CommitPrimary(t)
  <2>1. /\ Goto(t, "publish") /\ "publish" \in Pcs
        /\ UNCHANGED <<log, begun, handle, acked>>
        /\ primary' \in {primary, thr[t].hdr} /\ backup' \in {backup, thr[t].hdr}
    BY <1>16 DEF CommitPrimary, Pcs, file, counters
  <2>2. /\ "publish" \in Active => thr[t].pc \in Active
        /\ "publish" \in Starting => thr[t].pc \in Starting
        /\ "publish" \in Appending => thr[t].pc \in Appending
    BY <1>16 DEF CommitPrimary, At, Active, Starting, Appending, Filling, Heading
  <2> QED
    BY <2>1, <2>2, StayFacts, GoesQuietly
<1>17. CASE CommitFails(t)
  <2>1. /\ Goto(t, "unlockFile") /\ "unlockFile" \in Pcs
        /\ UNCHANGED <<log, begun, handle, acked>>
        /\ primary' \in {primary, thr[t].hdr} /\ backup' \in {backup, thr[t].hdr}
    BY <1>17 DEF CommitFails, Pcs, file, counters
  <2>2. /\ "unlockFile" \in Active => thr[t].pc \in Active
        /\ "unlockFile" \in Starting => thr[t].pc \in Starting
        /\ "unlockFile" \in Appending => thr[t].pc \in Appending
    BY <1>17 DEF CommitFails, At, Active, Starting, Appending, Filling, Heading
  <2> QED
    BY <2>1, <2>2, StayFacts, GoesQuietly
<1>18. CASE UnlockFile(t)
  <2>1. /\ Goto(t, "unlockProcess") /\ "unlockProcess" \in Pcs
        /\ UNCHANGED <<log, begun, handle, acked>>
        /\ primary' \in {primary, thr[t].hdr} /\ backup' \in {backup, thr[t].hdr}
    BY <1>18 DEF UnlockFile, Pcs, file, counters
  <2>2. /\ "unlockProcess" \in Active => thr[t].pc \in Active
        /\ "unlockProcess" \in Starting => thr[t].pc \in Starting
        /\ "unlockProcess" \in Appending => thr[t].pc \in Appending
    BY <1>18 DEF UnlockFile, At, Active, Starting, Appending, Filling, Heading
  <2> QED
    BY <2>1, <2>2, StayFacts, GoesQuietly
<1>19. CASE UnlockProcess(t)
  <2>1. /\ Goto(t, "unlockTxMu") /\ "unlockTxMu" \in Pcs
        /\ UNCHANGED <<log, begun, handle, acked>>
        /\ primary' \in {primary, thr[t].hdr} /\ backup' \in {backup, thr[t].hdr}
    BY <1>19 DEF UnlockProcess, Pcs, file, counters
  <2>2. /\ "unlockTxMu" \in Active => thr[t].pc \in Active
        /\ "unlockTxMu" \in Starting => thr[t].pc \in Starting
        /\ "unlockTxMu" \in Appending => thr[t].pc \in Appending
    BY <1>19 DEF UnlockProcess, At, Active, Starting, Appending, Filling, Heading
  <2> QED
    BY <2>1, <2>2, StayFacts, GoesQuietly
<1>20. CASE CallRead(t)
  <2>1. /\ Goto(t, "readMu") /\ "readMu" \in Pcs
        /\ UNCHANGED <<log, begun, handle, acked>>
        /\ primary' \in {primary, thr[t].hdr} /\ backup' \in {backup, thr[t].hdr}
    BY <1>20 DEF CallRead, Pcs, file, counters
  <2>2. /\ "readMu" \in Active => thr[t].pc \in Active
        /\ "readMu" \in Starting => thr[t].pc \in Starting
        /\ "readMu" \in Appending => thr[t].pc \in Appending
    BY <1>20 DEF CallRead, At, Active, Starting, Appending, Filling, Heading
  <2> QED
    BY <2>1, <2>2, StayFacts, GoesQuietly
<1> QED
  BY <1>1, <1>2, <1>3, <1>4, <1>5, <1>6, <1>7, <1>8, <1>9, <1>10, <1>11, <1>12, <1>13, <1>14, <1>15, <1>16, <1>17, <1>18, <1>19, <1>20

\* Every step that only returns.
LEMMA ReturningQuietly ==
    ASSUME Types, OpenOnly, NEW t \in Threads,
           \/ BeginClosed(t) \/ BeginFailsLock(t) \/ BeginFailsCopy(t) \/ UnlockTxMu(t)
           \/ ReadClosed(t) \/ FinishRead(t)
    PROVE  Quiet
<1>1. Return(t) /\ UNCHANGED <<log, begun, acked, primary, backup, handle>>
  BY DEF BeginClosed, BeginFailsLock, BeginFailsCopy, UnlockTxMu, ReadClosed, FinishRead, file, counters
<1> QED
  BY <1>1, HandlesStay, ReturnsQuietly

\* A step that changes more of a goroutine than where it is.
LEMMA ChangesQuietly ==
    ASSUME Types, OpenOnly, NEW t \in Threads, NEW s, thr' = [thr EXCEPT ![t] = s], Moves(thr[t], s),
           UNCHANGED <<log, begun, primary, backup>>, acked' \subseteq acked \cup 1 .. begun,
           \A h \in Handles : HandleKept(h)
    PROVE  Quiet
<1>1. \A u \in Threads : thr'[u] = IF u = t THEN s ELSE thr[u]
  BY DEF Types
<1> QED
  BY <1>1, StayFacts DEF Quiet

\* What Open, Copy, Publish, the readers and Close change.
LEMMA ChangingQuietly ==
    ASSUME Types, States, Bounded, NEW t \in Threads,
           \/ StartOpen(t) \/ ReadPrimary(t) \/ ReadBackup(t) \/ LoadPrimary(t) \/ PersistUnlock(t)
           \/ Copy(t) \/ Publish(t) \/ LockForRead(t) \/ Close(t)
    PROVE  Quiet
<1> USE SharedAssumption
<1>m. Mine(t) \in Handles
  BY DEF Mine
<1>o. OpenOnly /\ thr[t] \in ThreadSet /\ \A h \in Handles : handle[h] \in HandleSet
  BY DEF Bounded, Types
<1>s. \A h \in Handles : handle'[h] = handle[h] => HandleKept(h)
  BY <1>o, StayFacts DEF HandleKept, OpenOnly
<1>1. CASE StartOpen(t)
  <2>1. UNCHANGED <<log, begun, primary, backup, acked>> /\ Goto(t, "readPrimary") /\ "readPrimary" \in Pcs
    BY <1>1 DEF StartOpen, file, counters, Pcs
  <2>2. \A h \in Handles : HandleKept(h)
    <3>1. \A h \in Handles \ {Mine(t)} : handle'[h] = handle[h]
      BY <1>1, <1>m DEF StartOpen, Types
    <3>2. handle'[Mine(t)].hdr = handle[Mine(t)].hdr /\ handle[Mine(t)].state = "closed"
      BY <1>1, <1>m, <1>o DEF StartOpen, Types, HandleSet
    <3> QED
      BY <3>1, <3>2, <1>s, <1>o, <1>m, StayFacts DEF HandleKept, OpenOnly
  <2>3. \A u \in Threads : thr'[u] = IF u = t THEN [thr[t] EXCEPT !.pc = "readPrimary"] ELSE thr[u]
    BY <2>1 DEF Goto, Types
  <2>4. Moves(thr[t], [thr[t] EXCEPT !.pc = "readPrimary"])
    BY <1>o, StayFacts DEF Moves, ThreadSet, Active, Starting, Appending, Filling, Heading
  <2> QED
    BY <2>1, <2>2, <2>3, <2>4, StayFacts DEF Quiet
<1>2. CASE ReadPrimary(t) \/ ReadBackup(t)
  <2>1. PICK x \in {"loadPrimary", "loadBackup"}, h \in {primary, backup} :
           thr' = [thr EXCEPT ![t] = [thr[t] EXCEPT !.pc = x, !.hdr = h]]
    BY <1>2 DEF ReadPrimary, ReadBackup
  <2> DEFINE s == [thr[t] EXCEPT !.pc = x, !.hdr = h]
  <2>2. Moves(thr[t], s)
    BY <1>o, StayFacts DEF Moves, ThreadSet, Active, Starting, Appending, Filling, Heading
  <2>3. UNCHANGED <<log, begun, primary, backup, acked, handle>>
    BY <1>2 DEF ReadPrimary, ReadBackup, file, counters
  <2> HIDE DEF s
  <2> QED
    BY <2>1, <2>2, <2>3, <1>o, HandlesStay, ChangesQuietly DEF s
<1>3. CASE LoadPrimary(t) \/ PersistUnlock(t)
  <2>1. Build(t) /\ Return(t) /\ UNCHANGED <<log, begun, primary, backup, acked>>
    BY <1>3 DEF LoadPrimary, PersistUnlock, file, counters
  <2>2. /\ \A h \in Handles \ {Mine(t)} : handle'[h] = handle[h]
        /\ handle'[Mine(t)].hdr = thr[t].hdr /\ handle'[Mine(t)].state = "open"
    BY <2>1, <1>m DEF Build, Types
  <2>3. \A h \in Handles : HandleKept(h)
    BY <2>2, <1>s, StayFacts DEF HandleKept
  <2> QED
    BY <2>1, <2>3, <1>o, ReturnsQuietly
<1>4. CASE Copy(t)
  <2> DEFINE s == [thr[t] EXCEPT !.pc = "tx", !.refs = handle[Mine(t)].hdr.refs, !.off = Len(log) + 1]
  <2>1. thr' = [thr EXCEPT ![t] = s] /\ thr[t].pc = "beginCopy"
        /\ UNCHANGED <<log, begun, primary, backup, acked, handle>>
    BY <1>4 DEF Copy, At, file, counters
  <2>2. Moves(thr[t], s)
    BY <2>1, <1>o, StayFacts DEF Moves, ThreadSet, Active, Starting, Appending, Filling, Heading
  <2> HIDE DEF s
  <2> QED
    BY <2>1, <2>2, <1>o, HandlesStay, ChangesQuietly
<1>5. CASE Publish(t)
  <2> DEFINE s == [thr[t] EXCEPT !.pc = "unlockFile"]
  <2>1. thr' = [thr EXCEPT ![t] = s] /\ thr[t].pc = "publish" /\ UNCHANGED <<log, begun, primary, backup>>
    BY <1>5 DEF Publish, At, Goto, file, counters
  <2>2. Moves(thr[t], s)
    BY <1>o, StayFacts DEF Moves, ThreadSet, Active, Starting, Appending, Filling, Heading
  <2>3. /\ \A h \in Handles \ {Mine(t)} : handle'[h] = handle[h]
        /\ handle'[Mine(t)].hdr = thr[t].hdr /\ handle'[Mine(t)].state = handle[Mine(t)].state
    BY <1>5, <1>m, <1>o DEF Publish, Types, HandleSet
  <2>4. acked' \subseteq acked \cup {thr[t].id} /\ thr[t].id \in 1 .. begun
    BY <1>5, <2>1 DEF Publish, Bounded, Numbered, Active, Filling, Heading
  <2>5. handle[Mine(t)].state = "open"
    BY <2>1 DEF States, InTx
  <2>6. \A h \in Handles : HandleKept(h)
    BY <2>3, <2>5, <1>s, StayFacts DEF HandleKept
  <2> HIDE DEF s
  <2> QED
    BY <2>1, <2>2, <2>4, <2>6, <1>o, ChangesQuietly
<1>6. CASE LockForRead(t)
  <2> DEFINE s == [thr[t] EXCEPT !.pc = "reading", !.refs = handle[Mine(t)].hdr.refs]
  <2>1. thr' = [thr EXCEPT ![t] = s] /\ UNCHANGED <<log, begun, primary, backup, acked, handle>>
    BY <1>6 DEF LockForRead, file, counters
  <2>2. Moves(thr[t], s)
    BY <1>o, StayFacts DEF Moves, ThreadSet, Active, Starting, Appending, Filling, Heading
  <2> HIDE DEF s
  <2> QED
    BY <2>1, <2>2, <1>o, HandlesStay, ChangesQuietly
<1>7. CASE Close(t)
  <2>1. UNCHANGED <<log, begun, primary, backup, acked, thr>>
    BY <1>7 DEF Close, file, counters
  <2>2. /\ \A h \in Handles \ {Mine(t)} : handle'[h] = handle[h]
        /\ handle'[Mine(t)].hdr = NoHeader
    BY <1>7, <1>m DEF Close, Types
  <2>3. \A h \in Handles : HandleKept(h)
    BY <2>2, <1>s, StayFacts DEF HandleKept
  <2> QED
    BY <2>1, <2>3, StayFacts DEF Quiet
<1> QED
  BY <1>1, <1>2, <1>3, <1>4, <1>5, <1>6, <1>7

\* A process that is killed.
LEMMA CrashQuietly ==
    ASSUME Types, Bounded, NEW p \in Processes, Crash(p)
    PROVE  Quiet
<1>1. /\ \A t \in Threads : thr'[t] \in {thr[t], Idle}
      /\ \A h \in Handles : handle'[h] \in {handle[h], [state |-> "closed", hdr |-> NoHeader]}
      /\ UNCHANGED <<log, begun, primary, backup, acked>>
  BY DEF Crash, file
<1>2. \A h \in Handles : HandleKept(h)
  BY <1>1, StayFacts DEF HandleKept, Bounded, OpenOnly
<1> QED
  BY <1>1, <1>2, StayFacts DEF Quiet

\* Begin takes a number that no transaction has had.
LEMMA CallBeginBounded ==
    ASSUME Types, Bounded, NEW t \in Threads, CallBegin(t)
    PROVE  Bounded'
<1>1. /\ UNCHANGED <<log, primary, backup, handle, acked>>
      /\ begun < MaxTx /\ begun' = begun + 1 /\ begun \in Nat /\ MaxTx \in Nat
  BY SharedAssumption DEF CallBegin, file, Types
<1>2. /\ \A u \in Threads \ {t} : thr'[u] = thr[u]
      /\ thr'[t].pc = "beginTxMu" /\ thr'[t].id = begun + 1
      /\ thr'[t].hdr = thr[t].hdr /\ thr[t].pc = "idle"
  BY DEF CallBegin, At, Types, ThreadSet
<1>3. Numbered'
  <2>1. \A u \in Threads \ {t} : thr[u].pc \in Active => thr[u].id \in 1 .. begun
    BY DEF Bounded, Numbered
  <2>2. \A u \in Threads \ {t} : thr'[u].pc \in Active => thr'[u].id \in 1 .. begun
    BY <1>2, <2>1
  <2>3. begun' <= MaxTx /\ acked' \subseteq 1 .. begun'
    BY <1>1 DEF Bounded, Numbered
  <2>4. \A u \in Threads : thr'[u].pc \in Active => thr'[u].id \in 1 .. begun'
    BY <1>1, <1>2, <2>2
  <2>5. \A u \in Threads \ {t} : thr'[u].pc \in Active => thr'[u].id # thr'[t].id
    BY <1>1, <1>2, <2>2
  <2>6. \A u, v \in Threads \ {t} :
           thr'[u].pc \in Active /\ thr'[v].pc \in Active /\ thr'[u].id = thr'[v].id => u = v
    BY <1>2 DEF Bounded, Numbered
  <2> QED
    BY <2>3, <2>4, <2>5, <2>6 DEF Numbered
<1>4. Owned'
  <2>1. PICK own \in [DOMAIN log -> 0 .. begun] : Owns(own)
    BY DEF Bounded, Owned
  <2>2. own \in [DOMAIN log' -> 0 .. begun']
    BY <1>1, <2>1
  <2>3. \A i \in DOMAIN log : own[i] # thr'[t].id
    BY <1>1, <1>2, <2>1
  <2>4. Owns(own)'
    BY <1>1, <1>2, <2>1, <2>3 DEF Owns
  <2> QED
    BY <2>2, <2>4 DEF Owned
<1>5. Headers' = Headers
  BY <1>1, <1>2 DEF Headers
<1>6. Generations' /\ OpenOnly'
  BY <1>1, <1>5 DEF Bounded, Generations, OpenOnly, Kept
<1> QED
  BY <1>3, <1>4, <1>6 DEF Bounded

\* A transaction appends: of each kind of blob one at most.
LEMMA AppendedOwned ==
    ASSUME Types, Bounded, NEW t \in Threads, thr[t].pc \in Appending,
           NEW b \in BlobSet, log' = Append(log, b), begun' = begun,
           b.kind = "chunk" => b.id = thr[t].id /\ \A r \in thr[t].refs : r.id # thr[t].id,
           \A u \in Threads \ {t} : thr'[u] = thr[u],
           thr'[t].pc \in Starting \cup Appending =>
               /\ thr'[t].pc \in Appending /\ b.kind = "chunk" /\ thr'[t].id = thr[t].id
               /\ \E r \in thr'[t].refs : r.id = thr[t].id
    PROVE  Owned'
<1> DEFINE n == Len(log) + 1
           x == thr[t].id
<1>1. PICK own \in [DOMAIN log -> 0 .. begun] : Owns(own)
  BY DEF Bounded, Owned
<1>2. /\ log \in Seq(BlobSet) /\ DOMAIN log = 1 .. Len(log) /\ Len(log) \in Nat
      /\ DOMAIN log' = DOMAIN log \cup {n} /\ n \notin DOMAIN log
      /\ log'[n] = b /\ \A i \in DOMAIN log : log'[i] = log[i]
  BY DEF Types, FileTypes
<1>3. /\ x \in 1 .. begun /\ thr[t].pc \in Active
      /\ \A u \in Threads \ {t} : thr[u].pc \in Active => thr[u].id # x
  BY ActiveStages DEF Bounded, Numbered
<1>4. PICK own2 \in [DOMAIN log' -> 0 .. begun'] :
        own2[n] = x /\ \A i \in DOMAIN log : own2[i] = own[i]
  <2> DEFINE f == [i \in DOMAIN log' |-> IF i = n THEN x ELSE own[i]]
  <2>1. f \in [DOMAIN log' -> 0 .. begun']
    BY <1>1, <1>2, <1>3
  <2>2. f[n] = x /\ \A i \in DOMAIN log : f[i] = own[i]
    BY <1>2
  <2> HIDE DEF f
  <2> QED
    BY <2>1, <2>2
<1> HIDE DEF n
<1>5. \A i \in DOMAIN log : own[i] = x => log[i].kind # b.kind
  <2> SUFFICES ASSUME NEW i \in DOMAIN log, own[i] = x PROVE log[i].kind # b.kind
    OBVIOUS
  <2>1. log[i].kind = "chunk" /\ \E r \in thr[t].refs : r.id = x
    BY <1>1 DEF Owns
  <2> QED
    BY <2>1
<1>6. \A i, j \in DOMAIN log' : log'[i].kind = log'[j].kind /\ own2[i] = own2[j] => i = j
  <2>1. \A i, j \in DOMAIN log : log[i].kind = log[j].kind /\ own[i] = own[j] => i = j
    BY <1>1 DEF Owns
  <2> HIDE DEF x
  <2> QED
    BY <1>2, <1>4, <1>5, <2>1
<1>7. \A i \in DOMAIN log' : log'[i].kind = "chunk" => own2[i] = log'[i].id /\ own2[i] # 0
  <2>1. \A i \in DOMAIN log : log[i].kind = "chunk" => own[i] = log[i].id /\ own[i] # 0
    BY <1>1 DEF Owns
  <2>2. x # 0 /\ (b.kind = "chunk" => b.id = x)
    BY <1>3
  <2> HIDE DEF x
  <2> QED
    BY <1>2, <1>4, <2>1, <2>2
<1>8. ASSUME NEW u \in Threads, NEW i \in DOMAIN log',
             thr'[u].pc \in Starting \cup Appending, own2[i] = thr'[u].id
      PROVE  /\ thr'[u].pc \in Appending
             /\ log'[i].kind = "chunk"
             /\ \E r \in thr'[u].refs : r.id = thr'[u].id
  <2>1. CASE u = t
    <3>1. thr'[t].pc \in Appending /\ thr'[t].id = x /\ b.kind = "chunk"
          /\ \E r \in thr'[t].refs : r.id = thr'[t].id
      BY <1>8, <2>1
    <3>2. i \in DOMAIN log => log[i].kind = "chunk"
      BY <1>1, <1>4, <1>8, <2>1, <3>1 DEF Owns
    <3> QED
      BY <1>2, <2>1, <3>1, <3>2
  <2>2. CASE u # t
    <3>1. thr'[u] = thr[u] /\ thr[u].pc \in Active /\ thr[u].id # x
      BY <1>3, <1>8, <2>2, ActiveStages
    <3>2. i \in DOMAIN log /\ own[i] = thr[u].id
      BY <1>2, <1>4, <1>8, <3>1
    <3> QED
      BY <1>1, <1>2, <1>8, <3>1, <3>2 DEF Owns
  <2> QED
    BY <2>1, <2>2
<1>9. Owns(own2)'
  BY <1>6, <1>7, <1>8 DEF Owns
<1> QED
  BY <1>4, <1>9 DEF Owned

\* How many blobs of a kind there are, and that they become one more.
LEMMA KeptFacts ==
    ASSUME Types, NEW kind
    PROVE  /\ IsFiniteSet(Kept(kind)) /\ Cardinality(Kept(kind)) \in Nat
           /\ \A b \in BlobSet : log' = Append(log, b) =>
                Cardinality(Kept(kind)') = Cardinality(Kept(kind)) + (IF b.kind = kind THEN 1 ELSE 0)
<1>1. log \in Seq(BlobSet) /\ DOMAIN log = 1 .. Len(log) /\ Len(log) \in Nat
  BY DEF Types, FileTypes
<1>2. IsFiniteSet(1 .. Len(log)) /\ Kept(kind) \in SUBSET (1 .. Len(log))
  BY <1>1, FS_Interval DEF Kept
<1>3. IsFiniteSet(Kept(kind)) /\ Cardinality(Kept(kind)) \in Nat
  BY <1>2, FS_Subset, FS_CardinalityType
<1>4. ASSUME NEW b \in BlobSet, log' = Append(log, b)
      PROVE  Cardinality(Kept(kind)') = Cardinality(Kept(kind)) + (IF b.kind = kind THEN 1 ELSE 0)
  <2>1. /\ DOMAIN log' = DOMAIN log \cup {Len(log) + 1} /\ Len(log) + 1 \notin DOMAIN log
        /\ log'[Len(log) + 1] = b /\ \A i \in DOMAIN log : log'[i] = log[i]
    BY <1>1, <1>4
  <2>2. CASE b.kind = kind
    <3>1. Kept(kind)' = Kept(kind) \cup {Len(log) + 1} /\ Len(log) + 1 \notin Kept(kind)
      BY <2>1, <2>2 DEF Kept
    <3> QED
      BY <1>3, <2>2, <3>1, FS_AddElement
  <2>3. CASE b.kind # kind
    <3>1. Kept(kind)' = Kept(kind)
      BY <2>1, <2>3 DEF Kept
    <3> QED
      BY <1>3, <2>3, <3>1
  <2> QED
    BY <2>2, <2>3
<1> QED
  BY <1>3, <1>4

\* The only steps that append.
LEMMA PutBounded ==
    ASSUME Types, AppendsAtEnd, Bounded, NEW t \in Threads, Put(t) \/ CommitDir(t)
    PROVE  Bounded'
<1> USE SharedAssumption
<1>m. Mine(t) \in Handles
  BY DEF Mine
<1>o. thr[t] \in ThreadSet /\ thr[t].pc \in Appending
  BY DEF Types, Put, CommitDir, At, Appending
<1>u. UNCHANGED <<primary, backup, handle, acked, begun>>
  BY DEF Put, CommitDir, counters
<1>t. /\ \A u \in Threads \ {t} : thr'[u] = thr[u]
      /\ thr'[t].id = thr[t].id
  BY <1>o DEF Put, CommitDir, Types, ThreadSet
<1>n. Numbered'
  <2>1. thr[t].pc \in Active
    BY <1>o, ActiveStages
  <2> QED
    BY <1>u, <1>t, <2>1 DEF Bounded, Numbered
<1>p. OpenOnly'
  BY <1>u DEF Bounded, OpenOnly
<1>g. \A h \in Headers : h.gen <= Cardinality(Kept("dir"))
  BY DEF Bounded, Generations
<1>1. CASE Put(t)
  <2> DEFINE b == Chunk(thr[t].id)
  <2>1. b \in BlobSet /\ b.kind = "chunk" /\ b.id = thr[t].id
    BY <1>o, FieldTypes, BlobTypes DEF Chunk
  <2>2. log' = Append(log, b)
    BY <1>1, <1>o, <2>1, WriteAppends DEF Put, Appending, Types, FileTypes
  <2>3. /\ thr'[t].pc = "tx" /\ thr'[t].hdr = thr[t].hdr
        /\ \E r \in thr'[t].refs : r.id = thr[t].id
        /\ \A r \in thr[t].refs : r.id # thr[t].id
    <3> DEFINE r == [id |-> thr[t].id, at |-> thr[t].off]
    <3>1. thr'[t].refs = thr[t].refs \cup {r} /\ r.id = thr[t].id
      BY <1>1, <1>o DEF Put, Types, ThreadSet
    <3>2. \A q \in thr[t].refs : q.id # thr[t].id
      BY <1>1 DEF Put
    <3>3. thr'[t].pc = "tx" /\ thr'[t].hdr = thr[t].hdr
      BY <1>1, <1>o DEF Put, At, Types, ThreadSet
    <3> HIDE DEF r
    <3> QED
      BY <3>1, <3>2, <3>3
  <2> HIDE DEF b
  <2>4. Owned'
    BY <1>o, <1>u, <1>t, <2>1, <2>2, <2>3, AppendedOwned DEF Appending
  <2>5. Headers' = Headers
    BY <1>u, <1>t, <2>3 DEF Headers
  <2>6. Cardinality(Kept("dir")') = Cardinality(Kept("dir"))
    BY <2>1, <2>2, KeptFacts
  <2>7. Generations'
    BY <1>g, <2>5, <2>6 DEF Generations
  <2> QED
    BY <1>n, <1>p, <2>4, <2>7 DEF Bounded
<1>2. CASE CommitDir(t)
  <2> DEFINE b == Dir(thr[t].refs)
             h == Header(handle[Mine(t)].hdr.gen + 1, thr[t].off, thr[t].refs)
  <2>1. b \in BlobSet /\ b.kind = "dir"
    BY <1>o, FieldTypes, BlobTypes DEF Dir
  <2>2. log' = Append(log, b)
    BY <1>2, <1>o, <2>1, WriteAppends DEF CommitDir, Appending, Types, FileTypes
  <2>3. thr'[t].pc = "writeBackup" /\ thr'[t].hdr = h
    BY <1>2, <1>o DEF CommitDir, Types, ThreadSet
  <2>4. "writeBackup" \notin Starting \cup Appending
    BY DEF Starting, Appending
  <2>5. h.gen = handle[Mine(t)].hdr.gen + 1 /\ handle[Mine(t)].hdr.gen \in Nat
    BY <1>m, FieldTypes DEF Header, Types
  <2> HIDE DEF b, h
  <2>6. Owned'
    BY <1>o, <1>u, <1>t, <2>1, <2>2, <2>3, <2>4, AppendedOwned
  <2>7. Headers' \subseteq Headers \cup {h}
    BY <1>u, <1>t, <2>3, StayFacts DEF Headers
  <2>8. Cardinality(Kept("dir")') = Cardinality(Kept("dir")) + 1 /\ Cardinality(Kept("dir")) \in Nat
    BY <2>1, <2>2, KeptFacts
  <2>9. handle[Mine(t)].hdr \in Headers
    BY <1>m, StayFacts
  <2>10. \A k \in Headers : k.gen \in Nat
    BY FieldTypes, IdleTypes DEF Headers, Types, FileTypes
  <2>11. Generations'
    BY <1>g, <2>5, <2>7, <2>8, <2>9, <2>10 DEF Generations
  <2> QED
    BY <1>n, <1>p, <2>6, <2>11 DEF Bounded
<1> QED
  BY <1>1, <1>2

\* Every step keeps the bounds.
LEMMA BoundedStep ==
    ASSUME Types, AppendsAtEnd, States, Bounded, [Next]_vars
    PROVE  Bounded'
<1>o. OpenOnly
  BY DEF Bounded
<1>1. ASSUME NEW t \in Threads, Put(t) \/ CommitDir(t) PROVE Bounded'
  BY <1>1, PutBounded
<1>2. ASSUME NEW t \in Threads, CallBegin(t) PROVE Bounded'
  BY <1>2, CallBeginBounded
<1>3. ASSUME NEW p \in Processes, Crash(p) PROVE Bounded'
  BY <1>3, CrashQuietly, QuietBounded
<1>4. CASE UNCHANGED vars
  <2>1. UNCHANGED <<log, primary, backup, handle, thr, acked, begun>>
    BY <1>4 DEF vars, file, counters
  <2>2. Quiet
    BY <2>1, <1>o, HandlesStay, StayFacts DEF Quiet
  <2> QED
    BY <2>2, QuietBounded
<1>5. ASSUME NEW t \in Threads,
             \/ StartOpen(t) \/ ReadPrimary(t) \/ ReadBackup(t) \/ LoadPrimary(t) \/ PersistUnlock(t)
             \/ Copy(t) \/ Publish(t) \/ LockForRead(t) \/ Close(t)
      PROVE  Bounded'
  BY <1>5, ChangingQuietly, QuietBounded
<1>6. ASSUME NEW t \in Threads,
             \/ BeginClosed(t) \/ BeginFailsLock(t) \/ BeginFailsCopy(t) \/ UnlockTxMu(t)
             \/ ReadClosed(t) \/ FinishRead(t)
      PROVE  Bounded'
  BY <1>6, <1>o, ReturningQuietly, QuietBounded
<1>7. ASSUME NEW t \in Threads,
             \/ TryBackup(t) \/ LoadBackup(t) \/ PersistLockProcess(t) \/ PersistLockFile(t)
             \/ PersistSkip(t) \/ PersistPrimary(t) \/ PersistBackup(t) \/ PersistUnlockFile(t)
             \/ LockTxMu(t) \/ LockMu(t) \/ BeginLockProcess(t) \/ BeginLockFile(t)
             \/ CallCommit(t) \/ Rollback(t) \/ CommitBackup(t) \/ CommitPrimary(t)
             \/ CommitFails(t) \/ UnlockFile(t) \/ UnlockProcess(t) \/ CallRead(t)
      PROVE  Bounded'
  BY <1>7, <1>o, GoingOn, QuietBounded
<1> QED
  BY <1>1, <1>2, <1>3, <1>4, <1>5, <1>6, <1>7
    DEF Next, Call, Step, Wait, OpenStep, CommitStep, Release

\* The container that Create left.
LEMMA BoundedInit ==
    ASSUME Init
    PROVE  Bounded
<1> USE SharedAssumption
<1>1. /\ log = <<Dir({})>> /\ begun = 0 /\ acked = {}
      /\ primary \in {NoHeader, Header(1, 1, {})} /\ backup = Header(1, 1, {})
      /\ \A h \in Handles : handle[h].hdr = NoHeader
      /\ \A t \in Threads : thr[t] = Idle
  BY DEF Init
<1>2. \A t \in Threads : thr[t].pc \notin Active /\ thr[t].hdr = NoHeader
  BY <1>1, ActiveStages DEF Idle
<1>3. Numbered /\ OpenOnly
  BY <1>1, <1>2 DEF Numbered, OpenOnly
<1>4. DOMAIN log = {1} /\ log[1].kind = "dir"
  BY <1>1 DEF Dir
<1>5. Owned
  <2> DEFINE own == [i \in DOMAIN log |-> 0]
  <2>1. own \in [DOMAIN log -> 0 .. begun]
    BY <1>1
  <2>2. Owns(own)
    BY <1>2, <1>4, ActiveStages DEF Owns
  <2> HIDE DEF own
  <2> QED
    BY <2>1, <2>2 DEF Owned
<1>6. Generations
  <2>1. Kept("dir") = {1}
    BY <1>4 DEF Kept
  <2>2. Cardinality(Kept("dir")) = 1
    BY <2>1, FS_Singleton
  <2>3. \A h \in Headers : h = NoHeader \/ h = Header(1, 1, {})
    BY <1>1, <1>2 DEF Headers
  <2>4. NoHeader.gen = 0 /\ Header(1, 1, {}).gen = 1
    BY DEF NoHeader, Header
  <2> QED
    BY <2>2, <2>3, <2>4 DEF Generations
<1> QED
  BY <1>3, <1>5, <1>6 DEF Bounded

\* What can be counted of the file: a chunk for each transaction, and a directory
\* for each and the one of Create.
LEMMA FileBounds ==
    ASSUME Types, Bounded
    PROVE  /\ Cardinality(Kept("dir")) <= MaxTx + 1
           /\ Len(log) <= 2 * MaxTx + 1
<1>1. PICK own \in [DOMAIN log -> 0 .. begun] : Owns(own)
  BY DEF Bounded, Owned
<1>2. begun \in Nat /\ MaxTx \in Nat /\ begun <= MaxTx
  BY SharedAssumption DEF Types, Bounded, Numbered
<1>3. /\ IsFiniteSet(Kept("dir")) /\ Cardinality(Kept("dir")) \in Nat
      /\ IsFiniteSet(Kept("chunk")) /\ Cardinality(Kept("chunk")) \in Nat
  BY KeptFacts
<1>4. Cardinality(Kept("dir")) <= begun + 1
  <2> DEFINE f == [i \in Kept("dir") |-> own[i]]
  <2>1. f \in Injection(Kept("dir"), 0 .. begun)
    BY <1>1 DEF Owns, Kept, Injection, IsInjective
  <2>2. IsFiniteSet(0 .. begun) /\ Cardinality(0 .. begun) = begun + 1
    BY <1>2, FS_Interval
  <2> HIDE DEF f
  <2> QED
    BY <2>1, <2>2, FS_Injection
<1>5. Cardinality(Kept("chunk")) <= begun
  <2> DEFINE f == [i \in Kept("chunk") |-> own[i]]
  <2>1. f \in Injection(Kept("chunk"), 1 .. begun)
    BY <1>1, <1>2 DEF Owns, Kept, Injection, IsInjective
  <2>2. IsFiniteSet(1 .. begun) /\ Cardinality(1 .. begun) = begun
    BY <1>2, FS_Interval
  <2> HIDE DEF f
  <2> QED
    BY <2>1, <2>2, FS_Injection
<1>6. Len(log) \in Nat /\ 1 .. Len(log) = Kept("chunk") \cup Kept("dir")
  <2>1. log \in Seq(BlobSet) /\ \A i \in 1 .. Len(log) : log[i] \in BlobSet
    BY DEF Types, FileTypes
  <2>2. \A i \in 1 .. Len(log) : log[i].kind \in {"chunk", "dir"}
    BY <2>1 DEF BlobSet
  <2> QED
    BY <2>1, <2>2 DEF Kept
<1>7. Len(log) <= Cardinality(Kept("chunk")) + Cardinality(Kept("dir"))
  <2> DEFINE n == Len(log)
             C == Kept("chunk")
             D == Kept("dir")
  <2>1. n \in Nat /\ 1 .. n = C \cup D
    BY <1>6
  <2>2. IsFiniteSet(C) /\ IsFiniteSet(D) /\ Cardinality(C) \in Nat /\ Cardinality(D) \in Nat
    BY <1>3
  <2> HIDE DEF n, C, D
  <2>3. n \in Nat
    BY <2>1
  <2>4. Cardinality(1 .. n) = n
    BY <2>3, FS_Interval
  <2>5. Cardinality(C \cup D) = Cardinality(C) + Cardinality(D) - Cardinality(C \cap D)
    BY <2>2, FS_Union
  <2>6. Cardinality(C \cap D) \in Nat
    <3>1. C \cap D \in SUBSET C
      OBVIOUS
    <3> QED
      BY <2>2, <3>1, FS_Subset, FS_CardinalityType
  <2>7. Cardinality(C \cup D) = n
    BY <2>1, <2>4
  <2>8. n <= Cardinality(C) + Cardinality(D)
    BY <2>2, <2>3, <2>5, <2>6, <2>7
  <2> QED
    BY <2>8 DEF n, C, D
<1> QED
  BY <1>2, <1>3, <1>4, <1>5, <1>6, <1>7

\* However many goroutines, Containers and processes there are, every
\* transaction appends one chunk and one directory at most and raises the
\* generation by one at most: the file and the generation are as wide as the
\* transactions that were begun, also after crashes and failed commits.
THEOREM TypeCorrect ==
    ASSUME Excluded
    PROVE  Spec => []TypeOK
<1>1. Inv /\ Bounded => TypeOK
  <2> SUFFICES ASSUME Inv, Bounded PROVE TypeOK
    OBVIOUS
  <2>1. /\ Types /\ Content /\ log \in Seq(BlobSet) /\ Len(log) \in Nat
        /\ begun \in Nat /\ MaxTx \in Nat /\ begun <= MaxTx
    BY SharedAssumption DEF Inv, Types, FileTypes, Bounded, Numbered
  <2>2. /\ Len(log) <= 2 * MaxTx + 1 /\ Cardinality(Kept("dir")) <= MaxTx + 1
        /\ Cardinality(Kept("dir")) \in Nat
    BY <2>1, FileBounds, KeptFacts
  <2>3. ASSUME NEW refs \in SUBSET RefSet, IntactIn(log, refs)
        PROVE  refs \subseteq Refs
    <3> SUFFICES ASSUME NEW r \in refs PROVE r \in Refs
      OBVIOUS
    <3>1. r \in RefSet /\ r.at \in 1 .. Len(log) /\ log[r.at] = Chunk(r.id)
      BY <2>3 DEF IntactIn
    <3>2. log[r.at].kind = "chunk" /\ log[r.at].id = r.id
      BY <3>1 DEF Chunk
    <3>3. PICK own \in [DOMAIN log -> 0 .. begun] : Owns(own)
      BY DEF Bounded, Owned
    <3>4. r.id \in 0 .. begun /\ r.id # 0
      BY <2>1, <3>1, <3>2, <3>3 DEF Owns
    <3>5. r.id \in 1 .. MaxTx /\ r.at \in 1 .. 2 * MaxTx + 1
      BY <2>1, <2>2, <3>1, <3>4
    <3> QED
      BY <3>1, <3>5 DEF RefSet, Refs
  <2> DEFINE Hdr(h) == h.gen \in 0 .. MaxTx + 1 /\ h.at \in 0 .. 2 * MaxTx + 1 /\ h.refs \subseteq Refs
  <2>4. ASSUME NEW h \in Headers, h \in HeaderSet, h = NoHeader \/ GoodIn(log, h)
        PROVE  Hdr(h)
    <3>1. h.gen \in Nat /\ h.gen <= Cardinality(Kept("dir")) /\ h.at \in Nat /\ h.refs \in SUBSET RefSet
      BY <2>4, FieldTypes DEF Bounded, Generations
    <3>2. h.at = 0 \/ h.at \in 1 .. Len(log)
      BY <2>4 DEF NoHeader, Header, GoodIn
    <3>3. IntactIn(log, h.refs)
      <4>1. NoHeader.refs = {}
        BY DEF NoHeader, Header
      <4> QED
        BY <2>1, <2>4, <4>1, GoodFacts
    <3> QED
      BY <2>1, <2>2, <2>3, <3>1, <3>2, <3>3
  <2>5. Hdr(primary) /\ Hdr(backup)
    BY <2>1, <2>4, StayFacts DEF Content, Types, FileTypes
  <2>6. \A h \in Handles : handle[h].state \in {"closed", "opening", "open"} /\ Hdr(handle[h].hdr)
    <3>1. \A h \in Handles : handle[h] \in HandleSet
      BY <2>1 DEF Types
    <3>2. \A h \in Handles : handle[h].hdr = NoHeader \/ GoodIn(log, handle[h].hdr)
      BY <2>1 DEF Bounded, OpenOnly, Content
    <3>3. \A h \in Handles : handle[h].state \in {"closed", "opening", "open"}
      BY <3>1 DEF HandleSet
    <3> QED
      BY <3>1, <3>2, <3>3, <2>4, StayFacts, FieldTypes
  <2>7. \A t \in Threads : thr[t].pc \in Pcs /\ Hdr(thr[t].hdr) /\ thr[t].refs \subseteq Refs
    <3>1. \A t \in Threads : thr[t] \in ThreadSet
      BY <2>1 DEF Types
    <3>2. \A t \in Threads : thr[t].hdr = NoHeader \/ GoodIn(log, thr[t].hdr)
      BY <2>1 DEF Content
    <3>3. \A t \in Threads : thr[t].pc \in Pcs
      BY <3>1 DEF ThreadSet
    <3>4. \A t \in Threads : thr[t].refs \subseteq Refs
      BY <2>1, <2>3, <3>1, FieldTypes DEF Content
    <3> QED
      BY <3>1, <3>2, <3>3, <3>4, <2>4, StayFacts, FieldTypes
  <2>8. Len(log) \in 1 .. 2 * MaxTx + 1
    <3>1. Len(log) >= 1
      BY <2>1 DEF Content, GoodIn
    <3> QED
      BY <2>1, <2>2, <3>1
  <2>9. acked \subseteq 1 .. MaxTx
    BY <2>1 DEF Bounded, Numbered
  <2> HIDE DEF Hdr
  <2> QED
    BY <2>1, <2>5, <2>6, <2>7, <2>8, <2>9 DEF TypeOK, Types, LockTypes, Hdr
<1>2. Inv /\ Bounded /\ [Next]_vars => Inv' /\ Bounded'
  BY NextInv, BoundedStep DEF Inv
<1>3. Init => Inv /\ Bounded
  BY InitInv, BoundedInit
<1> QED
  BY <1>1, <1>2, <1>3, PTL DEF Spec
============================================================================
