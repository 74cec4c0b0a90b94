-------------------- MODULE SharedHandlesOneWriter_proofs --------------------
(***************************************************************************)
(* Proofs about SharedHandles when all transactions are begun on one       *)
(* Container, whatever the number of goroutines that begin them and of     *)
(* Containers that only read: OneInv is inductive together with Inv, and   *)
(* from it follow AckedSurvives and GenerationGrows.  With two writing     *)
(* Containers both are false (runs shared_stale and shared_recovery).      *)
(***************************************************************************)
EXTENDS SharedHandles_proofs

----------------------------------------------------------------------------
(* Who is in a transaction, and what that excludes.                        *)

\* One goroutine at most is in a transaction of the writing Container, from
\* the moment Begin has both mutexes.
LEMMA OneTransaction ==
    ASSUME OneContainer, Inv, TxFresh, NEW t \in Threads, NEW u \in Threads,
           thr[t].pc \in InTx, thr[u].pc \in InTx
    PROVE  t = u
<1>1. t \in Writers /\ u \in Writers
  BY DEF TxFresh
<1>2. Mine(t) = Mine(u)
  BY <1>1 DEF OneContainer, Mine
<1>3. \A v \in Threads : thr[v].pc \in InTx => txMu[Mine(v)] = v
  BY DEF Inv, TxMutexes, InTx, HoldsTxMu, HoldsMu
<1> QED
  BY <1>2, <1>3

\* While a goroutine is in a transaction its Container is the one that writes,
\* it is open, and nobody is opening it.
LEMMA Transacting ==
    ASSUME OneContainer, Inv, TxFresh, NEW t \in Threads, thr[t].pc \in InTx
    PROVE  /\ Writable(Mine(t)) /\ Mine(t) \in Handles
           /\ handle[Mine(t)].state = "open"
           /\ \A h \in Handles : Writable(h) => h = Mine(t)
           /\ \A u \in Threads : thr[u].pc = "loadPrimary" => ~Writable(Mine(u))
<1>1. t \in Writers
  BY DEF TxFresh
<1>2. Writable(Mine(t)) /\ Mine(t) \in Handles
  BY <1>1, SharedAssumption DEF Writable, Mine
<1>3. handle[Mine(t)].state = "open"
  BY DEF Inv, States
<1>4. \A h \in Handles : Writable(h) => h = Mine(t)
  BY <1>1 DEF Writable, OneContainer, Mine
<1>5. ASSUME NEW u \in Threads, thr[u].pc = "loadPrimary"
      PROVE  ~Writable(Mine(u))
  <2>1. handle[Mine(u)].state = "opening" /\ Mine(u) \in Handles
    BY <1>5, SharedAssumption DEF Inv, States, Opening, Mine
  <2> QED
    BY <2>1, <1>3, <1>4
<1> QED
  BY <1>2, <1>3, <1>4, <1>5

\* The stages of a transaction follow one another within it.
LEMMA Stages ==
    /\ Heading \subseteq Filling /\ Filling \subseteq InTx
    /\ "publish" \in Heading /\ "tx" \in Filling /\ "commit" \in Filling
    /\ "tx" \notin Heading /\ "commit" \notin Heading
    /\ {"loadPrimary", "readPrimary", "idle"} \cap (InTx \cup {"beginTxMu", "beginMu"}) = {}
    /\ Recovering \cap (InTx \cup {"idle", "readPrimary", "loadPrimary"}) = {}
BY DEF Heading, Filling, InTx, Recovering

\* No header a goroutine got from the file fails to load: Open never gives up
\* the primary header.
LEMMA PrimaryLoads ==
    ASSUME Inv, OpensFresh, NEW t \in Threads, thr[t].pc = "loadPrimary"
    PROVE  Loads(thr[t].hdr)
BY GoodFacts DEF Inv, Types, FileTypes, Content, OpensFresh

----------------------------------------------------------------------------
(* Every step keeps OneInv.                                                *)

\* Most steps move one goroutine to a place of which OneInv says nothing but
\* whose Begin it is.
LEMMA MovesOnly ==
    ASSUME OneInv, thr \in [Threads -> ThreadSet], NEW t \in Threads, NEW s \in ThreadSet,
           thr' = [thr EXCEPT ![t] = s],
           s.pc \notin Recovering \cup Filling \cup {"loadPrimary"},
           s.pc \in {"beginTxMu", "beginMu"} \cup InTx => t \in Writers,
           UNCHANGED <<primary, handle, acked>>
    PROVE  OneInv'
<1>1. \A u \in Threads : thr'[u] = IF u = t THEN s ELSE thr[u]
  OBVIOUS
<1>2. Heading \subseteq Filling /\ "publish" \in Filling
  BY DEF Heading, Filling
<1>3. PrimaryKnows'
  BY DEF OneInv, PrimaryKnows
<1>4. OpensFresh'
  BY <1>1 DEF OneInv, OpensFresh, Mine
<1>5. WriterFresh'
  BY DEF OneInv, WriterFresh, Fresh
<1>6. TxFresh'
  BY <1>1, <1>2 DEF OneInv, TxFresh, Mine
<1> QED
  BY <1>3, <1>4, <1>5, <1>6 DEF OneInv

\* A goroutine that returns.
LEMMA Returns ==
    ASSUME OneInv, thr \in [Threads -> ThreadSet], NEW t \in Threads, Return(t),
           UNCHANGED <<primary, handle, acked>>
    PROVE  OneInv'
<1>1. thr' = [thr EXCEPT ![t] = Idle] /\ Idle \in ThreadSet /\ Idle.pc = "idle"
  BY IdleTypes DEF Return, Idle
<1>2. /\ "idle" \notin Recovering \cup Filling \cup {"loadPrimary"}
      /\ "idle" \notin {"beginTxMu", "beginMu"} \cup InTx
  BY DEF Recovering, Filling, Heading, InTx
<1> QED
  BY <1>1, <1>2, MovesOnly

\* A goroutine that goes on.
LEMMA GoesOnly ==
    ASSUME OneInv, thr \in [Threads -> ThreadSet], NEW t \in Threads, NEW x \in Pcs, Goto(t, x),
           x \notin Recovering \cup Filling \cup {"loadPrimary"},
           x \in {"beginTxMu", "beginMu"} \cup InTx => t \in Writers,
           UNCHANGED <<primary, handle, acked>>
    PROVE  OneInv'
<1> DEFINE s == [thr[t] EXCEPT !.pc = x]
<1>1. s \in ThreadSet /\ s.pc = x /\ thr' = [thr EXCEPT ![t] = s]
  BY DEF ThreadSet, Goto
<1> HIDE DEF s
<1> QED
  BY <1>1, MovesOnly

\* Every step keeps OneInv.
LEMMA OneStep ==
    ASSUME OneContainer, Inv, OneInv, [Next]_vars
    PROVE  OneInv'
<1>m. \A u \in Threads : Mine(u) \in Handles
  BY SharedAssumption DEF Mine
<1>t. thr \in [Threads -> ThreadSet]
  BY DEF Inv, Types
<1>1. ASSUME NEW t \in Threads, StartOpen(t) PROVE OneInv'
  <2>1. /\ UNCHANGED <<primary, acked>>
        /\ \A u \in Threads : thr'[u].pc = IF u = t THEN "readPrimary" ELSE thr[u].pc
        /\ \A u \in Threads : thr'[u].hdr = thr[u].hdr /\ thr'[u].refs = thr[u].refs
        /\ \A h \in Handles : handle'[h].hdr = handle[h].hdr
        /\ \A h \in Handles : handle'[h].state = "open" => handle[h].state = "open"
    BY <1>1, <1>m DEF StartOpen, Goto, file, Inv, Types, ThreadSet, HandleSet
  <2> QED
    BY <2>1, <1>m, Stages DEF OneInv, PrimaryKnows, OpensFresh, WriterFresh, TxFresh, Fresh, Mine
<1>2. ASSUME NEW t \in Threads, ReadPrimary(t) PROVE OneInv'
  <2>1. /\ UNCHANGED <<primary, acked, handle>>
        /\ \A u \in Threads \ {t} : thr'[u] = thr[u]
        /\ thr'[t].pc = "loadPrimary" /\ thr'[t].hdr = primary
    BY <1>2 DEF ReadPrimary, file, Inv, Types, ThreadSet
  <2> QED
    BY <2>1, Stages DEF OneInv, PrimaryKnows, OpensFresh, WriterFresh, TxFresh, Fresh, Mine
<1>3. ASSUME NEW t \in Threads, LoadPrimary(t) PROVE OneInv'
  <2>1. /\ UNCHANGED <<primary, acked>>
        /\ \A u \in Threads \ {t} : thr'[u] = thr[u]
        /\ thr'[t].pc = "idle" /\ thr[t].pc = "loadPrimary"
        /\ \A h \in Handles \ {Mine(t)} : handle'[h] = handle[h]
        /\ handle'[Mine(t)].hdr = thr[t].hdr
    BY <1>3, <1>m DEF LoadPrimary, At, Build, Return, Idle, file, Inv, Types
  <2>2. \A u \in Threads : thr[u].pc \in InTx => Mine(u) # Mine(t)
    BY <2>1 DEF Inv, States, Opening
  <2>3. Writable(Mine(t)) => thr[t].hdr = primary
    BY <2>1 DEF OneInv, OpensFresh
  <2>4. primary.gen \in Nat
    BY DEF Inv, Types, FileTypes, HeaderSet
  <2>5. WriterFresh'
    BY <2>1, <2>3, <2>4, <1>m DEF OneInv, PrimaryKnows, WriterFresh, Fresh
  <2>6. TxFresh'
    BY <2>1, <2>2, <1>m, Stages DEF OneInv, TxFresh, Mine
  <2> QED
    BY <2>1, <2>5, <2>6, Stages DEF OneInv, PrimaryKnows, OpensFresh, Mine
<1>4. ASSUME NEW t \in Threads, TryBackup(t) PROVE OneInv'
  BY <1>4, PrimaryLoads DEF TryBackup, At, OneInv
<1>5. ASSUME NEW t \in Threads, ReadBackup(t) PROVE OneInv'
  BY <1>5 DEF ReadBackup, At, OneInv, OpensFresh, Recovering
<1>6. ASSUME NEW t \in Threads, LoadBackup(t) PROVE OneInv'
  BY <1>6 DEF LoadBackup, At, OneInv, OpensFresh, Recovering
<1>7. ASSUME NEW t \in Threads, PersistLockProcess(t) PROVE OneInv'
  BY <1>7 DEF PersistLockProcess, At, OneInv, OpensFresh, Recovering
<1>8. ASSUME NEW t \in Threads, PersistLockFile(t) PROVE OneInv'
  BY <1>8 DEF PersistLockFile, At, OneInv, OpensFresh, Recovering
<1>9. ASSUME NEW t \in Threads, PersistSkip(t) PROVE OneInv'
  BY <1>9 DEF PersistSkip, At, OneInv, OpensFresh, Recovering
<1>10. ASSUME NEW t \in Threads, PersistPrimary(t) PROVE OneInv'
  BY <1>10 DEF PersistPrimary, At, OneInv, OpensFresh, Recovering
<1>11. ASSUME NEW t \in Threads, PersistBackup(t) PROVE OneInv'
  BY <1>11 DEF PersistBackup, At, OneInv, OpensFresh, Recovering
<1>12. ASSUME NEW t \in Threads, PersistUnlockFile(t) PROVE OneInv'
  BY <1>12 DEF PersistUnlockFile, At, OneInv, OpensFresh, Recovering
<1>13. ASSUME NEW t \in Threads, PersistUnlock(t) PROVE OneInv'
  BY <1>13 DEF PersistUnlock, At, OneInv, OpensFresh, Recovering
<1>14. ASSUME NEW t \in Threads, CallBegin(t) PROVE OneInv'
  <2> DEFINE s == [thr[t] EXCEPT !.pc = "beginTxMu", !.id = begun + 1]
  <2>1. thr' = [thr EXCEPT ![t] = s] /\ t \in Writers /\ UNCHANGED <<primary, handle, acked>>
    BY <1>14 DEF CallBegin, file
  <2>2. s \in ThreadSet /\ s.pc = "beginTxMu"
    <3>1. thr[t] \in ThreadSet /\ "beginTxMu" \in Pcs /\ begun + 1 \in Nat
      BY DEF Inv, Types, Pcs
    <3> QED
      BY <3>1, UpdateTypes DEF ThreadSet
  <2>3. "beginTxMu" \notin Recovering \cup Filling \cup {"loadPrimary"}
    BY DEF Recovering, Filling, Heading
  <2> HIDE DEF s
  <2> QED
    BY <2>1, <2>2, <2>3, <1>t, MovesOnly
<1>15. ASSUME NEW t \in Threads, LockTxMu(t) PROVE OneInv'
  <2>1. Goto(t, "beginMu") /\ "beginMu" \in Pcs /\ t \in Writers
    BY <1>15 DEF LockTxMu, At, Pcs, OneInv, TxFresh, InTx
  <2>2. "beginMu" \notin Recovering \cup Filling \cup {"loadPrimary"}
    BY DEF Recovering, Filling, Heading
  <2>3. UNCHANGED <<primary, handle, acked>>
    BY <1>15 DEF LockTxMu, file
  <2> QED
    BY <2>1, <2>2, <2>3, <1>t, GoesOnly
<1>16. ASSUME NEW t \in Threads, LockMu(t) PROVE OneInv'
  <2>1. Goto(t, "beginProcess") /\ "beginProcess" \in Pcs /\ t \in Writers
    BY <1>16 DEF LockMu, At, Pcs, OneInv, TxFresh, InTx
  <2>2. "beginProcess" \notin Recovering \cup Filling \cup {"loadPrimary"}
    BY DEF Recovering, Filling, Heading
  <2>3. UNCHANGED <<primary, handle, acked>>
    BY <1>16 DEF LockMu, file
  <2> QED
    BY <2>1, <2>2, <2>3, <1>t, GoesOnly
<1>17. ASSUME NEW t \in Threads, BeginClosed(t) PROVE OneInv'
  <2>1. Return(t) /\ UNCHANGED <<primary, handle, acked>>
    BY <1>17 DEF BeginClosed, file
  <2> QED
    BY <2>1, <1>t, Returns
<1>18. ASSUME NEW t \in Threads, BeginLockProcess(t) PROVE OneInv'
  <2>1. Goto(t, "beginFile") /\ "beginFile" \in Pcs /\ t \in Writers
    BY <1>18 DEF BeginLockProcess, At, Pcs, OneInv, TxFresh, InTx
  <2>2. "beginFile" \notin Recovering \cup Filling \cup {"loadPrimary"}
    BY DEF Recovering, Filling, Heading
  <2>3. UNCHANGED <<primary, handle, acked>>
    BY <1>18 DEF BeginLockProcess, file
  <2> QED
    BY <2>1, <2>2, <2>3, <1>t, GoesOnly
<1>19. ASSUME NEW t \in Threads, BeginLockFile(t) PROVE OneInv'
  <2>1. Goto(t, "beginCopy") /\ "beginCopy" \in Pcs /\ t \in Writers
    BY <1>19 DEF BeginLockFile, At, Pcs, OneInv, TxFresh, InTx
  <2>2. "beginCopy" \notin Recovering \cup Filling \cup {"loadPrimary"}
    BY DEF Recovering, Filling, Heading
  <2>3. UNCHANGED <<primary, handle, acked>>
    BY <1>19 DEF BeginLockFile, file
  <2> QED
    BY <2>1, <2>2, <2>3, <1>t, GoesOnly
<1>20. ASSUME NEW t \in Threads, BeginFailsLock(t) PROVE OneInv'
  <2>1. Return(t) /\ UNCHANGED <<primary, handle, acked>>
    BY <1>20 DEF BeginFailsLock, file
  <2> QED
    BY <2>1, <1>t, Returns
<1>21. ASSUME NEW t \in Threads, Copy(t) PROVE OneInv'
  <2>1. /\ UNCHANGED <<primary, acked, handle>>
        /\ \A u \in Threads \ {t} : thr'[u] = thr[u]
        /\ thr'[t].pc = "tx" /\ thr[t].pc = "beginCopy"
        /\ thr'[t].refs = handle[Mine(t)].hdr.refs
    BY <1>21 DEF Copy, At, file, Inv, Types, ThreadSet
  <2>2. "beginCopy" \in InTx /\ "tx" \notin Recovering
    BY DEF InTx, Recovering
  <2>3. acked \subseteq Ids(handle[Mine(t)].hdr.refs)
    BY <2>1, <2>2, Transacting DEF OneInv, WriterFresh, Fresh
  <2> QED
    BY <2>1, <2>2, <2>3, Stages DEF OneInv, PrimaryKnows, OpensFresh, WriterFresh, TxFresh, Fresh, Mine
<1>22. ASSUME NEW t \in Threads, BeginFailsCopy(t) PROVE OneInv'
  <2>1. Return(t) /\ UNCHANGED <<primary, handle, acked>>
    BY <1>22 DEF BeginFailsCopy, file
  <2> QED
    BY <2>1, <1>t, Returns
<1>23. ASSUME NEW t \in Threads, Put(t) PROVE OneInv'
  <2>1. /\ UNCHANGED <<primary, acked, handle>>
        /\ \A u \in Threads \ {t} : thr'[u] = thr[u]
        /\ thr'[t].pc = "tx" /\ thr[t].pc = "tx"
        /\ thr[t].refs \subseteq thr'[t].refs
    BY <1>23 DEF Put, At, file, Inv, Types, ThreadSet
  <2>2. "tx" \notin Recovering
    BY DEF Recovering
  <2>3. acked \subseteq Ids(thr'[t].refs)
    BY <2>1, Stages DEF OneInv, TxFresh, Ids
  <2> QED
    BY <2>1, <2>2, <2>3, Stages DEF OneInv, PrimaryKnows, OpensFresh, WriterFresh, TxFresh, Fresh, Mine
<1>24. ASSUME NEW t \in Threads, CallCommit(t) PROVE OneInv'
  <2>1. /\ UNCHANGED <<primary, acked, handle>>
        /\ \A u \in Threads \ {t} : thr'[u] = thr[u]
        /\ thr'[t].pc = "commit" /\ thr[t].pc = "tx"
        /\ thr[t].refs = thr'[t].refs
    BY <1>24 DEF CallCommit, Goto, At, file, Inv, Types, ThreadSet
  <2>2. "commit" \notin Recovering
    BY DEF Recovering
  <2> QED
    BY <2>1, <2>2, Stages DEF OneInv, PrimaryKnows, OpensFresh, WriterFresh, TxFresh, Fresh, Mine
<1>25. ASSUME NEW t \in Threads, Rollback(t) PROVE OneInv'
  <2>1. Goto(t, "unlockFile") /\ "unlockFile" \in Pcs
    BY <1>25 DEF Rollback, Pcs
  <2>2. /\ "unlockFile" \notin Recovering \cup Filling \cup {"loadPrimary"}
        /\ "unlockFile" \notin {"beginTxMu", "beginMu"} \cup InTx
    BY DEF Recovering, Filling, Heading, InTx
  <2>3. UNCHANGED <<primary, handle, acked>>
    BY <1>25 DEF Rollback, file
  <2> QED
    BY <2>1, <2>2, <2>3, <1>t, GoesOnly
<1>26. ASSUME NEW t \in Threads, CommitDir(t) PROVE OneInv'
  <2>1. /\ UNCHANGED <<primary, acked, handle>>
        /\ \A u \in Threads \ {t} : thr'[u] = thr[u]
        /\ thr'[t].pc = "writeBackup" /\ thr[t].pc = "commit"
        /\ thr'[t].refs = thr[t].refs
        /\ thr'[t].hdr = Header(handle[Mine(t)].hdr.gen + 1, thr[t].off, thr[t].refs)
    BY <1>26 DEF CommitDir, At, file, Inv, Types, ThreadSet
  <2>2. thr'[t].hdr.gen = handle[Mine(t)].hdr.gen + 1 /\ thr'[t].hdr.refs = thr[t].refs
    BY <2>1 DEF Header
  <2>3. "writeBackup" \notin Recovering
    BY DEF Recovering
  <2> QED
    BY <2>1, <2>2, <2>3, Stages DEF OneInv, PrimaryKnows, OpensFresh, WriterFresh, TxFresh, Fresh, Mine
<1>27. ASSUME NEW t \in Threads, CommitBackup(t) PROVE OneInv'
  <2>1. /\ UNCHANGED <<primary, acked, handle>>
        /\ \A u \in Threads \ {t} : thr'[u] = thr[u]
        /\ thr'[t].pc = "writePrimary" /\ thr[t].pc = "writeBackup"
        /\ thr'[t].refs = thr[t].refs /\ thr'[t].hdr = thr[t].hdr
    BY <1>27 DEF CommitBackup, Goto, At, file, Inv, Types, ThreadSet
  <2>2. "writePrimary" \notin Recovering /\ "writeBackup" \in Heading
    BY DEF Recovering, Heading
  <2> QED
    BY <2>1, <2>2, Stages DEF OneInv, PrimaryKnows, OpensFresh, WriterFresh, TxFresh, Fresh, Mine
<1>28. ASSUME NEW t \in Threads, CommitPrimary(t) PROVE OneInv'
  <2>1. /\ UNCHANGED <<acked, handle>> /\ primary' = thr[t].hdr
        /\ \A u \in Threads \ {t} : thr'[u] = thr[u]
        /\ thr'[t].pc = "publish" /\ thr[t].pc = "writePrimary"
        /\ thr'[t].refs = thr[t].refs /\ thr'[t].hdr = thr[t].hdr
    BY <1>28 DEF CommitPrimary, Goto, At, Inv, Types, ThreadSet
  <2>2. "publish" \notin Recovering /\ "writePrimary" \in Heading
    BY DEF Recovering, Heading
  <2>3. thr[t].pc \in Heading /\ thr[t].pc \in Filling /\ thr[t].pc \in InTx
    BY <2>1, <2>2, Stages
  <2>4. /\ acked \subseteq Ids(thr[t].hdr.refs)
        /\ thr[t].hdr.gen = handle[Mine(t)].hdr.gen + 1
    BY <2>3 DEF OneInv, TxFresh
  <2>5. PrimaryKnows'
    <3>1. handle[Mine(t)].hdr.gen \in Nat
      BY <1>m, FieldTypes DEF Inv, Types
    <3>2. thr[t].hdr # NoHeader
      BY <2>4, <3>1 DEF NoHeader, Header
    <3> QED
      BY <2>1, <2>4, <3>2 DEF PrimaryKnows
  <2>6. OpensFresh'
    BY <2>1, <2>2, <2>3, Transacting, Stages DEF OneInv, OpensFresh, Mine
  <2>7. WriterFresh'
    <3>1. \A h \in Handles : Writable(h) => h = Mine(t)
      BY <2>3, Transacting DEF OneInv
    <3>2. handle[Mine(t)].state = "open" /\ Writable(Mine(t))
      BY <2>3, Transacting DEF OneInv
    <3>3. acked \subseteq Ids(handle[Mine(t)].hdr.refs)
      BY <3>2, <1>m DEF OneInv, WriterFresh, Fresh
    <3>4. handle[Mine(t)].hdr.gen \in Nat
      BY <1>m, FieldTypes DEF Inv, Types
    <3> QED
      BY <2>1, <2>4, <3>1, <3>3, <3>4 DEF WriterFresh, Fresh
  <2>8. TxFresh'
    <3>1. \A u \in Threads \ {t} : thr[u].pc # "publish"
      BY <2>3, OneTransaction, Stages DEF OneInv
    <3> QED
      BY <2>1, <2>3, <3>1, Stages DEF OneInv, TxFresh, Mine
  <2> QED
    BY <2>5, <2>6, <2>7, <2>8 DEF OneInv
<1>29. ASSUME NEW t \in Threads, Publish(t) PROVE OneInv'
  <2>1. /\ UNCHANGED primary
        /\ acked' = acked \cup ({thr[t].id} \cap Ids(thr[t].refs))
        /\ \A u \in Threads \ {t} : thr'[u] = thr[u]
        /\ thr'[t].pc = "unlockFile" /\ thr[t].pc = "publish"
        /\ \A h \in Handles \ {Mine(t)} : handle'[h] = handle[h]
        /\ handle'[Mine(t)].hdr = thr[t].hdr
    BY <1>29, <1>m DEF Publish, Goto, At, file, Inv, Types, ThreadSet, HandleSet, Ids
  <2>2. /\ "unlockFile" \notin Recovering /\ "unlockFile" # "loadPrimary"
        /\ "unlockFile" \notin {"beginTxMu", "beginMu"} \cup InTx
    BY DEF Recovering, InTx
  <2>3. thr[t].pc \in Heading /\ thr[t].pc \in Filling /\ thr[t].pc \in InTx
    BY <2>1, Stages
  <2>4. primary = thr[t].hdr /\ thr[t].hdr.refs = thr[t].refs
    BY <2>1, <2>3 DEF OneInv, TxFresh
  <2>5. acked' \subseteq Ids(primary.refs)
    BY <2>1, <2>4 DEF OneInv, PrimaryKnows
  <2>6. PrimaryKnows' /\ OpensFresh'
    BY <2>1, <2>2, <2>5 DEF OneInv, PrimaryKnows, OpensFresh, Mine
  <2>7. WriterFresh'
    <3>1. \A h \in Handles : Writable(h) => h = Mine(t)
      BY <2>3, Transacting DEF OneInv
    <3>2. primary.gen \in Nat
      BY DEF Inv, Types, FileTypes, HeaderSet
    <3> QED
      BY <2>1, <2>4, <2>5, <3>1, <3>2 DEF WriterFresh, Fresh
  <2>8. TxFresh'
    <3>1. \A u \in Threads \ {t} : thr[u].pc \notin InTx
      BY <2>3, OneTransaction DEF OneInv
    <3> QED
      BY <2>1, <2>2, <3>1, Stages DEF OneInv, TxFresh, Mine
  <2> QED
    BY <2>6, <2>7, <2>8 DEF OneInv
<1>30. ASSUME NEW t \in Threads, CommitFails(t) PROVE OneInv'
  <2>1. Goto(t, "unlockFile") /\ "unlockFile" \in Pcs
    BY <1>30 DEF CommitFails, Pcs
  <2>2. /\ "unlockFile" \notin Recovering \cup Filling \cup {"loadPrimary"}
        /\ "unlockFile" \notin {"beginTxMu", "beginMu"} \cup InTx
    BY DEF Recovering, Filling, Heading, InTx
  <2>3. UNCHANGED <<primary, handle, acked>>
    BY <1>30 DEF CommitFails, file
  <2> QED
    BY <2>1, <2>2, <2>3, <1>t, GoesOnly
<1>31. ASSUME NEW t \in Threads, UnlockFile(t) PROVE OneInv'
  <2>1. Goto(t, "unlockProcess") /\ "unlockProcess" \in Pcs
    BY <1>31 DEF UnlockFile, Pcs
  <2>2. /\ "unlockProcess" \notin Recovering \cup Filling \cup {"loadPrimary"}
        /\ "unlockProcess" \notin {"beginTxMu", "beginMu"} \cup InTx
    BY DEF Recovering, Filling, Heading, InTx
  <2>3. UNCHANGED <<primary, handle, acked>>
    BY <1>31 DEF UnlockFile, file
  <2> QED
    BY <2>1, <2>2, <2>3, <1>t, GoesOnly
<1>32. ASSUME NEW t \in Threads, UnlockProcess(t) PROVE OneInv'
  <2>1. Goto(t, "unlockTxMu") /\ "unlockTxMu" \in Pcs
    BY <1>32 DEF UnlockProcess, Pcs
  <2>2. /\ "unlockTxMu" \notin Recovering \cup Filling \cup {"loadPrimary"}
        /\ "unlockTxMu" \notin {"beginTxMu", "beginMu"} \cup InTx
    BY DEF Recovering, Filling, Heading, InTx
  <2>3. UNCHANGED <<primary, handle, acked>>
    BY <1>32 DEF UnlockProcess, file
  <2> QED
    BY <2>1, <2>2, <2>3, <1>t, GoesOnly
<1>33. ASSUME NEW t \in Threads, UnlockTxMu(t) PROVE OneInv'
  <2>1. Return(t) /\ UNCHANGED <<primary, handle, acked>>
    BY <1>33 DEF UnlockTxMu, file
  <2> QED
    BY <2>1, <1>t, Returns
<1>34. ASSUME NEW t \in Threads, CallRead(t) PROVE OneInv'
  <2>1. Goto(t, "readMu") /\ "readMu" \in Pcs
    BY <1>34 DEF CallRead, Pcs
  <2>2. /\ "readMu" \notin Recovering \cup Filling \cup {"loadPrimary"}
        /\ "readMu" \notin {"beginTxMu", "beginMu"} \cup InTx
    BY DEF Recovering, Filling, Heading, InTx
  <2>3. UNCHANGED <<primary, handle, acked>>
    BY <1>34 DEF CallRead, file
  <2> QED
    BY <2>1, <2>2, <2>3, <1>t, GoesOnly
<1>35. ASSUME NEW t \in Threads, LockForRead(t) PROVE OneInv'
  <2> DEFINE s == [thr[t] EXCEPT !.pc = "reading", !.refs = handle[Mine(t)].hdr.refs]
  <2>1. thr' = [thr EXCEPT ![t] = s] /\ UNCHANGED <<primary, handle, acked>>
    BY <1>35 DEF LockForRead, file
  <2>2. s \in ThreadSet /\ s.pc = "reading"
    BY SharedAssumption, FieldTypes DEF Inv, Types, ThreadSet, Pcs, Mine
  <2>3. /\ "reading" \notin Recovering \cup Filling \cup {"loadPrimary"}
        /\ "reading" \notin {"beginTxMu", "beginMu"} \cup InTx
    BY DEF Recovering, Filling, Heading, InTx
  <2> HIDE DEF s
  <2> QED
    BY <2>1, <2>2, <2>3, <1>t, MovesOnly
<1>36. ASSUME NEW t \in Threads, ReadClosed(t) PROVE OneInv'
  <2>1. Return(t) /\ UNCHANGED <<primary, handle, acked>>
    BY <1>36 DEF ReadClosed, file
  <2> QED
    BY <2>1, <1>t, Returns
<1>37. ASSUME NEW t \in Threads, FinishRead(t) PROVE OneInv'
  <2>1. Return(t) /\ UNCHANGED <<primary, handle, acked>>
    BY <1>37 DEF FinishRead, file
  <2> QED
    BY <2>1, <1>t, Returns
<1>38. ASSUME NEW t \in Threads, Close(t) PROVE OneInv'
  <2>1. /\ UNCHANGED <<primary, acked, thr>>
        /\ \A h \in Handles \ {Mine(t)} : handle'[h] = handle[h]
        /\ handle'[Mine(t)].state = "closed"
        /\ txMu[Mine(t)] = Nobody
    BY <1>38, <1>m DEF Close, file, Inv, Types
  <2>2. \A u \in Threads : thr[u].pc \in Heading => Mine(u) # Mine(t)
    BY <2>1, NobodyAssumption DEF Inv, TxMutexes, Heading, HoldsTxMu
  <2> QED
    BY <2>1, <2>2, <1>m DEF OneInv, PrimaryKnows, OpensFresh, WriterFresh, TxFresh, Fresh, Mine
<1>39. ASSUME NEW p \in Processes, Crash(p) PROVE OneInv'
  <2>1. /\ UNCHANGED <<primary, acked>>
        /\ \A u \in Threads : \/ thr'[u] = thr[u] /\ handle'[Mine(u)] = handle[Mine(u)]
                              \/ thr'[u] = Idle
        /\ \A h \in Handles : handle'[h] = handle[h] \/ handle'[h].state = "closed"
    BY <1>39, <1>m DEF Crash, file
  <2>2. Idle.pc = "idle"
    BY DEF Idle
  <2> QED
    BY <2>1, <2>2, <1>m, Stages DEF OneInv, PrimaryKnows, OpensFresh, WriterFresh, TxFresh, Fresh, Mine
<1>40. CASE UNCHANGED vars
  BY <1>40 DEF vars, file, OneInv, PrimaryKnows, OpensFresh, WriterFresh, TxFresh, Fresh, Mine
<1> QED
  BY <1>1, <1>2, <1>3, <1>4, <1>5, <1>6, <1>7, <1>8, <1>9, <1>10, <1>11,
     <1>12, <1>13, <1>14, <1>15, <1>16, <1>17, <1>18, <1>19, <1>20, <1>21,
     <1>22, <1>23, <1>24, <1>25, <1>26, <1>27, <1>28, <1>29, <1>30, <1>31,
     <1>32, <1>33, <1>34, <1>35, <1>36, <1>37, <1>38, <1>39, <1>40
    DEF Next, Call, Step, Wait, OpenStep, CommitStep, Release

----------------------------------------------------------------------------
(* The theorems.                                                           *)

\* The fresh container has acknowledged nothing and its headers are equal.
LEMMA InitOne == OneContainer /\ Init => OneInv
<1> SUFFICES ASSUME OneContainer, Init PROVE OneInv
  OBVIOUS
<1>1. primary = Header(1, 1, {}) /\ primary # NoHeader /\ acked = {}
  BY DEF OneContainer, Init, NoHeader, Header
<1>2. \A t \in Threads : thr[t].pc = "idle"
  BY DEF Init, Idle
<1>3. \A h \in Handles : handle[h].state = "closed"
  BY DEF Init
<1> QED
  BY <1>1, <1>2, <1>3, Stages DEF OneInv, PrimaryKnows, OpensFresh, WriterFresh, TxFresh

\* The stronger invariant holds always.
THEOREM OneInvariance ==
    ASSUME Excluded, OneContainer
    PROVE  Spec => [](Inv /\ OneInv)
<1>1. Inv /\ OneInv /\ [Next]_vars => (Inv /\ OneInv)'
  BY NextInv, OneStep
<1>2. Init => Inv /\ OneInv
  BY InitInv, InitOne
<1> QED
  BY <1>1, <1>2, PTL DEF Spec

\* Whoever opens the container finds every payload whose Commit returned nil:
\* Begin copies the entries of its own Container, and they name all of them,
\* also after a Commit that failed with its header already written.
THEOREM AckedSurvivesHolds ==
    ASSUME Excluded, OneContainer
    PROVE  Spec => []AckedSurvives
<1>1. Inv /\ OneInv => AckedSurvives
  <2> SUFFICES ASSUME Inv, OneInv PROVE acked \subseteq Ids(Current.refs)
    BY DEF AckedSurvives, Ids
  <2>1. Loads(primary)
    BY GoodFacts DEF Inv, Types, FileTypes, Content, OneInv, PrimaryKnows
  <2> QED
    BY <2>1 DEF OneInv, PrimaryKnows, Current
<1> QED
  BY <1>1, OneInvariance, PTL

\* The generation in the primary header never decreases: Commit writes the one
\* after its Container's, which is at least the one in the file.
THEOREM GenerationGrowsHolds ==
    ASSUME Excluded, OneContainer
    PROVE  Spec => GenerationGrows
<1>1. Inv /\ OneInv /\ [Next]_vars => [primary'.gen >= primary.gen]_primary
  <2> SUFFICES ASSUME Inv, OneInv, [Next]_vars, primary' # primary
               PROVE  primary'.gen >= primary.gen
    OBVIOUS
  <2>1. PICK t \in Threads : CommitPrimary(t) \/ PersistPrimary(t)
    BY DEF Next, Call, Step, Wait, OpenStep, CommitStep, Release, vars, file, StartOpen,
       ReadPrimary, LoadPrimary, TryBackup, ReadBackup, LoadBackup, PersistLockProcess,
       PersistLockFile, PersistSkip, PersistBackup, PersistUnlockFile, PersistUnlock,
       CallBegin, LockTxMu, LockMu, BeginClosed, BeginLockProcess, BeginLockFile,
       BeginFailsLock, Copy, BeginFailsCopy, Put, CallCommit, Rollback, CommitDir,
       CommitBackup, Publish, CommitFails, UnlockFile, UnlockProcess, UnlockTxMu,
       CallRead, LockForRead, ReadClosed, FinishRead, Close, Crash
  <2>2. ~PersistPrimary(t)
    BY DEF PersistPrimary, At, OneInv, OpensFresh, Recovering
  <2>3. primary' = thr[t].hdr /\ thr[t].pc = "writePrimary"
    BY <2>1, <2>2 DEF CommitPrimary, At
  <2>4. thr[t].pc \in Heading /\ thr[t].pc \in InTx
    BY <2>3 DEF Heading, InTx
  <2>5. primary'.gen = handle[Mine(t)].hdr.gen + 1
    BY <2>3, <2>4 DEF OneInv, TxFresh
  <2>6. primary.gen <= handle[Mine(t)].hdr.gen + 1
    BY <2>4, Transacting DEF OneInv, WriterFresh, Fresh
  <2> QED
    BY <2>5, <2>6
<1> QED
  BY <1>1, OneInvariance, PTL DEF Spec, GenerationGrows
=============================================================================
