--------------------------- MODULE SharedHandles ---------------------------
(***************************************************************************)
(* Several Containers open on one file: goroutines of one or more          *)
(* processes call Open, Begin, Commit, Rollback, Close and the readers.    *)
(* What they share is the file, its flock, one write lock per process, and *)
(* per Container the two mutexes txMu and mu.  One action per lock taken   *)
(* or released and per read or write of the shared file.                   *)
(*                                                                         *)
(* Power loss is the matter of ContainerCommit; here a process may be      *)
(* killed, which loses its goroutines and locks but no write.              *)
(***************************************************************************)
EXTENDS Integers, Sequences, FiniteSets

CONSTANTS
    Threads,      \* goroutines
    Handles,      \* Containers, all of the same path
    Processes,
    HandleOf,     \* the Container each goroutine uses
    ProcessOf,    \* the process each Container lives in
    Writers,      \* the goroutines that begin transactions
    Flock,        \* file_lock_unix.go (TRUE) or file_lock_nonunix.go
    Damaged,      \* power loss destroyed the primary header beforehand
    MaxTx,        \* bound: transactions begun
    MaxCrashes,   \* bound: killed processes
    MaxFails      \* bound: failing system calls

ASSUME SharedAssumption ==
    /\ HandleOf \in [Threads -> Handles]
    /\ ProcessOf \in [Handles -> Processes]
    /\ Writers \subseteq Threads
    /\ Flock \in BOOLEAN /\ Damaged \in BOOLEAN
    /\ MaxTx \in Nat /\ MaxCrashes \in Nat /\ MaxFails \in Nat

Nobody == "nobody"

ASSUME NobodyAssumption == Nobody \notin Threads /\ Nobody \notin Handles

VARIABLES
    log,            \* what follows the header slots: chunks and directories
    primary, backup,\* the header slots
    handle,         \* Containers: open or not, and their header
    txMu, mu,       \* Container.txMu, Container.mu
    processLock,    \* processWriteLocks.locks[path] of each process
    flock,          \* the Container whose file description holds the flock
    thr,            \* the goroutines
    acked,          \* transactions whose Commit returned nil
    begun, crashes, fails

file == <<log, primary, backup>>
locks == <<txMu, mu, processLock, flock>>
counters == <<begun, crashes, fails>>
vars == <<file, handle, locks, thr, acked, counters>>

\* A chunk is known by the transaction that wrote it.  A directory lists where
\* its chunks are; in a header the list stands for the directory's checksum.
Chunk(id) == [kind |-> "chunk", id |-> id, refs |-> {}]
Dir(refs) == [kind |-> "dir", id |-> 0, refs |-> refs]
Header(gen, at, refs) == [gen |-> gen, at |-> at, refs |-> refs]
NoHeader == Header(0, 0, {})

\* loadSnapshotByHeader: the directory is where the header says.
Loads(h) == h.at \in 1 .. Len(log) /\ log[h.at] = Dir(h.refs)

\* The header Open ends up with.
Current == IF Loads(primary) THEN primary ELSE backup

\* File.WriteAt: over what is there, or at the end of the file.
WriteAt(off, blob) ==
    log' = IF off <= Len(log) THEN [log EXCEPT ![off] = blob] ELSE Append(log, blob)

Idle == [pc |-> "idle", hdr |-> NoHeader, refs |-> {}, off |-> 0, id |-> 0]

Init ==
    /\ log = <<Dir({})>>
    /\ backup = Header(1, 1, {})
    /\ primary = IF Damaged THEN NoHeader ELSE backup
    /\ handle = [h \in Handles |-> [state |-> "closed", hdr |-> NoHeader]]
    /\ txMu = [h \in Handles |-> Nobody]
    /\ mu = [h \in Handles |-> Nobody]
    /\ processLock = [p \in Processes |-> Nobody]
    /\ flock = Nobody
    /\ thr = [t \in Threads |-> Idle]
    /\ acked = {}
    /\ begun = 0 /\ crashes = 0 /\ fails = 0

----------------------------------------------------------------------------

Mine(t) == HandleOf[t]
ProcessLockOf(t) == ProcessOf[Mine(t)]
At(t, pc) == thr[t].pc = pc
Goto(t, pc) == thr' = [thr EXCEPT ![t].pc = pc]
Return(t) == thr' = [thr EXCEPT ![t] = Idle]

\* A system call fails; MaxFails bounds how many do.
Fault == fails < MaxFails /\ fails' = fails + 1
NoFault == UNCHANGED fails

(***************************************************************************)
(* The locks.  Begin and persistRecoveredHeader both take the process lock *)
(* and then the flock; lockFileExclusive does nothing where there is no    *)
(* flock, and a description that holds it may take it again.               *)
(***************************************************************************)
\* Mutant: every call makes a mutex of its own: it is not kept in the map.
AcquireProcess_NotKept(t) == processLock' = [processLock EXCEPT ![ProcessLockOf(t)] = t]

AcquireProcess(t) ==
    /\ processLock[ProcessLockOf(t)] = Nobody
    /\ processLock' = [processLock EXCEPT ![ProcessLockOf(t)] = t]

ReleaseProcess(t) == processLock' = [processLock EXCEPT ![ProcessLockOf(t)] = Nobody]

\* Mutant: the flock is taken in shared mode.
AcquireFile_Shared(t) == flock' = Mine(t)

AcquireFile(t) ==
    IF Flock THEN flock \in {Nobody, Mine(t)} /\ flock' = Mine(t)
             ELSE UNCHANGED flock

ReleaseFile(t) == flock' = IF flock = Mine(t) THEN Nobody ELSE flock

ReleaseMutexes(t) ==
    /\ mu' = [mu EXCEPT ![Mine(t)] = Nobody]
    /\ txMu' = [txMu EXCEPT ![Mine(t)] = Nobody]

----------------------------------------------------------------------------
(* Open.  Everything up to the write-back happens without any lock.        *)

StartOpen(t) ==
    /\ At(t, "idle") /\ handle[Mine(t)].state = "closed"
    /\ handle' = [handle EXCEPT ![Mine(t)].state = "opening"]
    /\ Goto(t, "readPrimary")
    /\ UNCHANGED <<file, locks, acked, counters>>

ReadPrimary(t) ==
    /\ At(t, "readPrimary")
    /\ thr' = [thr EXCEPT ![t].pc = "loadPrimary", ![t].hdr = primary]
    /\ UNCHANGED <<file, handle, locks, acked, counters>>

ReadBackup(t) ==
    /\ At(t, "readBackup")
    /\ thr' = [thr EXCEPT ![t].pc = "loadBackup", ![t].hdr = backup]
    /\ UNCHANGED <<file, handle, locks, acked, counters>>

\* Mutant: the generation is not carried over from the file.
Build_NoGeneration(t) ==
    handle' = [handle EXCEPT ![Mine(t)] = [state |-> "open", hdr |-> [thr[t].hdr EXCEPT !.gen = 0]]]

Build(t) == handle' = [handle EXCEPT ![Mine(t)] = [state |-> "open", hdr |-> thr[t].hdr]]

LoadPrimary(t) ==
    /\ At(t, "loadPrimary")
    /\ Loads(thr[t].hdr)
    /\ Build(t)
    /\ Return(t)
    /\ UNCHANGED <<file, locks, acked, counters>>

TryBackup(t) ==
    /\ At(t, "loadPrimary")
    /\ ~Loads(thr[t].hdr)
    /\ Goto(t, "readBackup")
    /\ UNCHANGED <<file, handle, locks, acked, counters>>

\* tryRecovered; that neither slot loads is the matter of ContainerCommit.
LoadBackup(t) ==
    /\ At(t, "loadBackup")
    /\ Loads(thr[t].hdr)
    /\ Goto(t, "persistProcess")
    /\ UNCHANGED <<file, handle, locks, acked, counters>>

PersistLockProcess(t) ==
    /\ At(t, "persistProcess")
    /\ AcquireProcess(t)
    /\ Goto(t, "persistFile")
    /\ UNCHANGED <<file, handle, txMu, mu, flock, acked, counters>>

PersistLockFile(t) ==
    /\ At(t, "persistFile")
    /\ AcquireFile(t)
    /\ Goto(t, "persistPrimary")
    /\ UNCHANGED <<file, handle, txMu, mu, processLock, acked, counters>>

\* Without the flock nothing is written, and Open succeeds all the same.
PersistSkip(t) ==
    /\ At(t, "persistFile")
    /\ Fault
    /\ Goto(t, "persistUnlock")
    /\ UNCHANGED <<file, handle, locks, acked, begun, crashes>>

\* Errors of these writes are ignored.
PersistPrimary(t) ==
    /\ At(t, "persistPrimary")
    /\ \/ primary' = thr[t].hdr /\ NoFault
       \/ Fault /\ UNCHANGED primary
    /\ Goto(t, "persistBackup")
    /\ UNCHANGED <<log, backup, handle, locks, acked, begun, crashes>>

PersistBackup(t) ==
    /\ At(t, "persistBackup")
    /\ \/ backup' = thr[t].hdr /\ NoFault
       \/ Fault /\ UNCHANGED backup
    /\ Goto(t, "persistUnlockFile")
    /\ UNCHANGED <<log, primary, handle, locks, acked, begun, crashes>>

PersistUnlockFile(t) ==
    /\ At(t, "persistUnlockFile")
    /\ ReleaseFile(t)
    /\ Goto(t, "persistUnlock")
    /\ UNCHANGED <<file, handle, txMu, mu, processLock, acked, counters>>

PersistUnlock(t) ==
    /\ At(t, "persistUnlock")
    /\ ReleaseProcess(t)
    /\ Build(t)
    /\ Return(t)
    /\ UNCHANGED <<file, txMu, mu, flock, acked, counters>>

OpenStep(t) ==
    \/ ReadPrimary(t) \/ LoadPrimary(t) \/ TryBackup(t) \/ ReadBackup(t) \/ LoadBackup(t)
    \/ PersistLockFile(t) \/ PersistSkip(t) \/ PersistPrimary(t) \/ PersistBackup(t)
    \/ PersistUnlockFile(t) \/ PersistUnlock(t)

----------------------------------------------------------------------------
(* Begin.  mu is held while waiting for the process lock and the flock.    *)

CallBegin(t) ==
    /\ t \in Writers /\ At(t, "idle") /\ handle[Mine(t)].state # "opening"
    /\ begun < MaxTx
    /\ begun' = begun + 1
    /\ thr' = [thr EXCEPT ![t].pc = "beginTxMu", ![t].id = begun + 1]
    /\ UNCHANGED <<file, handle, locks, acked, crashes, fails>>

LockTxMu(t) ==
    /\ At(t, "beginTxMu") /\ txMu[Mine(t)] = Nobody
    /\ txMu' = [txMu EXCEPT ![Mine(t)] = t]
    /\ Goto(t, "beginMu")
    /\ UNCHANGED <<file, handle, mu, processLock, flock, acked, counters>>

LockMu(t) ==
    /\ At(t, "beginMu") /\ mu[Mine(t)] = Nobody
    /\ handle[Mine(t)].state = "open"
    /\ mu' = [mu EXCEPT ![Mine(t)] = t]
    /\ Goto(t, "beginProcess")
    /\ UNCHANGED <<file, handle, txMu, processLock, flock, acked, counters>>

\* Mutant: Begin on a closed Container keeps txMu.
BeginClosed_KeepsTxMu(t) ==
    /\ At(t, "beginMu") /\ mu[Mine(t)] = Nobody
    /\ handle[Mine(t)].state # "open"
    /\ Return(t)
    /\ UNCHANGED <<file, handle, locks, acked, counters>>

\* A closed Container has no file: Begin gives both mutexes back.
BeginClosed(t) ==
    /\ At(t, "beginMu") /\ mu[Mine(t)] = Nobody
    /\ handle[Mine(t)].state # "open"
    /\ ReleaseMutexes(t)
    /\ Return(t)
    /\ UNCHANGED <<file, handle, processLock, flock, acked, counters>>

BeginLockProcess(t) ==
    /\ At(t, "beginProcess")
    /\ AcquireProcess(t)
    /\ Goto(t, "beginFile")
    /\ UNCHANGED <<file, handle, txMu, mu, flock, acked, counters>>

BeginLockFile(t) ==
    /\ At(t, "beginFile")
    /\ AcquireFile(t)
    /\ Goto(t, "beginCopy")
    /\ UNCHANGED <<file, handle, txMu, mu, processLock, acked, counters>>

\* Mutant: the offset is taken from the header instead of the size of the file.
Copy_HeaderOffset(t) ==
    /\ At(t, "beginCopy")
    /\ thr' = [thr EXCEPT ![t].pc = "tx", ![t].refs = handle[Mine(t)].hdr.refs,
                          ![t].off = handle[Mine(t)].hdr.at + 1]
    /\ mu' = [mu EXCEPT ![Mine(t)] = Nobody]
    /\ UNCHANGED <<file, handle, txMu, processLock, flock, acked, counters>>

\* The entries are the Container's own, whatever the file's header says by now;
\* only the size is taken from the file.
Copy(t) ==
    /\ At(t, "beginCopy")
    /\ thr' = [thr EXCEPT ![t].pc = "tx", ![t].refs = handle[Mine(t)].hdr.refs,
                          ![t].off = Len(log) + 1]
    /\ mu' = [mu EXCEPT ![Mine(t)] = Nobody]
    /\ UNCHANGED <<file, handle, txMu, processLock, flock, acked, counters>>

\* Mutant: a Begin that fails keeps the process lock.
BeginUnlocks_KeepsProcess(t) == ReleaseMutexes(t) /\ UNCHANGED processLock

BeginUnlocks(t) == ReleaseMutexes(t) /\ ReleaseProcess(t)

\* flock fails.
BeginFailsLock(t) ==
    /\ At(t, "beginFile")
    /\ Fault
    /\ BeginUnlocks(t)
    /\ Return(t)
    /\ UNCHANGED <<file, handle, flock, acked, begun, crashes>>

\* ensureEntriesLoadedLocked or Stat fails.
BeginFailsCopy(t) ==
    /\ At(t, "beginCopy")
    /\ Fault
    /\ ReleaseFile(t)
    /\ BeginUnlocks(t)
    /\ Return(t)
    /\ UNCHANGED <<file, handle, acked, begun, crashes>>

----------------------------------------------------------------------------
(* The transaction: one payload at most, then Commit or Rollback.          *)

Put(t) ==
    /\ At(t, "tx") /\ \A r \in thr[t].refs : r.id # thr[t].id
    /\ WriteAt(thr[t].off, Chunk(thr[t].id))
    /\ thr' = [thr EXCEPT ![t].off = @ + 1,
                          ![t].refs = @ \cup {[id |-> thr[t].id, at |-> thr[t].off]}]
    /\ UNCHANGED <<primary, backup, handle, locks, acked, counters>>

\* What Add, Upsert, Replace, SetMeta and Remove do with their transaction:
\* Commit, or Rollback when their operation fails.
CallCommit(t) ==
    /\ At(t, "tx")
    /\ Goto(t, "commit")
    /\ UNCHANGED <<file, handle, locks, acked, counters>>

Rollback(t) ==
    /\ At(t, "tx")
    /\ Goto(t, "unlockFile")
    /\ UNCHANGED <<file, handle, locks, acked, counters>>

\* Mutant: the generation is raised for the index and again for the header.
CommitDir_TwoGenerations(t) ==
    /\ At(t, "commit") /\ mu[Mine(t)] = Nobody
    /\ WriteAt(thr[t].off, Dir(thr[t].refs))
    /\ thr' = [thr EXCEPT ![t].pc = "writeBackup", ![t].off = @ + 1,
                          ![t].hdr = Header(handle[Mine(t)].hdr.gen + 2, thr[t].off, thr[t].refs)]
    /\ UNCHANGED <<primary, backup, handle, locks, acked, counters>>

\* The directory with its index and tail records.  The new header comes from
\* the Container's.
CommitDir(t) ==
    /\ At(t, "commit") /\ mu[Mine(t)] = Nobody
    /\ WriteAt(thr[t].off, Dir(thr[t].refs))
    /\ thr' = [thr EXCEPT ![t].pc = "writeBackup", ![t].off = @ + 1,
                          ![t].hdr = Header(handle[Mine(t)].hdr.gen + 1, thr[t].off, thr[t].refs)]
    /\ UNCHANGED <<primary, backup, handle, locks, acked, counters>>

CommitBackup(t) ==
    /\ At(t, "writeBackup")
    /\ backup' = thr[t].hdr
    /\ Goto(t, "writePrimary")
    /\ UNCHANGED <<log, primary, handle, locks, acked, counters>>

CommitPrimary(t) ==
    /\ At(t, "writePrimary")
    /\ primary' = thr[t].hdr
    /\ Goto(t, "publish")
    /\ UNCHANGED <<log, backup, handle, locks, acked, counters>>

\* Mutant: the Container keeps the header and the entries it had.
Publish_KeepsOld(t) ==
    /\ At(t, "publish") /\ mu[Mine(t)] = Nobody
    /\ acked' = acked \cup ({thr[t].id} \cap {r.id : r \in thr[t].refs})
    /\ Goto(t, "unlockFile")
    /\ UNCHANGED <<file, handle, locks, counters>>

Publish(t) ==
    /\ At(t, "publish") /\ mu[Mine(t)] = Nobody
    /\ handle' = [handle EXCEPT ![Mine(t)].hdr = thr[t].hdr]
    /\ acked' = acked \cup ({thr[t].id} \cap {r.id : r \in thr[t].refs})
    /\ Goto(t, "unlockFile")
    /\ UNCHANGED <<file, locks, counters>>

\* A write, or the fsync after the last one ("publish"), fails.
CommitFails(t) ==
    /\ thr[t].pc \in {"commit", "writeBackup", "writePrimary", "publish"}
    /\ Fault
    /\ Goto(t, "unlockFile")
    /\ UNCHANGED <<file, handle, locks, acked, begun, crashes>>

\* release, one lock at a time.
UnlockFile(t) ==
    /\ At(t, "unlockFile")
    /\ ReleaseFile(t)
    /\ Goto(t, "unlockProcess")
    /\ UNCHANGED <<file, handle, txMu, mu, processLock, acked, counters>>

UnlockProcess(t) ==
    /\ At(t, "unlockProcess")
    /\ ReleaseProcess(t)
    /\ Goto(t, "unlockTxMu")
    /\ UNCHANGED <<file, handle, txMu, mu, flock, acked, counters>>

UnlockTxMu(t) ==
    /\ At(t, "unlockTxMu")
    /\ txMu' = [txMu EXCEPT ![Mine(t)] = Nobody]
    /\ Return(t)
    /\ UNCHANGED <<file, handle, mu, processLock, flock, acked, counters>>

Release(t) == UnlockFile(t) \/ UnlockProcess(t) \/ UnlockTxMu(t)

CommitStep(t) ==
    \/ CommitDir(t) \/ CommitBackup(t) \/ CommitPrimary(t) \/ Publish(t) \/ CommitFails(t)

----------------------------------------------------------------------------
(* Readers, Close, and the end of a process.                               *)

CallRead(t) ==
    /\ At(t, "idle") /\ handle[Mine(t)].state = "open"
    /\ Goto(t, "readMu")
    /\ UNCHANGED <<file, handle, locks, acked, counters>>

\* List, Stat and OpenReader look at the entries under mu.
LockForRead(t) ==
    /\ At(t, "readMu") /\ mu[Mine(t)] = Nobody
    /\ handle[Mine(t)].state = "open"
    /\ thr' = [thr EXCEPT ![t].pc = "reading", ![t].refs = handle[Mine(t)].hdr.refs]
    /\ UNCHANGED <<file, handle, locks, acked, counters>>

ReadClosed(t) ==
    /\ At(t, "readMu") /\ mu[Mine(t)] = Nobody
    /\ handle[Mine(t)].state # "open"
    /\ Return(t)
    /\ UNCHANGED <<file, handle, locks, acked, counters>>

\* The entryReader reads its chunks without a lock.
FinishRead(t) ==
    /\ At(t, "reading")
    /\ Return(t)
    /\ UNCHANGED <<file, handle, locks, acked, counters>>

\* txMu is only tried: Close returns an error while a transaction is active
\* or beginning.
Close(t) ==
    /\ At(t, "idle") /\ handle[Mine(t)].state = "open"
    /\ txMu[Mine(t)] = Nobody /\ mu[Mine(t)] = Nobody
    /\ handle' = [handle EXCEPT ![Mine(t)] = [state |-> "closed", hdr |-> NoHeader]]
    /\ UNCHANGED <<file, locks, thr, acked, counters>>

Crash(p) ==
    /\ crashes < MaxCrashes /\ crashes' = crashes + 1
    /\ LET gone == {h \in Handles : ProcessOf[h] = p}
           Freed(m) == [h \in Handles |-> IF h \in gone THEN Nobody ELSE m[h]]
       IN  /\ handle' = [h \in Handles |->
                            IF h \in gone THEN [state |-> "closed", hdr |-> NoHeader] ELSE handle[h]]
           /\ txMu' = Freed(txMu)
           /\ mu' = Freed(mu)
           /\ flock' = IF flock \in gone THEN Nobody ELSE flock
           /\ thr' = [t \in Threads |-> IF Mine(t) \in gone THEN Idle ELSE thr[t]]
    /\ processLock' = [processLock EXCEPT ![p] = Nobody]
    /\ UNCHANGED <<file, acked, begun, fails>>

\* What a goroutine does without waiting for a mutex, and the waiting.
Step(t) ==
    \/ OpenStep(t) \/ LockMu(t) \/ BeginClosed(t) \/ BeginLockFile(t) \/ Copy(t)
    \/ CallCommit(t) \/ Rollback(t) \/ CommitStep(t) \/ Release(t) \/ FinishRead(t)

Wait(t) ==
    \/ LockTxMu(t) \/ LockForRead(t) \/ ReadClosed(t)
    \/ BeginLockProcess(t) \/ PersistLockProcess(t)

\* What a caller may do at any time, and Begin failing.
Call(t) ==
    \/ StartOpen(t) \/ CallBegin(t) \/ BeginFailsLock(t) \/ BeginFailsCopy(t)
    \/ Put(t) \/ CallRead(t) \/ Close(t)

Next ==
    \/ \E t \in Threads : Call(t) \/ Step(t) \/ Wait(t)
    \/ \E p \in Processes : Crash(p)

\* Goroutines run, and callers end their transactions.  A Go mutex hands itself
\* to a waiter that has waited for a millisecond, so nobody waits forever for a
\* mutex that is released again and again.  The flock makes no such promise.
Fairness == \A t \in Threads : WF_vars(Step(t)) /\ SF_vars(Wait(t))

Spec == Init /\ [][Next]_vars
FairSpec == Spec /\ Fairness

----------------------------------------------------------------------------

Pcs == {"idle", "readPrimary", "loadPrimary", "readBackup", "loadBackup",
        "persistProcess", "persistFile", "persistPrimary", "persistBackup",
        "persistUnlockFile", "persistUnlock",
        "beginTxMu", "beginMu", "beginProcess", "beginFile", "beginCopy",
        "tx", "commit", "writeBackup", "writePrimary", "publish",
        "unlockFile", "unlockProcess", "unlockTxMu", "readMu", "reading"}

\* Goroutines that are entitled to write the file.
Writing(t) ==
    thr[t].pc \in {"persistPrimary", "persistBackup", "beginCopy", "tx",
                   "commit", "writeBackup", "writePrimary", "publish"}

\* The chunks a list of references names are in the file as they were written.
Intact(refs) == \A r \in refs : r.at \in 1 .. Len(log) /\ log[r.at] = Chunk(r.id)

Refs == [id : 1 .. MaxTx, at : 1 .. 2 * MaxTx + 1]

\* The type of every variable, with the width the bounds give it.
TypeOK ==
    LET Hdr(h) == h.gen \in 0 .. MaxTx + 1 /\ h.at \in 0 .. 2 * MaxTx + 1 /\ h.refs \subseteq Refs
    IN  /\ Len(log) \in 1 .. 2 * MaxTx + 1
        /\ Hdr(primary) /\ Hdr(backup)
        /\ \A h \in Handles : handle[h].state \in {"closed", "opening", "open"} /\ Hdr(handle[h].hdr)
        /\ txMu \in [Handles -> Threads \cup {Nobody}]
        /\ mu \in [Handles -> Threads \cup {Nobody}]
        /\ processLock \in [Processes -> Threads \cup {Nobody}]
        /\ flock \in Handles \cup {Nobody}
        /\ \A t \in Threads : thr[t].pc \in Pcs /\ Hdr(thr[t].hdr) /\ thr[t].refs \subseteq Refs
        /\ acked \subseteq 1 .. MaxTx

\* Begin, Commit and the write-back of a recovered header: of all goroutines of
\* all processes, one at most is between taking the locks and giving them back,
\* and the Container it works on stays open meanwhile.
OneWriter ==
    \A t \in Threads : Writing(t) =>
        /\ \A u \in Threads \ {t} : ~Writing(u)
        /\ handle[Mine(t)].state # "closed"

\* Tx appends at the size Begin saw: whatever other Containers commit, fail to
\* commit or leave behind when killed, no chunk is overwritten that some
\* Container's snapshot, some transaction or some open reader refers to.
SnapshotsIntact ==
    /\ Intact(Current.refs)
    /\ \A h \in Handles : handle[h].state = "open" => Intact(handle[h].hdr.refs) /\ Loads(handle[h].hdr)
    /\ \A t \in Threads : Intact(thr[t].refs)

\* Whichever call failed and whichever process was killed: once every goroutine
\* has returned, no mutex, process lock or flock is left behind.
NoLockLeft ==
    (\A t \in Threads : At(t, "idle")) =>
        /\ \A h \in Handles : txMu[h] = Nobody /\ mu[h] = Nobody
        /\ \A p \in Processes : processLock[p] = Nobody
        /\ flock = Nobody

\* Commit returned nil: whoever opens the container from then on finds the
\* payload in it.
AckedSurvives == acked \subseteq {r.id : r \in Current.refs}

\* The generation in the primary header never decreases (writeHeaderGeneration
\* in Commit).
GenerationGrows == [][primary'.gen >= primary.gen]_primary

\* Begin, Open and the readers return, for all that several goroutines and
\* Containers queue for the same locks and some of their calls fail.
CallsReturn ==
    \A t \in Threads : thr[t].pc # "idle" ~> thr[t].pc = "idle"
=============================================================================
