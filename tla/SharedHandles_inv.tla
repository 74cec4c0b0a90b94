------------------------- MODULE SharedHandles_inv -------------------------
(***************************************************************************)
(* The inductive invariant behind the safety properties of SharedHandles.  *)
(***************************************************************************)
EXTENDS SharedHandles

\* What excludes writers: the flock, or one process and its lock.
Excluded == Flock \/ \A g, h \in Handles : ProcessOf[g] = ProcessOf[h]

----------------------------------------------------------------------------
(* Types, without the bounds of TypeOK.                                    *)

RefSet == [id : Nat, at : Nat]
HeaderSet == [gen : Nat, at : Nat, refs : SUBSET RefSet]
BlobSet == [kind : {"chunk", "dir"}, id : Nat, refs : SUBSET RefSet]
HandleSet == [state : {"closed", "opening", "open"}, hdr : HeaderSet]
ThreadSet == [pc : Pcs, hdr : HeaderSet, refs : SUBSET RefSet, off : Nat, id : Nat]

FileTypes ==
    /\ log \in Seq(BlobSet)
    /\ primary \in HeaderSet
    /\ backup \in HeaderSet

LockTypes ==
    /\ txMu \in [Handles -> Threads \cup {Nobody}]
    /\ mu \in [Handles -> Threads \cup {Nobody}]
    /\ processLock \in [Processes -> Threads \cup {Nobody}]
    /\ flock \in Handles \cup {Nobody}

Types ==
    /\ FileTypes
    /\ LockTypes
    /\ handle \in [Handles -> HandleSet]
    /\ thr \in [Threads -> ThreadSet]
    /\ begun \in Nat

----------------------------------------------------------------------------
(* Who holds which lock: exactly the goroutines whose call has taken it    *)
(* and not yet given it back.                                              *)

HoldsFile == {"persistPrimary", "persistBackup", "persistUnlockFile", "beginCopy", "tx",
              "commit", "writeBackup", "writePrimary", "publish", "unlockFile"}

HoldsProcess == HoldsFile \cup {"persistFile", "persistUnlock", "beginFile", "unlockProcess"}

HoldsMu == {"beginProcess", "beginFile", "beginCopy"}

HoldsTxMu == HoldsMu \cup {"beginMu", "tx", "commit", "writeBackup", "writePrimary", "publish",
                           "unlockFile", "unlockProcess", "unlockTxMu"}

ProcessLocks ==
    /\ \A t \in Threads : thr[t].pc \in HoldsProcess => processLock[ProcessLockOf(t)] = t
    /\ \A p \in Processes, t \in Threads :
          processLock[p] = t => thr[t].pc \in HoldsProcess /\ ProcessLockOf(t) = p

FileLock ==
    /\ Flock => \A t \in Threads : thr[t].pc \in HoldsFile => flock = Mine(t)
    /\ flock # Nobody => \E t \in Threads : Mine(t) = flock /\ thr[t].pc \in HoldsFile

TxMutexes ==
    /\ \A t \in Threads : thr[t].pc \in HoldsTxMu => txMu[Mine(t)] = t
    /\ \A h \in Handles, t \in Threads :
          txMu[h] = t => thr[t].pc \in HoldsTxMu /\ Mine(t) = h

Mutexes ==
    /\ \A t \in Threads : thr[t].pc \in HoldsMu => mu[Mine(t)] = t
    /\ \A h \in Handles, t \in Threads :
          mu[h] = t => thr[t].pc \in HoldsMu /\ Mine(t) = h

----------------------------------------------------------------------------
(* Which goroutines rely on the state of their Container.                  *)

Opening == {"readPrimary", "loadPrimary", "readBackup", "loadBackup", "persistProcess",
            "persistFile", "persistPrimary", "persistBackup", "persistUnlockFile",
            "persistUnlock"}

InTx == {"beginProcess", "beginFile", "beginCopy", "tx", "commit", "writeBackup",
         "writePrimary", "publish"}

States ==
    /\ \A t \in Threads : thr[t].pc \in Opening => handle[Mine(t)].state = "opening"
    /\ \A t, u \in Threads :
          thr[t].pc \in Opening /\ thr[u].pc \in Opening /\ Mine(t) = Mine(u) => t = u
    /\ \A t \in Threads : thr[t].pc \in InTx => handle[Mine(t)].state = "open"

----------------------------------------------------------------------------
(* The file only grows, so what was once written stays.                    *)

IntactIn(l, refs) == \A r \in refs : r.at \in 1 .. Len(l) /\ l[r.at] = Chunk(r.id)

\* A header that loads from l, with every chunk its directory names.
GoodIn(l, h) == h.at \in 1 .. Len(l) /\ l[h.at] = Dir(h.refs) /\ IntactIn(l, h.refs)

\* Goroutines that hold a header which loads.
HasHeader == {"loadBackup", "persistProcess", "persistFile", "persistPrimary",
              "persistBackup", "persistUnlockFile", "persistUnlock",
              "writeBackup", "writePrimary", "publish"}

AppendsAtEnd ==
    \A t \in Threads : thr[t].pc \in {"tx", "commit"} => thr[t].off = Len(log) + 1

Content ==
    /\ GoodIn(log, backup)
    /\ primary = NoHeader \/ GoodIn(log, primary)
    /\ \A h \in Handles : handle[h].state = "open" => GoodIn(log, handle[h].hdr)
    /\ \A t \in Threads : thr[t].hdr = NoHeader \/ GoodIn(log, thr[t].hdr)
    /\ \A t \in Threads : thr[t].pc \in HasHeader => GoodIn(log, thr[t].hdr)
    /\ \A t \in Threads : IntactIn(log, thr[t].refs)

\* The inductive invariant.
Inv ==
    /\ Types
    /\ ProcessLocks
    /\ FileLock
    /\ TxMutexes
    /\ Mutexes
    /\ States
    /\ AppendsAtEnd
    /\ Content

----------------------------------------------------------------------------
(* One Container that writes.  What OneWriter and SnapshotsIntact do not   *)
(* say, because it is false of several writing Containers: the Container   *)
(* knows every acknowledged transaction, and its generation is the one in  *)
(* the primary header or, after a Commit that failed late, one behind.     *)

OneContainer == ~Damaged /\ \A t, u \in Writers : HandleOf[t] = HandleOf[u]

Ids(refs) == {r.id : r \in refs}

\* Begin is called on this Container.
Writable(h) == \E t \in Writers : HandleOf[t] = h

\* Open has given up the primary header.
Recovering == {"readBackup", "loadBackup", "persistProcess", "persistFile", "persistPrimary",
               "persistBackup", "persistUnlockFile", "persistUnlock"}

\* A transaction with entries of its own, and one that has its header.
Heading == {"writeBackup", "writePrimary", "publish"}
Filling == {"tx", "commit"} \cup Heading

\* The header of a Container is as recent as the one in the file.
Fresh(hdr) ==
    /\ acked \subseteq Ids(hdr.refs)
    /\ hdr.gen <= primary.gen
    /\ primary.gen <= hdr.gen + 1

PrimaryKnows == primary # NoHeader /\ acked \subseteq Ids(primary.refs)

OpensFresh ==
    \A t \in Threads :
        /\ thr[t].pc \notin Recovering
        /\ thr[t].pc = "loadPrimary" =>
              /\ thr[t].hdr # NoHeader
              /\ Writable(Mine(t)) => thr[t].hdr = primary

WriterFresh == \A h \in Handles : Writable(h) /\ handle[h].state = "open" => Fresh(handle[h].hdr)

TxFresh ==
    \A t \in Threads :
        /\ thr[t].pc \in {"beginTxMu", "beginMu"} \cup InTx => t \in Writers
        /\ thr[t].pc \in Filling => acked \subseteq Ids(thr[t].refs)
        /\ thr[t].pc \in Heading =>
              /\ thr[t].hdr.refs = thr[t].refs
              /\ thr[t].hdr.gen = handle[Mine(t)].hdr.gen + 1
        /\ thr[t].pc = "publish" => primary = thr[t].hdr

\* Inductive together with Inv.
OneInv == PrimaryKnows /\ OpensFresh /\ WriterFresh /\ TxFresh

----------------------------------------------------------------------------
(* What the bounds of TypeOK rest on: every transaction has a number of    *)
(* its own and appends one chunk and one directory at most.                *)

\* A Begin that has its number but no transaction yet.
Starting == {"beginTxMu", "beginMu", "beginProcess", "beginFile", "beginCopy"}

Appending == {"tx", "commit"}

Active == Starting \cup Filling

Numbered ==
    /\ begun <= MaxTx
    /\ acked \subseteq 1 .. begun
    /\ \A t \in Threads : thr[t].pc \in Active => thr[t].id \in 1 .. begun
    /\ \A t, u \in Threads :
          thr[t].pc \in Active /\ thr[u].pc \in Active /\ thr[t].id = thr[u].id => t = u

\* The transactions that wrote the blobs of the file, 0 for Create: no two
\* chunks and no two directories have the same, and a transaction at work has
\* written nothing but the chunk it refers to.
Owns(own) ==
    /\ \A i, j \in DOMAIN log : log[i].kind = log[j].kind /\ own[i] = own[j] => i = j
    /\ \A i \in DOMAIN log : log[i].kind = "chunk" => own[i] = log[i].id /\ own[i] # 0
    /\ \A t \in Threads, i \in DOMAIN log :
          thr[t].pc \in Starting \cup Appending /\ own[i] = thr[t].id =>
              /\ thr[t].pc \in Appending
              /\ log[i].kind = "chunk"
              /\ \E r \in thr[t].refs : r.id = thr[t].id

Owned == \E own \in [DOMAIN log -> 0 .. begun] : Owns(own)

Kept(kind) == {i \in DOMAIN log : log[i].kind = kind}

\* The headers there are, and those a step may put elsewhere.
Headers ==
    {primary, backup, NoHeader} \cup {handle[h].hdr : h \in Handles}
                               \cup {thr[t].hdr : t \in Threads}

\* Each directory in the file has raised the generation by one.
Generations == \A h \in Headers : h.gen <= Cardinality(Kept("dir"))

OpenOnly == \A h \in Handles : handle[h].state # "open" => handle[h].hdr = NoHeader

\* Inductive together with Inv.
Bounded == Numbered /\ Owned /\ Generations /\ OpenOnly
============================================================================
