------------------------------ MODULE Catalog ------------------------------
(***************************************************************************)
(* A container seen through its API by one caller: what Tx's operations do  *)
(* to the entries and to the count of dead bytes, what Commit makes of     *)
(* them, and the directory that Open leaves unread until it is needed.     *)
(*                                                                         *)
(* How Commit gets to the disk, and that it does so as a whole, is the      *)
(* matter of ContainerCommit; here it is one step.                         *)
(***************************************************************************)
EXTENDS DirIndex, EntryReader

CONSTANTS
    Vals,           \* payloads
    ChunkEnds,      \* how each payload is cut into chunks
    Metas,
    MaxUint64,      \* where the counters saturate
    MaxOps          \* bound: operations of transactions

ASSUME CatalogAssumption ==
    /\ DOMAIN ChunkEnds = Vals /\ \A v \in Vals : IsCut(ChunkEnds[v])
    /\ MaxUint64 \in Nat /\ MaxOps \in Nat

VARIABLES
    file,       \* the container on disk: its newest directory and header
    handle,     \* the Container: its state, and the directory it was built from
    tx,         \* the open transaction
    ops         \* operations so far

catalogVars == <<file, handle, tx, ops>>

NoEntry == [val |-> "none"]

\* chunks: what has become of each chunk record on disk; good, a ghost: what
\* was stored is what the caller meant to store.
NewEntry(v, m) ==
    [val |-> v, meta |-> m, good |-> TRUE, chunks |-> [k \in DOMAIN ChunkEnds[v] |-> "ok"]]

Live(es) == {p \in Paths : es[p] # NoEntry}

\* Bytes on disk; a record has a header besides the payload.
StoredBytes(v) == FileSize(ChunkEnds[v]) + Len(ChunkEnds[v])

\* Those of its first k records.
PrefixBytes(v, k) == RawOffset(ChunkEnds[v], k + 1) + k

entryStoredBytes(e) == IF e = NoEntry THEN 0 ELSE StoredBytes(e.val)

\* The same of all entries in S, counted as the set of those bytes.
TotalStored(es, S) == Cardinality(UNION {{p} \X (1 .. entryStoredBytes(es[p])) : p \in S})

saturatingAddUint64(a, b) == IF a + b > MaxUint64 THEN MaxUint64 ELSE a + b

\* Ghosts, in bytes: written, what the container's transactions have appended
\* for payloads; lost, the part of it that belongs to payloads that failed; over,
\* what was counted as dead and was not.
EmptyContainer ==
    [entries |-> [p \in Paths |-> NoEntry], dead |-> 0, written |-> 0, lost |-> 0, over |-> 0]

\* What else there may be under a file's name: nothing, or no container.
NoFile == [kind |-> "no file"]
NotAContainer == [kind |-> "not a container"]
IsContainer(c) == c \notin {NoFile, NotAContainer}

\* Every operation counts against the bound.
Op == ops < MaxOps /\ ops' = ops + 1

NoTx == [open |-> FALSE]
NoDir == [state |-> "closed"]

\* The container as Create left it and its handle.
CatalogInit ==
    /\ file = EmptyContainer
    /\ handle = [state |-> "loaded", dir |-> EmptyContainer]
    /\ tx = NoTx
    /\ ops = 0

----------------------------------------------------------------------------
(* Open, lookup and loading.                                               *)

\* The index a commit writes for these entries, and Open reads.
IndexRows(es) == EncodeDirectory(Live(es))
IndexRanges(es) == buildDirIndexHashRanges(IndexRows(es))

Open ==
    /\ handle.state = "closed"
    /\ IsContainer(file)
    /\ validateDirIndexV1(IndexRows(file.entries), IndexRanges(file.entries))
    /\ handle' = [state |-> "lazy", dir |-> file]
    /\ UNCHANGED <<file, tx, ops>>

\* List, Verify: the directory is decoded and the index no longer used.
ensureEntriesLoaded ==
    /\ handle.state = "lazy"
    /\ handle' = [handle EXCEPT !.state = "loaded"]
    /\ UNCHANGED <<file, tx, ops>>

\* What Stat and OpenReader find.
Lookup(p) ==
    IF handle.state = "lazy"
      THEN LET rows == IndexRows(handle.dir.entries)
           IN  {handle.dir.entries[rows[j]] :
                    j \in findEntryByPathFromDirIndex(rows, IndexRanges(handle.dir.entries), p)}
      ELSE {handle.dir.entries[p]} \ {NoEntry}

Close ==
    /\ handle.state # "closed" /\ ~tx.open
    /\ handle' = NoDir
    /\ UNCHANGED <<file, tx, ops>>

----------------------------------------------------------------------------
(* The transaction.                                                        *)

BeginWith(es) ==
    [open |-> TRUE, entries |-> es, dead |-> 0, wrote |-> 0, lost |-> 0, over |-> 0]

Begin ==
    /\ handle.state # "closed" /\ ~tx.open
    /\ handle' = [handle EXCEPT !.state = "loaded"]
    /\ tx' = BeginWith(handle.dir.entries)
    /\ UNCHANGED <<file, ops>>

markObsolete(t, p) ==
    [t EXCEPT !.dead = saturatingAddUint64(@, entryStoredBytes(t.entries[p]))]

\* Mutant: the payload that is replaced is not counted.
Stored_NotCounted(t, p, v, m) ==
    [t EXCEPT !.entries[p] = NewEntry(v, m), !.wrote = @ + StoredBytes(v)]

\* Add, Upsert or Replace p, as a function of the transaction.
Stored(t, p, v, m) ==
    [markObsolete(t, p) EXCEPT !.entries[p] = NewEntry(v, m), !.wrote = @ + StoredBytes(v)]

TxPut(p, v, m) ==
    /\ tx.open /\ Op
    /\ tx' = Stored(tx, p, v, m)
    /\ UNCHANGED <<file, handle>>

\* Of a payload that fails k chunk records have been appended, and stay.  Upsert
\* and Replace have counted the old payload by then, and leave it counted.
\* (An Add whose path is taken fails before it writes.)
TxPutFails(p, v, k) ==
    /\ tx.open /\ Op
    /\ tx' = [markObsolete(tx, p) EXCEPT !.wrote = @ + PrefixBytes(v, k),
                                         !.lost = @ + PrefixBytes(v, k),
                                         !.over = @ + entryStoredBytes(tx.entries[p])]
    /\ UNCHANGED <<file, handle>>

\* Remove, RemoveMany, RemovePrefix, RemoveGlob and RemoveWhere, whichever
\* entries they select; RemoveMany and RemoveGlob may stop half way.
TxRemove(S) ==
    /\ tx.open /\ S # {} /\ S \subseteq Live(tx.entries) /\ Op
    /\ tx' = [tx EXCEPT !.dead = saturatingAddUint64(@, TotalStored(tx.entries, S)),
                        !.entries = [p \in Paths |-> IF p \in S THEN NoEntry ELSE @[p]]]
    /\ UNCHANGED <<file, handle>>

\* SetMeta, and SetMetaMany, which goes through its map in any order and stops
\* at the first path that is missing.
TxSetMeta(S, m) ==
    /\ tx.open /\ S # {} /\ S \subseteq Live(tx.entries) /\ Op
    /\ tx' = [tx EXCEPT !.entries = [p \in Paths |-> IF p \in S THEN [@[p] EXCEPT !.meta = m] ELSE @[p]]]
    /\ UNCHANGED <<file, handle>>

\* What the transaction has appended stays behind the end of the container.
Rollback ==
    /\ tx.open
    /\ tx' = NoTx
    /\ UNCHANGED <<file, handle, ops>>

\* The directory and header that Commit makes of container c and transaction t.
Committed(c, t) ==
    [entries |-> t.entries, dead |-> saturatingAddUint64(c.dead, t.dead),
     written |-> c.written + t.wrote, lost |-> c.lost + t.lost, over |-> c.over + t.over]

Commit ==
    /\ tx.open
    /\ file' = Committed(handle.dir, tx)
    /\ handle' = [state |-> "loaded", dir |-> file']
    /\ tx' = NoTx
    /\ UNCHANGED ops

CatalogNext ==
    \/ Open \/ ensureEntriesLoaded \/ Close
    \/ Begin \/ Rollback \/ Commit
    \/ \E p \in Paths, v \in Vals, m \in Metas : TxPut(p, v, m)
    \/ \E p \in Paths, v \in Vals : \E k \in 0 .. Len(ChunkEnds[v]) : TxPutFails(p, v, k)
    \/ \E S \in SUBSET Paths : TxRemove(S)
    \/ \E S \in SUBSET Paths, m \in Metas : TxSetMeta(S, m)

----------------------------------------------------------------------------

\* The index is used for lookups until the directory is loaded: whatever was
\* added and removed before, and however the hashes of paths collide, it is
\* accepted by Open and finds exactly the entries the directory has.
LookupAgrees ==
    handle.state # "closed" =>
        LET es == handle.dir.entries
        IN  /\ validateDirIndexV1(IndexRows(es), IndexRanges(es))
            /\ \A p \in Paths : Lookup(p) = {es[p]} \ {NoEntry}

\* Bytes of payloads in c that no entry refers to.
Unreferenced(c) == c.written - TotalStored(c.entries, Paths)

\* The dead bytes in the header are, up to saturation, the bytes of those payloads
\* that were stored and that no entry refers to any more, with two exceptions: what
\* was appended for a payload that failed is not counted, and the payload it was to
\* replace is, every time.
Accounted(c) ==
    c.dead = saturatingAddUint64(0, Unreferenced(c) - c.lost + c.over)
============================================================================
