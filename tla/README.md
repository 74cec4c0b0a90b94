# A TLA+ model of go-fbx

go-fbx is a Go library and a command for FBX containers: one file that holds
many compressed entries, written by transactions that only append and then
switch a header. These modules model the parts whose correctness depends on
order, failure and concurrency. TLC checks them on small instances; TLAPS
proves every invariant they check, and the refinements but for their liveness,
for all instances that meet the assumptions named below.

    tlc -workers 2 -config commit_crash.cfg MCContainerCommit   # one run
    tlapm ContainerCommit_proofs.tla                            # the proofs
    tlapm ContainerCommitOpens_proofs.tla
    tlapm ChunkPipeline_proofs.tla
    tlapm SharedHandles_proofs.tla
    tlapm SharedHandlesOneWriter_proofs.tla
    tlapm RecoveryDamage_proofs.tla
    tlapm Rebuild_proofs.tla
    tlapm RebuildCatalog_proofs.tla

`PROJECT.json` lists the components, the runs, the source lines of every
definition, the mutants each property must detect, the findings, the hazards
and the theorems.

## The system

The file starts with two header slots of 128 bytes (primary at 0, backup at
128) and continues with appended blobs: chunk records (`CK`), directories
(`DIR1`), directory indexes (`IDX1`), journal and backup records (`JNL1`,
`BKP1`), each holding a copy of a header. The header names the current
directory and index by offset, size and CRC32; the directory names the chunks
of every entry.

| Component | Source | State | Operations | What makes it hard |
|---|---|---|---|---|
| Transactions and commit | `fbx/tx.go`, `appendAt` | `Tx`: entries, append offset, counters | Add, Upsert, Replace, Remove*, SetMeta*, Commit, Rollback | nine writes and fsyncs, each of which may fail or be the last before power loss |
| Open and recovery | `fbx/container.go`, `journal.go`, `recovery_scan.go`, `header_ext.go` | the file | Open, `persistRecoveredHeader`, tail scan, directory scan | headers have no checksum; four sources in order; it writes to what it repairs |
| Parallel chunk writer | `writeChunksParallel` in `tx.go` | two channels, buffer pool, pending results | read, encode, reorder, append | goroutines, buffer reuse, draining after an error |
| Locks and shared handles | `write_lock.go`, `file_lock_*.go`, `container.go` | `txMu`, `mu`, one lock per process and path, flock | Begin, release, Close, readers | several Containers of several processes, snapshots out of date |
| On-disk format | `internal/format` | none | encode, decode | bounds, widths |
| Directory index | `dir_index.go`, `internal/format/hash.go` | `lazyDirIndex` | lookup by hash | collisions |
| Reading entries | `container.go` | position in an entry | List, Stat, OpenReader, Extract, Verify | no lock while chunks are read |
| Pack | `pack.go` | source and temporary container | verify, copy, rename | crash, failure or damage between any two of them |
| ZIP import | `import_zip.go` | archive and output | check, Create, Upsert each file | output exists before the input is known to be good |
| Compaction counters | `compaction_stats.go`, `tx.go` | `dead_bytes`, `churn_ops` in the header | count, saturate, add | counted before the write that makes them true |
| Codecs, paths, options, command line | `codec*.go`, `pathutil`, `options.go`, `cmd/fbx` | little | conversions and I/O | - |

How they interact: every write method of `Container` is Begin, one operation of
the transaction, then Commit, or Rollback if the operation failed. Begin takes
`txMu`, `mu`, the process lock and the flock in this order, copies the
Container's entries and notes the size of the file. Operations append chunk
records through the (sequential or parallel) chunk writer at the transaction's
own offset. Commit appends directory, index and tail records, writes the
backup and then the primary header, with an fsync after each stage when
`SyncOnCommit` is set, and only then publishes header and entries to the
Container under `mu`. Open reads the slots without any lock; if it has to
recover it takes the process lock and the flock to write a header back. Until
the first List, Begin or Verify an opened Container looks entries up through
the hash ranges of the directory index. Pack and ConvertZIPToFBX are callers of
all this: they create a new container and fill it in one transaction, Pack
from the readers of the old one.

What makes each component correct:

- *Commit and Open.* Whatever interrupts them, Open finds the last snapshot
  whose Commit returned nil, or one whose Commit is in doubt, with all chunks.
  A failed or rolled back transaction changes nothing an open handle shows.
- *Chunk writer.* Whatever the scheduling, what is appended and returned is
  what the sequential loop would append and return, or an error after a prefix
  of it; nothing stays behind, blocked or borrowed.
- *Locks.* One writer at a time; no chunk that anybody still refers to is
  overwritten; calls return.
- *Recovery.* Damage to a part of the file, after a kill or on its own, does not
  make Open fall back to less than what the undamaged parts still say.
- *Index and counters.* The lookup finds what the directory has, whatever the
  hashes; the dead bytes in the header are those that nothing refers to, except
  what failed puts have added to either side.
- *Pack and ZIP import.* The input is never lost, the output is whole or empty,
  a payload that went bad is not copied as if it were good, and no temporary
  file stays unless it cannot be removed.

## Modules

| Module | What it is |
|---|---|
| `FbxFormat` | Blobs, headers, and Open as a function of the file's content: which sources it tries, in which order, what it accepts |
| `ContainerCommit` | One writer on one file: transactions, every write and fsync of Commit, Close, Open with its write-back, over a storage that may lose power and fail |
| `AtomicSnapshots` | What the container promises: commits that happen, fail, or are in doubt after a crash, all at once |
| `ContainerCommit_inv`, `ContainerCommit_proofs` | The inductive invariant of synced commits and its theorems |
| `ContainerCommitOpens_proofs` | What holds with or without fsync: types, and that Open succeeds |
| `SequentialChunks` | `writeChunksSequential`: cut the payload, encode, append |
| `ChunkPipeline` | `writeChunksParallel`: one action per channel or pool operation of each goroutine |
| `ChunkPipeline_inv`, `ChunkPipeline_proofs` | The inductive invariant and the theorems |
| `SharedHandles` | Several Containers of several processes on one file: locks, the unlocked reads of Open, commits, readers, Close, killed processes |
| `SharedHandles_inv`, `SharedHandles_proofs` | The inductive invariant and the theorems |
| `SharedHandlesOneWriter_proofs` | What holds besides when one Container does all the writing |
| `RecoveryDamage` | `ContainerCommit` with killed processes and damage to the file at rest |
| `RecoveryDamage_inv`, `RecoveryDamage_proofs` | The inductive invariant and the theorems |
| `DirIndex` | The rows and hash ranges of an index, their validation and the lookup |
| `EntryReader` | One turn of the loop of `entryReader.Read`, where it stops and with what; Verify |
| `Catalog` | One container through its API: operations on entries, dead bytes, Commit in one step, the lookup before and after loading |
| `Rebuild` | Pack and ConvertZIPToFBX, built on `Catalog` and `EntryReader` |
| `Rebuild_inv`, `Rebuild_proofs` | The inductive invariants of `Rebuild` and the theorems about the files |
| `RebuildCatalog_proofs` | The theorems about the index and the counter of dead bytes |
| `MCContainerCommit`, `MCChunkPipeline`, `MCSharedHandles`, `MCRecoveryDamage`, `MCRebuild` | What the runs need beyond constants |

`ContainerCommit` refines `AtomicSnapshots`, and `ChunkPipeline` refines
`SequentialChunks`. `SharedHandles` composes what `ContainerCommit` takes for
granted, that there is one writer with a fresh snapshot; it keeps of Commit
only the steps another process can see. `RecoveryDamage` extends
`ContainerCommit`; `Rebuild` composes `Catalog`, `DirIndex` and `EntryReader`,
and takes from `ContainerCommit` that Commit happens as a whole or not.

### FbxFormat and ContainerCommit

A blob is a record that names its kind; `log` is the sequence of blobs, so an
offset is a position in `log`. Sizes follow from the blobs and are left out. A
checksum is represented by the blob it covers: `h.dirCrc` is the directory that
was encoded when the CRC was computed, and "the CRC matches" is equality. So
CRC collisions are outside the model. A header's `kind` is its magic together with
its word of required features: in a `refused` one that word has a bit the code
does not know (`header_ext.go:111`). Open gives up (`Fatal`) on a refused slot and on
a directory above the read cap; for every other error it goes on to the next source.
A path's payload is one chunk; that a
payload may have many is the matter of the chunk modules.

Storage is external and modelled from what the code may rely on. A write is
visible to reads at once and becomes durable at any time, in any order, until
an fsync succeeds. That includes what Create writes, which syncs only with
`SyncOnCommit` (`container.go:248`). `disk[s]` is the set of contents power loss may leave in slot
`s`: after an overwrite these include every mix of the old and new field groups
and garbage (`Tears`), as headers have no checksum. With `SectorLoss`, an
overwrite that is in flight may also destroy both slots, which share a sector.
`dirty` is what is still to be written back. A failed write may have written all or
nothing; a failed fsync may leave pages dirty or drop them. `Crash` keeps any
of the appended blobs that were not known to be durable.

`pc` follows Commit's own order: `tx` (between Begin and Commit), then `idx`,
`sync1`, `jnl`, `bkp`, `sync2`, `bak`, `sync3`, `prim`, `sync4`, `publish`;
`pprim`, `pbak`, `psync` are the write-back in Open. `acked` and `maybe` are ghosts: the
last snapshot whose Commit returned nil, and those of commits in doubt since.

### SequentialChunks and ChunkPipeline

A reader is how many bytes it delivers and what it ends with: io.EOF, an
io.ErrUnexpectedEOF of its own, or another error. `ReadErr` is what `io.ReadFull`
makes of that: both writers tell the end by its error, so they take the reader's
io.ErrUnexpectedEOF for the end, too (`tx.go:604`, `:695`), and return nil with
what came before. A payload is its size, a chunk the half-open range it came from, so an entry is
right when its chunks tile the payload in order. `Encode` writes the range *the
buffer holds by then*, so a buffer that is given back too early shows up as a
chunk with the wrong content. The record in flight, the pool, both channels
(capacity twice the workers) and the map of pending results are variables.

### SharedHandles

A goroutine has a program counter named after the step it will take next; the
file is a log of chunks and directories and two header slots. A Container is
the slot in `handle` and can be opened again after Close (a new `Container` in
the code). The flock belongs to an open file description, hence to a Container;
where the build has no flock (`Flock = FALSE`, `file_lock_nonunix.go`) taking
it does nothing. `Crash(p)` kills a process: its goroutines and locks go, its
writes stay. `Damaged` starts from a file whose primary header was lost
in a power loss.

Where writers block or give up, Begin's actions are one per lock (`LockTxMu`,
`LockMu`, `BeginLockProcess`, `BeginLockFile`) and `release` is one per unlock,
because others run in between.

### RecoveryDamage

Two more things happen to `ContainerCommit`'s file. `Kill` ends the process at
any step and leaves what it has written. `DamageBlob` and `DamageSlots` hit a
file at rest: everything was written back, then a blob becomes `Bad`, which no
checksum accepts, or the slots are hit. A slot has no checksum, so it may hold
nothing Open takes for a header, a header it refuses, or one with generation 0,
which is not compared with the index (`HitSlot`); a flip in the fields that point at the
directory or the index shows, as they no longer match. One directory stays whole, else there is nothing to recover.
The ghosts `committed` and `begun` are `acked` and `maybe` without what an Open
in between has shown, so that a recovery cannot redefine what it has to find.

The ghost `enough` says of *each* damage, at the moment it happens, that it hit
no directory and no index and left a copy of the header (`CopyLeft`): a slot that can
be loaded, both tail records, or the BKP1 and a clock that never went back. It is
not enough to ask this of the last damage only. If the newest BKP1 is damaged,
an older JNL1 of a later second may win; Open recovers that older snapshot into
the slots; and once that JNL1 is damaged too, what is left looks in order again.

### DirIndex, EntryReader, Catalog

A directory's rows are the paths in the order of strings, which the sequence
`PathOrder` gives; `Sorted` is what `sort.Slice` makes of a set and an order;
`HashOf` is an arbitrary function, so collisions are chosen by the instance. The ranges are the
maximal runs of rows with one hash, sorted by hash and first row, as the loop of
`buildDirIndexHashRanges` makes them; `findEntryByPathFromDirIndex` searches
from the first range whose hash is not smaller. A payload is given by where its
chunks end (`ChunkEnds`), and a chunk on disk is ok, flipped (its CRC shows it),
unreadable, or another chunk's record. A reader is where it is in the payload
and in the chunk it has loaded. The file is not cut short while it is open: a
chunk behind the new end would give io.EOF (`chunk.go:75`), which the reader passes on
as the end of the entry. `Stops` says when the loop of `Read` ends before
the buffer is full, and `StopError` with what. `Catalog` counts
stored bytes with the record header, and the total of several entries as the number
of their bytes (`TotalStored`). A put that fails leaves the chunk records it has
appended (`TxPutFails`, `PrefixBytes`), and an Upsert or Replace has counted the old
payload by then. The ghosts say what the counter should be: `written` bytes, of
which `lost` belong to payloads that failed and are not counted, and `over`,
what was counted though it is still in use. `Accounted` is an equation in them.

### Rebuild

`file` is what the container's name stands for, `other` what the names of the
temporary file and of the output stand for; `disk` is what a power loss may
leave under the target's name. `job` is the running call, its `pc` the place in `packInto` or
`ConvertZIPToFBX`. `Todo` are the entries, or files of the archive, that it has to
copy, `Rest` those still to come. Reading an entry is one action per turn of
`Read`'s loop (`ReadStarts`, `ReadCopies`), first by `Peek`, whose error `writeEntry`
drops (`PeekEnds`), then to the end (`ReadEnds`), so chunks may go bad between
Verify, Peek and Read and between two chunks. A `Read` that stops with some bytes
returns them without the error (`ReadReturns`), and the next one meets it again.
The files of an archive are read in the same way; each has the payload that its
reader gives and what that ends with, so one that is cut short (archive/zip gives
io.ErrUnexpectedEOF) is stored as far as it goes and one with a wrong checksum
fails the import (`ReadError`).
A failing Pack removes the target whether or not it has created it, and drops the
error of that (`Cleanup`, `left`); a failing import leaves it. The directory is external: it is never
synced, so a power loss may undo the rename or the removal, but the sync of a file
makes its name durable too, as journaling file systems do.

## Runs

All runs check the state space exhaustively within the bounds their `.cfg` names.

| Run | Shows | Instance |
|---|---|---|
| `commit_crash` | `TypeOK`, `SnapshotSurvives`: two power losses at any step, torn and lost slots, a tail scan that sees the last two blobs only | 1 path, 1 payload, 2 metas, log of 14, generation up to 2 (so that it saturates) |
| `commit_faults` | `SnapshotSurvives`, `HandleReadable`, refinement of `AtomicSnapshots`, with two failing calls and a power loss | as above, tail scan sees everything |
| `commit_nosync` | without any fsync Open succeeds as long as Create's directory is left (`StaysOpenable`), though the latest commits may be lost | log of 9, one power loss, any subset of the writes survives, Create's too |
| `recovery_damage` | `DamageLosesNothing`: kills at any step, two damaged regions | 1 path, log of 10, two clock values |
| `pipeline` | parallel implements sequential, fails only where it may, terminates (`ImplementsSequential`); `ChunksTile`, `NothingLeft` | 2 workers, chunk size 2, limit 9; payloads of 9 and 10 bytes, and of 0, 3 and 4 with a reader that ends with io.EOF, io.ErrUnexpectedEOF or another error; any encode or append may fail |
| `rebuild` | `LookupAgrees`, `DeadBytesAccounted`, and of Pack and ConvertZIPToFBX `InputSurvives`, `OutputWhole`, `NoTempLeft` | 3 paths, two of them (not neighbours) with one hash, an empty payload and one of two chunks, 3 operations; then 1 Pack with 5 sets of options, or an import of one of 3 archives, with files cut short, with a wrong checksum, of one path and of none; 1 damaged chunk, 1 failing call, kill or power loss; counters saturating at 7 |
| `shared_processes` | `TypeOK`, `OneWriter`, `SnapshotsIntact`, `NoLockLeft` across two processes after a power loss | 2 goroutines, 3 transactions, one killed process, one failing call |
| `shared_onewriter` | `AckedSurvives`, `GenerationGrows` when all transactions go through one Container | 3 goroutines, 3 transactions, one killed process, one failing call |
| `shared_waiting` | `CallsReturn`, and `OneWriter` by the process lock alone | 3 goroutines on 2 Containers, 2 transactions, no flock |
| `shared_stale`, `shared_recovery` | findings 1, 2 | smallest instances that show them |
| `recovery_journal` | finding 3 | log of 14, 1 damaged region, synced commits |

Why these bounds are enough. The commit protocol is the same for every commit
and depends on the previous one only through the header and the tail, so two
or three commits with a crash in each meet all pairs of interrupted steps; a
log of 14 holds the created container and two to three commits with payloads.
`Window = 2` is the least for which one pair of tail records can be found. For
`ContainerCommit` the theorems below remove the bounds. In `pipeline` the
long payloads have five chunks for channels of four, so the producer and the
workers do block; one ends with a short chunk at the limit, one is above it. The
short ones end, in each of the three ways, with nothing, with a short chunk and with an
even cut. In
`SharedHandles` a lost update needs two transactions and one that started
earlier; a third lets a leftover of a killed transaction lie between two others;
for its safety properties the theorems remove the bounds. In `recovery_damage` a
log of 10 holds the created container, a whole commit and two blobs more, or a
killed commit, the recovery that follows and another commit; of the four
sources Open has, two damaged regions take away two. In `rebuild`
three operations put the three paths, of which two share a hash, or put, replace
and remove one, and a put may fail with none, one or both of its
chunks appended; what they make is packed, or imported over. Two chunks let a
reader fail after some bytes; a buffer of two units reads a chunk in one or in
several calls. A job that fails for a damaged chunk or a limit leaves the failing
call, the kill or the power loss to its cleanup. The theorems
remove the bounds of these runs, except that `DInv` needs the whole log in the tail window.

Deadlock is checked in the commit and shared runs but `commit_nosync`, where a
power loss may leave nothing that Open accepts. `pipeline`
turns it off because the call returns and nothing follows;
that it does return is part of `ImplementsSequential`. The recovery runs do because a
damaged file may be one that Open refuses, and `rebuild` because the bounds
of operations and jobs end a behaviour, and a power loss after a Pack with
FastUnsafe may leave no container to go on with.

Fairness. `ContainerCommit` has none: nothing obliges a caller to commit, and
its properties are safety. `ChunkPipeline` has weak fairness per goroutine:
the Go scheduler runs a goroutine that can run, and channel operations that
stay enabled happen. `SequentialChunks` is fair in the same sense. `SharedHandles!FairSpec` has
weak fairness for what a goroutine does without waiting for a mutex, including that
the caller ends its transaction, and strong fairness for taking a mutex: a
`sync.Mutex` passes itself to a waiter that has waited for a millisecond, so a
waiter is not overtaken forever. No such promise is assumed of flock: the run
with fairness has one process, where the process lock comes first and the
flock is never contended. Crashes and failures are never fair; `shared_waiting` has
none (`MaxFails = 0`), so of failing calls it is not checked that the others'
calls return, only, by `NoLockLeft`, that they leave no lock behind.

## Findings

1. `shared_stale`: Begin does not look at the file's header once it holds the
   locks. A Container opened before another one committed commits from its own
   snapshot: the generation goes back and the other's entries are gone
   (`tx.go:256`, against `docs/V1_EXTENSION_SPEC.md:40`).
2. `shared_recovery`: Open reads the slots without a lock, waits for the locks
   and writes the recovered header without looking again, possibly over a
   commit that happened meanwhile (`container.go:81`, against `README.md:31`).
3. `recovery_journal`: recovery accepts a JNL1 for which no BKP1 was written, and so
   completes a commit that was interrupted between the two (`journal.go:110`, against
   `docs/V1_EXTENSION_SPEC.md:105`, where it MUST be ignored). `DamageLosesNothing`
   allows it, since that snapshot's Commit had begun; `IncompleteIgnored` is the document's
   rule. `docs/FORMAT_AND_RECOVERY.md:36` says otherwise: the latest valid record by
   timestamp, of either kind.

Seven more places are hazards and
shape a property or a hypothesis rather than have a run. The directory scan
prefers the directory with the most readable entries to the newest one, so a removal may
be undone although the newest directory is whole (`recovery_scan.go:98`, against
`docs/FORMAT_AND_RECOVERY.md:37`; the test
`TestOpenDirectoryScanPrefersMostReadableSnapshotOverNewest`, `recovery_scan_test.go:134`,
wants that where a chunk of the newest directory is damaged). With its index damaged
Open goes on to that scan and succeeds (`container.go:61`, against
`docs/V1_EXTENSION_SPEC.md:147`, where it MUST fail, while
`FBX_RFC_BinarySpec_GoDoc_v1.md:857` has the container stay openable, which is what
`StaysOpenable` states): hence `DamageLosesNothing` asks nothing of a file whose
directories or indexes are damaged. Of two tail records recovery
takes the one with the latest second, not the highest generation
(`docs/V1_EXTENSION_SPEC.md:117`): hence the condition `CopyLeft` of
`DamageLosesNothing`. A reader's own io.ErrUnexpectedEOF ends a payload without an
error (`tx.go:604`), so the import of an archive with a file that is cut short
returns nil: `ChunksTile` and `OutputWhole` say what is stored then. What a failed
put has appended is in no counter (`tx.go:624`), while pack skips a container
without dead bytes (`cmd/fbx/main.go:761`); as the documents call the counter an
estimate, `Accounted` has the difference as a term. Where there is no flock, two processes append at the same
offset (`file_lock_nonunix.go:7`): hence the hypothesis `Excluded` of the
theorems about `SharedHandles`. And Commit writes a directory of any size, while
Open refuses one above 1 GiB as a limit error that recovery must not touch, so a commit
that returned nil may never be opened again (`tx.go:243`): hence the directory
cap in `Assumed`.

## Proofs

`ContainerCommit_proofs` proves, for every value of the constants that
satisfies the modules' assumptions and `Assumed`:

- `Invariance`: `Spec => []IInv`;
- `CrashSafe`, `HandlesStayReadable`: `SnapshotSurvives` and `HandleReadable`
  are invariants;
- `Refinement`: `Spec => ImplementsAtomicSnapshots`.

`Assumed` says that commits are synced (without fsync `SnapshotSurvives` is
false by design), that there are finitely many paths and not more than the
directory cap (above it Open refuses what Commit wrote), and that the tail records stay in reach: the
tail scan sees everything, or no write fails and it sees at least the last two
blobs. The second case covers any number of power losses; with failing header
writes *and* a tail that later blobs push out of reach, both slots may be in
doubt and only the directory scan is left, which may find something older.

Why `SnapshotSurvives` is not inductive: it speaks of closed containers only,
and says nothing about which of four sources can be trusted while a commit or
a write-back is half done. The heart of `IInv` is

    Recoverable == Calm \/ Covered \/ Fallback

- `Calm`: no slot write is in flight and the primary is right;
- `Covered`: the primary is on disk and right, whatever is happening to the
  backup, and a durable pair of tail records holds an allowed snapshot;
- `Fallback`: neither slot can be trusted, but a slot that *can be loaded* is
  allowed and the tail pair is there. A torn header mixes fields of two
  headers; it can be loaded only if its index describes its directory, so
  it shows one of the two snapshots and never a mixture (`SafeSlot`).

Commit moves from `Calm` to `Covered` at the fsync after the tail records, to
`Fallback` when the primary is being written, and back to `Calm` at the last
fsync; a crash or a failed call stays within the disjunction. The other
parts say what backs it: every header record that was ever appended points to
durable blobs (`RecordsGood`, the first fsync), every slot value too (`SlotsGenuine`),
no allowed snapshot's chunks are ever overwritten (`AllowedKept`, which needs
`OffsetInv`: the transaction's offset lies beyond all durable blobs), and what
each program counter implies (`HeaderInv`, `RecordInv`, `SlotInv`, `MemInv`). `CalmInv` is
for the short tail window: nothing is appended unless the slots are calm.

The proof has one lemma per action; lemmas about the storage operators
(`PutAtKeeps`, `PutSlotKeeps`, `FlushKeeps`, `FrameKeeps`) say once which
parts of the invariant they keep, and `OpenFinds` says that `Recoverable`
implies that Open returns an allowed snapshot. The refinement follows from
`IInv` action by action: `AppendJnl`'s and `AppendBkp`'s steps put a snapshot
in doubt, `Publish` acknowledges it, Open makes one visible, all else is invisible.

`ContainerCommitOpens_proofs` needs none of `Assumed` but the directory cap, and
that only for the last of its theorems:

- `Foundation`: `Spec => []Founded`; `TypeCorrect`: `TypeOK` is an invariant;
- `StaysOpenableHolds`: if there are finitely many paths and not more than the
  cap, `StaysOpenable` is an invariant - with `NoSyncOnCommit`, with a tail out
  of reach, whatever failed, and whichever writes a power loss has kept, if the
  directory of Create is among them.

Without fsync nothing is known of the slots and the tail, so neither `IInv` nor
anything like it holds. What is left is the last source Open tries. `Founded`
says that the first blob is the directory Create wrote or, where Create did not sync
it, perhaps the hole a power loss has left of it (`FirstDirectory`): every
transaction appends behind it (`AppendsBehind`), and recovery writes
slots only; and `NeverRefused`, that no slot has an unknown feature, since a torn
one mixes known ones. If the directory is there, it is a candidate of the directory scan, because it has no entries. That
the scan then picks one is not obvious, as it compares candidates by four
numbers one after the other: `ScanFinds` takes the most readable entries, of
those the fewest unreadable ones, of those the latest time, of those the last
position, each of which exists because the candidates are finitely many
(`LeastExists`, `GreatestExists`, `BoundExists`, from the well-foundedness of
the natural numbers).

`ChunkPipeline_proofs` proves, for any number of workers and buffers, any chunk
size, limit and payload, and whichever calls fail:

- `Invariance`: `Spec => []Inv`;
- `NothingLeftHolds`, `ChunksTileHolds`: `NothingLeft` and `ChunksTile` are
  invariants, whatever the reader ends with;
- `Refinement`: `Spec => Sequential!Safe`, the safety part of the refinement:
  every step is one of the sequential writer or invisible to its caller.

`NothingLeft` and `ChunksTile` speak of a writer that has returned. The heart
of `Inv` is that every chunk that was read and not yet passed on is in exactly
one place (`InRange`, `Apart`, `Accounted`): the channel `jobs`, a worker, the
channel `results` or the map of pending results. When all goroutines are done and
the channels empty, the only place left is the map, and a chunk in the map waits for
an earlier one that would have to be somewhere, too; so the map is empty and
the collector has passed on all that was read. The other half is that a buffer
out of the pool has one owner and holds that owner's chunk (`JobsOK`,
`WorkersOK`, `BuffersOK`): `Encode` therefore encodes what was read, however often the
buffer has been used since. `ProducerOK` and `OutputOK` relate both ends to
the payload, which is what the refinement needs.

`SharedHandles_proofs` proves, for any sets of goroutines, Containers and
processes, any number of transactions, crashes and faults, and a primary header
that is damaged or not, under the hypothesis `Excluded` (there is a flock, or
all Containers are in one process):

- `Invariance`: `Spec => []Inv`;
- `OneWriterHolds`, `SnapshotsIntactHolds`, `NoLockLeftHolds`: `OneWriter`,
  `SnapshotsIntact` and `NoLockLeft` are invariants;
- `TypeCorrect`: `TypeOK` is an invariant, with the widths it gives to the file, the
  references and the generation.

None of the first three is inductive: they speak of goroutines that write, or of the
moment when all have returned, and say nothing of those on their way. `Inv` says
for each of the four locks that it is held *exactly* by the goroutines whose program counter lies between
its lock and its unlock (`ProcessLocks`, `FileLock`, `TxMutexes`, `Mutexes`). A
Container that is the flock's owner may be in the middle of a transaction or of
an Open; that it is never both, and that a Close cannot come in between, is
`States`. With one holder at a time, a transaction's offset is the end of the file
(`AppendsAtEnd`), so the file only grows, so a header that was once good, with
all chunks its directory names, stays good (`Content`) - be it in the slots, in
a Container that is out of date, or in a goroutine that is about to write it
back. The lemma `OneHolder` derives from the locks that two goroutines are
never both entitled to write, by the flock across processes, or by the process
lock within one. Each part of `Inv` has its own lemmas about the actions that
disturb it, and one step lemma that collects them.

The widths of `TypeOK` follow from `Bounded`, which is inductive together with
`Inv`. Nothing in the state says who wrote a blob, so `Owned` says that there *is* a
map from the blobs to the numbers of transactions (0 for Create) that gives no two
chunks and no two directories the same number, and in which a transaction at work has
nothing but the chunk it refers to. Hence the file has at most two blobs per transaction
besides the first, and `Generations` compares the generation with the number of
directories in it.

`SharedHandlesOneWriter_proofs` adds the hypothesis `OneContainer`: all
goroutines that begin transactions do so on one Container, and the file needed no
recovery. Others may open, read and close it in any process. Then:

- `OneInvariance`: `Spec => [](Inv /\ OneInv)`;
- `AckedSurvivesHolds`: `AckedSurvives` is an invariant;
- `GenerationGrowsHolds`: `GenerationGrows` holds of every step.

The hypothesis is needed: the runs `shared_stale` and `shared_recovery` refute the
two properties without it. `OneInv` says what Begin takes for granted and does
not check, that the header its Container holds is as fresh as the file's:
they agree about what was acknowledged, and the generation in the file is the
Container's, or one more after a Commit that failed when it had already written
the primary header (`Fresh`). A second part follows the header of a Container that is being
opened (`OpensFresh`): it may be published only if no commit has come in between,
which `OneContainer` rules out, because the committing Container would have to be this one.

`Rebuild_proofs` proves, for any paths, payloads and ways to cut them into chunks,
any metadata, options and archives, any buffer sizes, and any number of jobs,
damaged chunks and faults:

- `Invariance`: `Spec => []Inv`;
- `InputSurvivesHolds`, `OutputWholeHolds`, `NoTempLeftHolds`: `InputSurvives`,
  `OutputWhole` and `NoTempLeft` are invariants.

`InputSurvives` and `OutputWhole` speak of what names stand for, and say nothing of
the job that is about to give a name to something else. `Inv` has two
parts. `Control` is about where the job is: an in-place Pack alone has a temporary
file, and only while it fills it. `Content` is about what is in the
files, and holds while they can be trusted (`Trusted`). Backwards from the rename: what
takes the container's place is what was built; that is what was wanted
when no entry is left to copy; until then the target's transaction holds,
of what is wanted, what the job has been through (`WantedSoFar`, in `TargetOK`): of an archive the payloads its
readers give, none of which has ended with an error other than io.ErrUnexpectedEOF; the job
put an entry there as good because the reader had passed on the whole
payload; and that it had, since a reader that stops at its end of file has
passed on exactly what lies before its position (`ReaderOK`). The last needs
that what is read is verified, or that nothing has gone bad: an entry
whose chunks are damaged stops the job (`SourceOK` says that but for damage the
source is still what was listed). And at the rename the only content of the
target a power loss may leave is what was synced (`disk = {Built}`, unless
the pack is unsafe), so undoing the rename leaves one of the two.

`RebuildCatalog_proofs` proves two more invariants of `Rebuild`, which the run
`rebuild` checks too, for the same constants:

- `LookupAgreesHolds`: `LookupAgrees` is an invariant;
- `BooksInvariance`: `Spec => []BooksInv`; `DeadBytesAccountedHolds`:
  `DeadBytesAccounted` is an invariant.

`LookupAgrees` needs nothing of the state: whatever the entries are, the index
that a commit writes for them finds exactly those. What it needs is what sorting
does. An element's place is the number of elements before it; places are
distinct and there are as many as elements, so every place is taken
(`PlaceFacts`), so the sorted sequence exists and has each element once. Rows of one
hash need not be neighbours, so the proof goes by runs: every row is in exactly one run
that cannot be made longer (`LeastNumber` and `GreatestNumber` find its ends), different runs share
no row, and the ranges are the runs ordered by hash (`RangesFacts`). A lookup
starts at the least range whose hash is not smaller, and as the ranges are
ordered, all of its hash follow without a gap.

`DeadBytesAccounted` speaks of committed containers. `Books` (in `Rebuild_inv`) says
besides that a transaction has counted what it wrote and took out of use since
it began (`CountedTx`), and that everything that may come to stand under the
container's or the output's name is in order: the temporary file, the target of the
running job, and every content a power loss may bring back. What a failed put
adds to both sides of the equation is `CountedFail`. Bytes are counted as a set, so
totals of disjoint sets of paths add up by cardinality, and a counter that
saturates twice saturates once (`saturatingAddUint64`).

`RecoveryDamage_proofs` proves, under `TailInReach` (finitely many paths, not more
than the directory cap; the tail scan sees the whole log):

- `DInvariance`: `DSpec => []DInv`;
- `DamageLosesNothingHolds`: `DamageLosesNothing` is an invariant, for any number
  of damages, kills and failing calls.

`DInv` is silent once the power was lost or a damage has left too little
(`enough`). Until then no slot is out of date (`SlotsShow`): it shows the last snapshot
whose Commit returned nil, or one begun since, or nothing, even if it is one Open
refuses, because Commit
writes the slots after its tail records and Open writes back nothing older. From
the position where the last successful commit put its records on, all header records are
as new, and there is one of each kind that was never damaged (`RecordsSince`).
Therefore a slot or the tail always leads to a snapshot that may be shown
(`HeaderLeft`, `TailShows`), and the directory scan, which might undo a removal,
is never reached. The rest says that a transaction writes behind all
that is whole (`WritesBehind`) and what each step of Commit and of a
write-back has done (`CommitMade`, `CommitSlots`, `Recovered`). That a
damage keeps `HeaderLeft` is proved by the cases of `CopyLeft`.

Only model-checked:

- the liveness part of `ImplementsSequential` (the pipeline terminates) and
  `CallsReturn`, since the prover handles neither fairness nor `ENABLED`;
- the violations: that `GenerationGrows`, `AckedSurvives` and `IncompleteIgnored` fail
  is shown by a run each.

## What the results assume

- Checksums detect damage and tears of what they cover; a hash may collide, a CRC
  does not. Header slots have none.
- A directory that Create wrote without a sync is still there (`Created`), for
  `StaysOpenable`.
- The reader of an archive's file repeats the error it ended with, as archive/zip's
  do.
- Packing is offline (`README.md:27` of the library): nobody else has the
  container open while `Rebuild` replaces it.
- `FastUnsafe` neither verifies nor syncs; `InputSurvives`, `OutputWhole` and
  `DeadBytesAccounted` exempt a pack that used it when something went bad
  (`Trusted`).
- A killed process loses no write; a power loss keeps any subset of the
  writes that no fsync has covered.
- `DamageLosesNothing` needs all directories and indexes whole, and after each
  damage a copy of the header (`CopyLeft`); without the index, the directory scan takes over,
  which may undo a removal.
- `Rebuild` has at least one path, and a payload with a chunk (`RebuildAssumption`):
  the output from before a job, which it may overwrite, holds one.

## Not modelled, and why

- Bytes: encoders and decoders, their bounds checks and CRC arithmetic, LZ4 and
  zstd, path normalization. They are sequential functions of bytes, which the
  repository's unit tests and fuzzers exercise better than TLC can.
- A read of the container that fails with an I/O error while Open looks for a
  header: it ends Open, or costs it one source, and leaves nothing behind. A file that is
  cut short while it is open.
- What a transaction that was rolled back has appended: no header has a counter
  for it.
- Create before its last write, except in `Rebuild`, where it is the target's:
  elsewhere `Init` is the container it leaves.
- A goroutine that uses two Containers at a time, and locks of two files.
- Liveness of Open's write-back: `shared_waiting` starts from an intact file. That
  the write-back gives its locks back is in `NoLockLeft`.
- That Open accepts an old primary when the backup is newer, after power loss
  between the two writes, is allowed by `SnapshotSurvives`; agreement of the
  slots (`V1_EXTENSION_SPEC.md:112`) is restored by the next commit only.
- Torn reads of a header slot by Open during a commit of another process: a
  read and a write of 128 bytes are taken to be atomic to each other.
- Names that stand for one file (links), and Pack while the container is open
  elsewhere.
- `churn_ops`, which only the display reads; Verify's two cheaper modes; the
  metadata that a ZIP import makes up.
- The command line. pack-many's pool shares nothing but the files: all paths
  are in a closed channel and every result has room.

## Plan

What would add most next, in this order:

1. `Rebuild`'s Commit and rename on the storage of `ContainerCommit`, so that
   the directory scan's header, which has no counters, meets the counters.
2. A goroutine that uses two Containers, with the order in which it takes their
   locks.
3. Power loss together with damage: `DInv` is silent after the first power loss, and
   `IInv` knows no damage.
