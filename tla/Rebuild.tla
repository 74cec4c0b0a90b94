------------------------------ MODULE Rebuild ------------------------------
(***************************************************************************)
(* Pack and ConvertZIPToFBX: the two operations that build a new container *)
(* from a source, entry by entry, while the chunks of the source may go    *)
(* bad, a call may fail, the process may be killed and the power may be    *)
(* lost.  The source of Pack is the container of Catalog, which nobody     *)
(* else has open meanwhile: packing is done offline.                       *)
(*                                                                         *)
(* The directory that holds the files is external: it is never synced, so  *)
(* a power loss may undo a rename or a removal; the sync of a file makes   *)
(* its name durable too.                                                   *)
(***************************************************************************)
EXTENDS Catalog

CONSTANTS
    PackOpts,   \* the options Pack is called with
    Archives,   \* archives: for each file its path and metadata, the payload that a
                \* reader of it gives, and what that ends with
    BufSize,    \* the most the chunk writer asks of one Read
    PeekSize,   \* what writeEntry looks at before it reads
    MaxJobs,    \* bound: calls of Pack and ConvertZIPToFBX
    MaxDamage,  \* bound: chunks of the source that go bad
    MaxFaults   \* bound: failing calls, kills and power losses

ASSUME RebuildAssumption ==
    /\ PackOpts \subseteq [inPlace : BOOLEAN, VerifyIn : BOOLEAN, FastUnsafe : BOOLEAN,
                           ClearMeta : BOOLEAN, maxEntry : Nat, maxChunk : Nat]
    /\ \A z \in Archives : /\ z \in Seq({z[i] : i \in DOMAIN z})
                            /\ \A i \in DOMAIN z : z[i].gives \in Vals
    /\ BufSize \in Nat /\ PeekSize \in 1 .. BufSize
    /\ MaxJobs \in Nat /\ MaxDamage \in Nat /\ MaxFaults \in Nat
    /\ PathOrder # <<>> /\ \E v \in Vals : ChunkEnds[v] # <<>>

VARIABLES
    other,      \* what the names "tmp" and "out" stand for; left, a ghost: a
                \* removal has failed
    disk,       \* what a power loss may leave under the target's name
    job,        \* the call of Pack or ConvertZIPToFBX that is running
    vals,       \* ghost: what is committed to the container (set of one, or two)
    want,       \* ghost: what outputs were to hold
    unsafe,     \* ghost: FastUnsafe has been used
    crashed,    \* ghost: a process was killed or the power lost
    jobs, damage, faults

budgets == <<jobs, damage, faults>>
ghosts == <<vals, want, unsafe, crashed>>
rebuildVars == <<other, disk, job, ghosts, budgets>>
vars == <<catalogVars, rebuildVars>>

Nothing == [p \in Paths |-> NoEntry]

NoMeta == "no metadata"

\* What a container holds: payloads, as far as they are what was meant, and
\* metadata.
ValueOf(e) ==
    IF e = NoEntry THEN NoEntry
    ELSE [val |-> IF e.good THEN e.val ELSE "garbage", meta |-> e.meta]

Values(c) == [p \in Paths |-> ValueOf(c.entries[p])]

Cleared(vs) == [p \in Paths |-> IF vs[p] = NoEntry THEN NoEntry ELSE [vs[p] EXCEPT !.meta = NoMeta]]

\* src: the container, or the archive, that is read; i: how far it has been;
\* dst: the target's transaction; of the entry that is being copied: r, its
\* reader; got, what Upsert has of it; room, what the Read under way may still
\* return, and some, whether it has anything to return.
NoJob ==
    [pc |-> "none", kind |-> "none", opts |-> "none", inPlace |-> FALSE, src |-> NoFile,
     i |-> 0, dst |-> NoTx, r |-> "none", got |-> Received0, room |-> 0, some |-> FALSE]

\* A container with one entry that may be there under the output's name.
OldOutput ==
    LET v == CHOOSE v \in Vals : ChunkEnds[v] # <<>>
    IN  Committed(EmptyContainer, Stored(BeginWith(EmptyContainer.entries), PathOrder[1], v, NoMeta))

Init ==
    /\ CatalogInit
    /\ other \in {[tmp |-> NoFile, out |-> c, left |-> FALSE] : c \in {NoFile, OldOutput}}
    /\ disk = {}
    /\ job = NoJob
    /\ vals = {Nothing} /\ want = {Values(OldOutput)}
    /\ unsafe = FALSE /\ crashed = FALSE
    /\ jobs = 0 /\ damage = 0 /\ faults = 0

----------------------------------------------------------------------------

At(pc) == job.pc = pc
Goto(pc) == job' = [job EXCEPT !.pc = pc]

Target == IF job.inPlace THEN "tmp" ELSE "out"
SetTarget(c) == other' = [other EXCEPT ![Target] = c]

UnchangedSource == UNCHANGED catalogVars

\* ConvertZIPToFBX without ContainerOptions: it syncs.
Synced == job.kind = "zip" \/ ~job.opts.FastUnsafe

\* The directory and header that Commit writes.
Built == Committed(EmptyContainer, job.dst)

\* What was written is seen, a write under way perhaps.
Seen ==
    {other[Target]} \cup (IF At("created") THEN {EmptyContainer} ELSE {})
                    \cup (IF At("commit") THEN {Built} ELSE {})

\* Mutant: whatever fails, the temporary file stays.
Cleanup_Keeps == UNCHANGED <<other, disk>>

\* Pack removes the target, whether it has created it or not, and drops the error
\* of that; ConvertZIPToFBX leaves what there is.
Cleanup ==
    \/ /\ job.kind = "pack"
       /\ SetTarget(NoFile)
       /\ disk' = disk \cup {NoFile}
    \/ /\ \E c \in Seen :
            other' = [other EXCEPT ![Target] = c, !.left = @ \/ job.kind = "pack"]
       /\ UNCHANGED disk

\* The call returns an error.
JobFails ==
    /\ Cleanup
    /\ Goto("finished")
    /\ UnchangedSource

----------------------------------------------------------------------------
(* The source.                                                             *)

StartPack(o) ==
    /\ At("none") /\ handle.state = "closed" /\ jobs < MaxJobs
    /\ job' = [NoJob EXCEPT !.pc = "open", !.kind = "pack", !.opts = o, !.inPlace = o.inPlace]
    /\ disk' = {other[IF o.inPlace THEN "tmp" ELSE "out"]}
    /\ jobs' = jobs + 1
    /\ unsafe' = (unsafe \/ o.FastUnsafe)
    /\ UnchangedSource /\ UNCHANGED <<other, vals, want, crashed, damage, faults>>

\* Open, and Verify if that is wanted.
OpenSource ==
    /\ At("open")
    /\ LET bad == \E p \in Live(file.entries) :
                    LET e == file.entries[p]
                    IN  VerifyFails(ChunkEnds[e.val], e.chunks, job.opts.maxChunk)
       IN  IF ~IsContainer(file) \/ (job.opts.VerifyIn /\ bad)
             THEN JobFails
             ELSE Goto("list") /\ UnchangedSource /\ UNCHANGED <<other, disk>>
    /\ UNCHANGED <<ghosts, budgets>>

\* List: the entries as the source has them from now on.
ListSource ==
    /\ At("list")
    /\ job' = [job EXCEPT !.pc = "create", !.src = file]
    /\ UnchangedSource /\ UNCHANGED <<other, disk, ghosts, budgets>>

\* The archive is opened.  Without Overwrite nothing may be there yet.
StartZip(z, overwrite) ==
    /\ At("none") /\ handle.state = "closed" /\ jobs < MaxJobs
    /\ overwrite \/ other["out"] = NoFile
    /\ job' = [NoJob EXCEPT !.pc = "create", !.kind = "zip", !.src = z]
    /\ disk' = {other["out"]}
    /\ jobs' = jobs + 1
    /\ UnchangedSource /\ UNCHANGED <<other, ghosts, damage, faults>>

----------------------------------------------------------------------------
(* The target.                                                             *)

\* What the first n files of an archive make of path p: of two files with the
\* same path the last one stays.
AfterFiles(z, n, p) ==
    LET is == {i \in DOMAIN z : i <= n /\ z[i].path = p}
        f == z[CHOOSE i \in is : \A j \in is : j <= i]
    IN  IF is = {} THEN NoEntry
        ELSE [val |-> IF f.ending = "error" THEN "unreadable" ELSE f.gives, meta |-> f.meta]

\* The payloads the target is to hold.
Wanted ==
    IF job.kind = "pack"
      THEN IF job.opts.ClearMeta THEN Cleared(Values(job.src)) ELSE Values(job.src)
      ELSE [p \in Paths |-> AfterFiles(job.src, Len(job.src), p)]

\* Mutant: the target of an in-place pack is the input itself.
Create_InPlace ==
    /\ At("create")
    /\ Goto("created")
    /\ IF job.inPlace THEN file' = NotAContainer /\ UNCHANGED <<other, handle, tx, ops>>
                      ELSE SetTarget(NotAContainer) /\ UnchangedSource
    /\ disk' = disk \cup {NotAContainer, EmptyContainer}
    /\ want' = IF job.inPlace THEN want ELSE want \cup {Wanted}
    /\ UNCHANGED <<vals, unsafe, crashed, budgets>>

\* Create truncates what is there and writes the headers last.
Create ==
    /\ At("create")
    /\ Goto("created")
    /\ SetTarget(NotAContainer)
    /\ disk' = disk \cup {NotAContainer, EmptyContainer}
    /\ want' = IF job.inPlace THEN want ELSE want \cup {Wanted}
    /\ UnchangedSource /\ UNCHANGED <<vals, unsafe, crashed, budgets>>

\* Its last write and its sync; then Begin.
CreateEnds ==
    /\ At("created")
    /\ SetTarget(EmptyContainer)
    /\ disk' = IF Synced THEN {EmptyContainer} ELSE disk
    /\ job' = [job EXCEPT !.pc = "next", !.dst = BeginWith(EmptyContainer.entries)]
    /\ UnchangedSource /\ UNCHANGED <<ghosts, budgets>>

----------------------------------------------------------------------------
(* The entries, in the order List sorts them, or the files of an archive.   *)

Todo ==
    IF job.kind = "pack" THEN {j \in DOMAIN PathOrder : PathOrder[j] \in Live(job.src.entries)}
                         ELSE DOMAIN job.src

Rest == {j \in Todo : j > job.i}

\* The next one.
IsUp(j) == j \in Rest /\ \A k \in Rest : j <= k

----------------------------------------------------------------------------
(* Copying an entry: OpenReader, or the Open of the archive's file, then    *)
(* Upsert, which peeks at the payload and then reads it to the end.        *)

\* The entry that is copied, and the path it gets.
Copying == IF job.kind = "pack" THEN PathOrder[job.i] ELSE job.src[job.i].path
Original ==
    IF job.kind = "pack" THEN job.src.entries[Copying]
                         ELSE NewEntry(job.src[job.i].gives, job.src[job.i].meta)

StartReading(j, ends, limits) ==
    /\ job' = [job EXCEPT !.pc = "peek", !.i = j, !.r = NewReader(ends, limits),
                          !.got = Received0, !.room = 0]
    /\ UnchangedSource /\ UNCHANGED <<other, disk>>

\* OpenReader refuses an entry above the limit.
OpenEntry(j) ==
    /\ At("next") /\ job.kind = "pack" /\ IsUp(j)
    /\ LET ends == ChunkEnds[job.src.entries[PathOrder[j]].val]
           o == job.opts
           limits == [verifyCRC |-> ~o.FastUnsafe, maxEntry |-> o.maxEntry, maxChunk |-> o.maxChunk]
       IN  IF o.maxEntry > 0 /\ FileSize(ends) > o.maxEntry
             THEN JobFails
             ELSE StartReading(j, ends, limits)
    /\ UNCHANGED <<ghosts, budgets>>

\* A name that is no path ends the conversion.
OpenMember(j) ==
    /\ At("next") /\ job.kind = "zip" /\ IsUp(j)
    /\ IF job.src[j].path \notin Paths
         THEN JobFails
         ELSE StartReading(j, ChunkEnds[job.src[j].gives],
                           [verifyCRC |-> TRUE, maxEntry |-> 0, maxChunk |-> 0])
    /\ UNCHANGED <<ghosts, budgets>>

Reading == job.pc \in {"peek", "read"}

\* The state of a container's chunks is that of this moment.
OnDisk == IF job.kind = "pack" THEN file.entries[Copying].chunks ELSE Original.chunks

\* Mutant: any error is taken for the end of the payload.
ReadError_Any == "EOF"

\* What a Read returns that has nothing to return.  Readers of archives repeat
\* their error, which is io.ErrUnexpectedEOF for a file that is cut short.
ReadError == IF job.kind = "zip" THEN job.src[job.i].ending ELSE StopError(job.r)

\* The buffer that Upsert puts before the source asks it for n units: to fill
\* itself up to PeekSize, and later whatever it needs.
ReadStarts(n) ==
    /\ Reading /\ job.room = 0
    /\ job' = [job EXCEPT !.room = n, !.some = FALSE]
    /\ UnchangedSource /\ UNCHANGED <<other, disk, ghosts, budgets>>

\* Where a Read without an error leads.
AfterRead(got) == IF At("peek") /\ got.len < PeekSize THEN "peek" ELSE "read"

\* A turn of the loop of Read, which is the last if it uses up the room.
ReadCopies(m) ==
    /\ Reading /\ job.room > 0 /\ ~Stops(job.r, OnDisk)
    /\ LET r == Loaded(job.r, OnDisk)
           got == Received(job.got, r, m)
       IN  /\ m <= job.room /\ m <= r.upto - r.at
           /\ m = job.room \/ m = r.upto - r.at
           /\ job' = [job EXCEPT !.r = Copied(r, m), !.got = got, !.room = @ - m, !.some = TRUE,
                                 !.pc = IF m = job.room THEN AfterRead(got) ELSE @]
    /\ UnchangedSource /\ UNCHANGED <<other, disk, ghosts, budgets>>

\* Mutant: the reader counts the chunk it could not read.
ReadReturns_MovesOn ==
    /\ Reading /\ job.room > 0 /\ Stops(job.r, OnDisk)
    /\ job.some
    /\ job' = [job EXCEPT !.room = 0, !.pc = AfterRead(job.got), !.r.idx = @ + 1]
    /\ UnchangedSource /\ UNCHANGED <<other, disk, ghosts, budgets>>

\* Read stops with what it has, if that is anything.
ReadReturns ==
    /\ Reading /\ job.room > 0 /\ Stops(job.r, OnDisk)
    /\ job.some
    /\ job' = [job EXCEPT !.room = 0, !.pc = AfterRead(job.got)]
    /\ UnchangedSource /\ UNCHANGED <<other, disk, ghosts, budgets>>

\* Peek has an error or EOF, and writeEntry ignores it.
PeekEnds ==
    /\ At("peek") /\ job.room > 0 /\ Stops(job.r, OnDisk)
    /\ ~job.some
    /\ job' = [job EXCEPT !.room = 0, !.pc = "read"]
    /\ UnchangedSource /\ UNCHANGED <<other, disk, ghosts, budgets>>

\* The entry as Upsert records it in the target's transaction.
PutEntry(p, v, m, good) ==
    LET t == Stored(job.dst, p, v, m)
    IN  IF good THEN t ELSE [t EXCEPT !.entries[p].good = FALSE]

\* The chunk writer has io.EOF or io.ErrUnexpectedEOF, and Upsert returns, or it
\* has another error.
ReadEnds ==
    /\ At("read") /\ job.room > 0 /\ Stops(job.r, OnDisk)
    /\ ~job.some
    /\ LET e == Original
           whole == job.got = [len |-> FileSize(ChunkEnds[e.val]), same |-> TRUE]
           m == IF job.kind = "pack" /\ job.opts.ClearMeta THEN NoMeta ELSE e.meta
       IN  IF ReadError = "error"
             THEN JobFails
             ELSE /\ job' = [job EXCEPT !.pc = "next",
                                        !.dst = PutEntry(Copying, e.val, m, whole /\ e.good)]
                  /\ UnchangedSource /\ UNCHANGED <<other, disk>>
    /\ UNCHANGED <<ghosts, budgets>>

----------------------------------------------------------------------------
(* Commit and what follows it.                                             *)

\* From here on a power loss may leave the new directory.
CommitStarts ==
    /\ At("next") /\ Rest = {}
    /\ Goto("commit")
    /\ disk' = disk \cup {Built}
    /\ UnchangedSource /\ UNCHANGED <<other, ghosts, budgets>>

\* Commit returns nil, and the files are closed.
CommitEnds ==
    /\ At("commit")
    /\ SetTarget(Built)
    /\ disk' = IF Synced THEN {Built} ELSE disk
    /\ Goto(IF job.inPlace THEN "rename" ELSE "finished")
    /\ UnchangedSource /\ UNCHANGED <<ghosts, budgets>>

\* The temporary file takes the place of the input.
Rename ==
    /\ At("rename")
    /\ file' = other["tmp"]
    /\ other' = [other EXCEPT !["tmp"] = NoFile]
    /\ job' = [job EXCEPT !.pc = "renamed", !.src = file]
    /\ vals' = IF job.opts.ClearMeta THEN vals \cup {Cleared(v) : v \in vals} ELSE vals
    /\ UNCHANGED <<handle, tx, ops, disk, want, unsafe, crashed, budgets>>

\* The call has returned, and what it did to the directory is on disk.
Finish ==
    /\ job.pc \in {"finished", "renamed"}
    /\ job' = NoJob
    /\ disk' = {}
    /\ UnchangedSource /\ UNCHANGED <<other, ghosts, budgets>>

----------------------------------------------------------------------------
(* What can go wrong.                                                      *)

Active == job.pc \notin {"none", "finished", "renamed"}

Fault == faults < MaxFaults /\ faults' = faults + 1

\* Any call on the way returns an error; in the reading of an archive's file one
\* that is not io.ErrUnexpectedEOF.
CallFails ==
    /\ Active /\ Fault
    /\ JobFails
    /\ UNCHANGED <<ghosts, jobs, damage>>

\* A chunk of the container goes bad, at rest or while it is being packed.
Damage(p, k, d) ==
    /\ handle.state = "closed" /\ ~At("renamed") /\ damage < MaxDamage
    /\ file' = [file EXCEPT !.entries[p].chunks[k] = d]
    /\ damage' = damage + 1
    /\ UNCHANGED <<handle, tx, ops, other, disk, job, ghosts, jobs, faults>>

\* The process is killed.
Kill ==
    /\ Active /\ Fault
    /\ \E c \in Seen : SetTarget(c)
    /\ job' = NoJob /\ disk' = {}
    /\ crashed' = TRUE
    /\ UnchangedSource /\ UNCHANGED <<vals, want, unsafe, jobs, damage>>

\* The power is lost: the rename may be undone.
PowerLoss ==
    /\ job.pc # "none" /\ Fault
    /\ \E c \in disk :
        IF At("renamed")
          THEN \/ file' = c /\ UNCHANGED <<other, handle, tx, ops>>
               \/ file' = job.src /\ SetTarget(c) /\ UNCHANGED <<handle, tx, ops>>
          ELSE SetTarget(c) /\ UnchangedSource
    /\ job' = NoJob /\ disk' = {}
    /\ crashed' = TRUE
    /\ UNCHANGED <<vals, want, unsafe, jobs, damage>>

----------------------------------------------------------------------------

\* The container is used between the jobs.
UseContainer ==
    /\ At("none")
    /\ CatalogNext
    /\ vals' = IF IsContainer(file') /\ tx.open /\ file' # file THEN {Values(file')} ELSE vals
    /\ UNCHANGED <<other, disk, job, want, unsafe, crashed, budgets>>

JobStep ==
    \/ OpenSource \/ ListSource
    \/ Create \/ CreateEnds
    \/ At("next") /\ \E j \in Rest : OpenEntry(j) \/ OpenMember(j)
    \/ \E n \in 1 .. BufSize : ReadStarts(n) \/ ReadCopies(n)
    \/ ReadReturns \/ PeekEnds \/ ReadEnds
    \/ CommitStarts \/ CommitEnds \/ Rename \/ Finish

Next ==
    \/ UseContainer
    \/ \E o \in PackOpts : StartPack(o)
    \/ \E z \in Archives, b \in BOOLEAN : StartZip(z, b)
    \/ JobStep
    \/ CallFails \/ Kill \/ PowerLoss
    \/ /\ IsContainer(file)
       /\ \E p \in Live(file.entries), d \in Damages :
            \E k \in DOMAIN file.entries[p].chunks : Damage(p, k, d)

Spec == Init /\ [][Next]_vars

----------------------------------------------------------------------------

\* FastUnsafe neither checks what it reads nor syncs what it writes: that is for
\* media without faults.
Trusted == ~unsafe \/ (~crashed /\ damage = 0)

\* Whatever fails, is killed or loses power while a container is packed, in
\* place or not, its name stands at every moment for a container with all the
\* payloads that were committed to it, and no other, and with their metadata
\* unless ClearMeta was asked for.
InputSurvives ==
    Trusted => IsContainer(file) /\ Values(file) \in vals

\* What Pack and ConvertZIPToFBX leave under the output's name holds all
\* entries of a source, payload and metadata, or none at all; never a part of
\* them, and never a payload that was damaged while it was copied.  A file of an
\* archive stands for what its reader gives before it ends with io.EOF or with
\* io.ErrUnexpectedEOF: one that is cut short is stored as far as it goes.
OutputWhole ==
    (Trusted /\ IsContainer(other["out"])) => Values(other["out"]) \in {Nothing} \cup want

\* An in-place Pack that returned leaves no temporary file, whether it returned
\* nil or an error, unless it could not remove it.
NoTempLeft ==
    (At("none") /\ ~crashed /\ ~other.left) => other["tmp"] = NoFile

\* The counter of dead bytes that pack's skip relies on, in the container
\* through all transactions and packs, and in what Pack and ConvertZIPToFBX
\* have built.
DeadBytesAccounted ==
    Trusted => \A c \in {file, other["out"]} : IsContainer(c) => Accounted(c)
=============================================================================
