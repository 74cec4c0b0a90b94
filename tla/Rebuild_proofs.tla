--------------------------- MODULE Rebuild_proofs ---------------------------
(***************************************************************************)
(* Proofs about Rebuild: the invariant Inv is inductive, and from it follow*)
(* that the input of a Pack survives, that outputs are whole, and that no  *)
(* temporary file stays.                                                   *)
(***************************************************************************)
EXTENDS Rebuild_inv, TLAPS

----------------------------------------------------------------------------
(* Facts about the vocabulary.                                             *)

\* A container is neither of the other things a name may stand for.
LEMMA ContainerFacts ==
    /\ \A c : ContainerShape(c) => IsContainer(c)
    /\ ~IsContainer(NoFile) /\ ~IsContainer(NotAContainer)
<1>1. ASSUME NEW c, ContainerShape(c)
      PROVE  c # NoFile /\ c # NotAContainer
  <2>1. DOMAIN c = {"entries", "dead", "written", "lost", "over"}
    BY <1>1 DEF ContainerShape
  <2>2. DOMAIN NoFile = {"kind"} /\ DOMAIN NotAContainer = {"kind"}
    BY DEF NoFile, NotAContainer
  <2> QED
    BY <2>1, <2>2
<1> QED
  BY <1>1 DEF IsContainer

\* What Create leaves holds nothing.
LEMMA EmptyFacts ==
    /\ ContainerShape(EmptyContainer) /\ IsContainer(EmptyContainer)
    /\ Values(EmptyContainer) = Nothing
    /\ \A d : Sound(EmptyContainer.entries, d)
<1>1. ContainerShape(EmptyContainer)
  BY DEF ContainerShape, EmptyContainer
<1>2. \A p \in Paths : EmptyContainer.entries[p] = NoEntry
  BY DEF EmptyContainer
<1>3. Values(EmptyContainer) = Nothing
  BY <1>2 DEF Values, ValueOf, Nothing
<1>4. \A d : Sound(EmptyContainer.entries, d)
  BY <1>2 DEF Sound, EntryOK, EmptyContainer
<1> QED
  BY <1>1, <1>3, <1>4, ContainerFacts

\* A transaction begun on sound entries is sound.
LEMMA BeginFacts ==
    ASSUME NEW es
    PROVE  TxShape(BeginWith(es)) /\ BeginWith(es).entries = es
BY DEF TxShape, BeginWith

\* What holds of an entry goes on holding until a chunk goes bad.
LEMMA SoundKept ==
    ASSUME NEW es, NEW d, NEW c, Sound(es, d), c = d \/ c # 0
    PROVE  Sound(es, c)
BY DEF Sound, EntryOK

\* The entry a put makes, and an entry is not none.
LEMMA NewEntryFacts ==
    ASSUME NEW v \in Vals, NEW m, NEW d
    PROVE  /\ NewEntry(v, m) # NoEntry /\ EntryOK(NewEntry(v, m), d)
           /\ ValueOf(NewEntry(v, m)) = [val |-> v, meta |-> m]
<1> DEFINE e == NewEntry(v, m)
<1>1. /\ EntryShape(e) /\ e.val = v /\ e.meta = m /\ e.good = TRUE
      /\ e.chunks = [k \in DOMAIN ChunkEnds[v] |-> "ok"]
      /\ DOMAIN e = {"val", "meta", "good", "chunks"}
  BY DEF NewEntry, EntryShape
<1>2. e # NoEntry
  <2>1. DOMAIN NoEntry = {"val"}
    BY DEF NoEntry
  <2> QED
    BY <1>1, <2>1
<1>3. ChunksOK(e)
  BY <1>1 DEF ChunksOK
<1> HIDE DEF e
<1>4. EntryOK(e, d)
  BY <1>1, <1>3 DEF EntryOK
<1>5. ValueOf(e) = [val |-> v, meta |-> m]
  BY <1>1, <1>2 DEF ValueOf
<1> QED
  BY <1>2, <1>4, <1>5 DEF e

\* The value of an entry is not none.
LEMMA ValueFacts ==
    ASSUME NEW e
    PROVE  /\ e # NoEntry => ValueOf(e) # NoEntry
           /\ e # NoEntry /\ e.good => ValueOf(e) = [val |-> e.val, meta |-> e.meta]
<1>1. DOMAIN NoEntry = {"val"}
  BY DEF NoEntry
<1>2. e # NoEntry => DOMAIN ValueOf(e) = {"val", "meta"}
  BY DEF ValueOf
<1> QED
  BY <1>1, <1>2 DEF ValueOf

\* Stored, and PutEntry without its flag, change one entry.
LEMMA StoredFacts ==
    ASSUME NEW t, TxShape(t), NEW p, NEW v, NEW m
    PROVE  /\ TxShape(Stored(t, p, v, m))
           /\ Stored(t, p, v, m).entries = [t.entries EXCEPT ![p] = NewEntry(v, m)]
<1> DEFINE u == markObsolete(t, p)
           dead == saturatingAddUint64(t.dead, entryStoredBytes(t.entries[p]))
<1>1. TxShape(u) /\ u.entries = t.entries
  <2>1. u = [t EXCEPT !.dead = dead]
    BY DEF markObsolete
  <2> HIDE DEF dead
  <2> QED
    BY <2>1 DEF TxShape
<1>2. Stored(t, p, v, m) =
        [u EXCEPT !.entries = [u.entries EXCEPT ![p] = NewEntry(v, m)],
                  !.wrote = u.wrote + StoredBytes(v)]
  BY <1>1 DEF Stored, TxShape
<1> HIDE DEF u
<1> QED
  BY <1>1, <1>2 DEF TxShape

LEMMA PutSound ==
    ASSUME NEW t, NEW d, TxShape(t), Sound(t.entries, d),
           NEW p \in Paths, NEW v \in Vals, NEW m
    PROVE  /\ TxShape(Stored(t, p, v, m)) /\ Sound(Stored(t, p, v, m).entries, d)
           /\ Stored(t, p, v, m).entries[p] = NewEntry(v, m)
           /\ \A q \in Paths \ {p} : Stored(t, p, v, m).entries[q] = t.entries[q]
<1> DEFINE es == Stored(t, p, v, m).entries
<1>1. es = [t.entries EXCEPT ![p] = NewEntry(v, m)] /\ TxShape(Stored(t, p, v, m))
  BY StoredFacts
<1>2. t.entries = [q \in Paths |-> t.entries[q]] /\ \A q \in Paths : EntryOK(t.entries[q], d)
  BY DEF Sound
<1>3. EntryOK(NewEntry(v, m), d)
  BY NewEntryFacts
<1>4. es = [q \in Paths |-> es[q]] /\ es[p] = NewEntry(v, m)
      /\ \A q \in Paths \ {p} : es[q] = t.entries[q]
  BY <1>1, <1>2
<1>5. \A q \in Paths : EntryOK(es[q], d)
  BY <1>2, <1>3, <1>4
<1> QED
  BY <1>1, <1>4, <1>5 DEF Sound

----------------------------------------------------------------------------
(* What the steps do to the job and to the names.                          *)

KeepsCall == job'.kind = job.kind /\ job'.opts = job.opts /\ job'.inPlace = job.inPlace

KeepsSource == KeepsCall /\ job'.src = job.src

KeepsCopy == UNCHANGED <<job.i, job.dst, job.r, job.got, job.room, job.some>>

\* Goto changes the place only.
LEMMA GotoFacts ==
    ASSUME JobShape, NEW x, Goto(x)
    PROVE  JobShape' /\ job'.pc = x /\ KeepsSource /\ KeepsCopy
BY DEF JobShape, Goto, KeepsSource, KeepsCall, KeepsCopy

\* The target's name gets new content, the other one keeps its.
LEMMA TargetFacts ==
    ASSUME NamesShape, NEW c, SetTarget(c)
    PROVE  /\ NamesShape' /\ other'["left"] = other["left"]
           /\ job.inPlace => other'["tmp"] = c /\ other'["out"] = other["out"]
           /\ ~job.inPlace => other'["out"] = c /\ other'["tmp"] = other["tmp"]
<1>1. CASE job.inPlace
  <2>1. other' = [other EXCEPT !["tmp"] = c]
    BY <1>1 DEF SetTarget, Target
  <2> QED
    BY <1>1, <2>1 DEF NamesShape
<1>2. CASE ~job.inPlace
  <2>1. other' = [other EXCEPT !["out"] = c]
    BY <1>2 DEF SetTarget, Target
  <2> QED
    BY <1>2, <2>1 DEF NamesShape
<1> QED
  BY <1>1, <1>2

\* A call that returns an error: Pack has removed its target, or what was
\* written is still there.
Failed ==
    /\ JobShape' /\ job'.pc = "finished" /\ KeepsSource /\ KeepsCopy
    /\ NamesShape'
    /\ \E c \in Seen \cup {NoFile} :
         /\ job.inPlace => other'["tmp"] = c /\ other'["out"] = other["out"]
         /\ ~job.inPlace => other'["out"] = c /\ other'["tmp"] = other["tmp"]
    /\ job.inPlace => other'["tmp"] = NoFile \/ other'["left"]
    /\ other["left"] => other'["left"]
    /\ disk' \subseteq disk \cup {NoFile}
    /\ UNCHANGED catalogVars

LEMMA FailedFacts ==
    ASSUME Control, job.pc # "none", JobFails
    PROVE  Failed
<1>1. JobShape' /\ job'.pc = "finished" /\ KeepsSource /\ KeepsCopy
  BY GotoFacts DEF JobFails, Control
<1>2. UNCHANGED catalogVars
  BY DEF JobFails, UnchangedSource
<1>3. CASE SetTarget(NoFile) /\ disk' = disk \cup {NoFile}
  BY <1>1, <1>2, <1>3, TargetFacts DEF Failed, Control
<1>4. ASSUME NEW c \in Seen, disk' = disk,
             other' = [other EXCEPT ![Target] = c, !.left = @ \/ job.kind = "pack"]
      PROVE  Failed
  <2>1. PICK b \in BOOLEAN : b = (other["left"] \/ job.kind = "pack")
    OBVIOUS
  <2>2. other = [tmp |-> other["tmp"], out |-> other["out"], left |-> other["left"]]
    BY DEF Control, NamesShape
  <2>3. other' = [other EXCEPT ![Target] = c, !.left = b]
    BY <1>4, <2>1, <2>2 DEF Target
  <2>4. /\ NamesShape' /\ other'["left"] = b
        /\ job.inPlace => other'["tmp"] = c /\ other'["out"] = other["out"]
        /\ ~job.inPlace => other'["out"] = c /\ other'["tmp"] = other["tmp"]
    <3>1. CASE job.inPlace
      BY <2>1, <2>2, <2>3, <3>1 DEF Target, NamesShape
    <3>2. CASE ~job.inPlace
      BY <2>1, <2>2, <2>3, <3>2 DEF Target, NamesShape
    <3> QED
      BY <3>1, <3>2
  <2>5. job.inPlace => job.kind = "pack"
    BY DEF Control, JobOK
  <2> QED
    BY <1>1, <1>2, <1>4, <2>1, <2>4, <2>5 DEF Failed
<1> QED
  BY <1>3, <1>4 DEF JobFails, Cleanup

\* The job goes on in the same call.
LEMMA ControlKept ==
    ASSUME Control, JobShape', NamesShape', TempOK', KeepsCall,
           job'.src = job.src \/ job.kind = "pack",
           job.pc # "none", job'.pc \in PCs \ {"none"}, job'.i \in Nat,
           job.kind = "zip" => job'.pc \notin {"open", "list", "rename", "renamed"},
           job'.pc \in {"rename", "renamed"} => job.inPlace,
           handle' = handle, unsafe' = unsafe, damage' = damage
    PROVE  Control'
<1> QED
  BY DEF Control, JobOK, KeepsCall

\* A failing call.
LEMMA FailedControl ==
    ASSUME Control, job.pc # "none", Failed, UNCHANGED <<unsafe, crashed, damage>>
    PROVE  Control'
<1>1. TempOK'
  BY DEF Failed, TempOK, Control
<1> QED
  BY <1>1, ControlKept DEF Failed, KeepsSource, KeepsCopy, PCs, catalogVars, Control, JobOK

\* The steps before there is a target.
LEMMA StartControl ==
    ASSUME Control,
           \/ \E o \in PackOpts : StartPack(o)
           \/ \E z \in Archives, b \in BOOLEAN : StartZip(z, b)
           \/ OpenSource \/ ListSource
    PROVE  Control'
<1>1. ASSUME NEW o \in PackOpts, StartPack(o) PROVE Control'
  <2>1. job' = [NoJob EXCEPT !.pc = "open", !.kind = "pack", !.opts = o, !.inPlace = o.inPlace]
    BY <1>1 DEF StartPack
  <2>2. /\ JobShape' /\ job'.pc = "open" /\ job'.kind = "pack" /\ job'.opts = o /\ job'.i = 0
    BY <2>1 DEF JobShape, NoJob
  <2>3. o.FastUnsafe => unsafe'
    BY <1>1 DEF StartPack
  <2>4. /\ other' = other /\ handle' = handle /\ crashed' = crashed /\ damage' = damage
        /\ handle.state = "closed" /\ job.pc = "none"
    BY <1>1 DEF StartPack, UnchangedSource, catalogVars, At
  <2> QED
    BY <2>2, <2>3, <2>4 DEF Control, JobOK, PCs, NamesShape, TempOK, Filling, Copies
<1>2. ASSUME NEW z \in Archives, NEW b \in BOOLEAN, StartZip(z, b) PROVE Control'
  <2>1. job' = [NoJob EXCEPT !.pc = "create", !.kind = "zip", !.src = z]
    BY <1>2 DEF StartZip
  <2>2. /\ JobShape' /\ job'.pc = "create" /\ job'.kind = "zip" /\ job'.src = z /\ job'.i = 0
        /\ ~job'.inPlace
    BY <2>1 DEF JobShape, NoJob
  <2>3. /\ other' = other /\ handle' = handle /\ crashed' = crashed /\ damage' = damage
        /\ handle.state = "closed" /\ job.pc = "none"
    BY <1>2 DEF StartZip, UnchangedSource, catalogVars, At, ghosts
  <2> QED
    BY <2>2, <2>3 DEF Control, JobOK, PCs, HasSource, NamesShape, TempOK, Filling, Copies
<1>3. CASE OpenSource
  <2>1. job.pc = "open" /\ UNCHANGED <<ghosts, budgets>>
    BY <1>3 DEF OpenSource, At
  <2>2. CASE JobFails
    BY <2>1, <2>2, FailedFacts, FailedControl DEF ghosts, budgets
  <2>3. CASE Goto("list") /\ UnchangedSource /\ UNCHANGED <<other, disk>>
    <3>1. JobShape' /\ job'.pc = "list" /\ KeepsSource /\ KeepsCopy
      BY <2>3, GotoFacts DEF Control
    <3>2. TempOK' /\ NamesShape'
      BY <2>1, <2>3, <3>1 DEF Control, TempOK, NamesShape, ghosts, Filling, Copies
    <3> QED
      BY <2>1, <2>3, <3>1, <3>2, ControlKept DEF Control, JobOK, KeepsSource, KeepsCopy,
         PCs, UnchangedSource, catalogVars, ghosts, budgets
  <2> QED
    BY <1>3, <2>2, <2>3 DEF OpenSource
<1>4. CASE ListSource
  <2>1. /\ job.pc = "list" /\ job' = [job EXCEPT !.pc = "create", !.src = file]
        /\ UNCHANGED <<other, ghosts, budgets, handle>>
    BY <1>4 DEF ListSource, At, UnchangedSource, catalogVars
  <2>2. JobShape' /\ job'.pc = "create" /\ KeepsCall /\ job'.i = job.i
    BY <2>1 DEF Control, JobShape, KeepsCall
  <2>3. TempOK' /\ NamesShape'
    BY <2>1, <2>2 DEF Control, TempOK, NamesShape, ghosts, Filling, Copies
  <2>4. job.kind = "pack"
    BY <2>1 DEF Control, JobOK
  <2> QED
    BY <2>1, <2>2, <2>3, <2>4, ControlKept DEF Control, JobOK, PCs, HasSource, ghosts, budgets
<1> QED
  BY <1>1, <1>2, <1>3, <1>4

\* What every step between Create and the return keeps.
Along ==
    /\ JobShape' /\ NamesShape' /\ KeepsSource /\ other'["left"] = other["left"]
    /\ UNCHANGED <<handle, tx, file, vals, unsafe, crashed, damage>>

\* Create and its end.
LEMMA CreateFacts ==
    ASSUME Control, Create
    PROVE  /\ Along /\ KeepsCopy /\ job.pc = "create" /\ job'.pc = "created"
           /\ job.inPlace => other'["tmp"] = NotAContainer /\ other'["out"] = other["out"]
           /\ ~job.inPlace => other'["out"] = NotAContainer /\ other'["tmp"] = other["tmp"]
           /\ disk' = disk \cup {NotAContainer, EmptyContainer}
           /\ want' = IF job.inPlace THEN want ELSE want \cup {Wanted}
<1>1. JobShape' /\ job'.pc = "created" /\ KeepsSource /\ KeepsCopy
  BY GotoFacts DEF Create, Control
<1>2. /\ NamesShape' /\ other'["left"] = other["left"]
      /\ job.inPlace => other'["tmp"] = NotAContainer /\ other'["out"] = other["out"]
      /\ ~job.inPlace => other'["out"] = NotAContainer /\ other'["tmp"] = other["tmp"]
  BY TargetFacts DEF Create, Control
<1> QED
  BY <1>1, <1>2 DEF Create, Along, At, UnchangedSource, catalogVars, budgets

LEMMA CreateEndsFacts ==
    ASSUME Control, CreateEnds
    PROVE  /\ Along /\ job.pc = "created" /\ job'.pc = "next" /\ job'.i = job.i
           /\ job'.dst = BeginWith(EmptyContainer.entries)
           /\ job.inPlace => other'["tmp"] = EmptyContainer /\ other'["out"] = other["out"]
           /\ ~job.inPlace => other'["out"] = EmptyContainer /\ other'["tmp"] = other["tmp"]
           /\ disk' \subseteq disk \cup {EmptyContainer}
           /\ want' = want
<1>1. job' = [job EXCEPT !.pc = "next", !.dst = BeginWith(EmptyContainer.entries)]
  BY DEF CreateEnds
<1>2. /\ JobShape' /\ job'.pc = "next" /\ KeepsSource /\ job'.i = job.i
      /\ job'.dst = BeginWith(EmptyContainer.entries)
  <2> DEFINE t == BeginWith(EmptyContainer.entries)
  <2> HIDE DEF t
  <2>1. job' = [job EXCEPT !.pc = "next", !.dst = t]
    BY <1>1 DEF t
  <2>2. JobShape' /\ job'.pc = "next" /\ KeepsSource /\ job'.i = job.i /\ job'.dst = t
    BY <2>1 DEF Control, JobShape, KeepsSource, KeepsCall
  <2> QED
    BY <2>2 DEF t
<1>3. /\ NamesShape' /\ other'["left"] = other["left"]
      /\ job.inPlace => other'["tmp"] = EmptyContainer /\ other'["out"] = other["out"]
      /\ ~job.inPlace => other'["out"] = EmptyContainer /\ other'["tmp"] = other["tmp"]
  BY TargetFacts DEF CreateEnds, Control
<1>4. disk' \subseteq disk \cup {EmptyContainer}
  BY DEF CreateEnds
<1> QED
  BY <1>2, <1>3, <1>4 DEF CreateEnds, Along, At, UnchangedSource, catalogVars, ghosts, budgets

\* Steps that copy: nothing but the job changes.
Quiet == Along /\ UNCHANGED <<other, disk, want>>

\* Entry or file j is being read from its beginning.
Opened(j, ends, limits) ==
    /\ Quiet /\ job'.pc = "peek" /\ job'.i = j /\ job'.dst = job.dst
    /\ job'.got = Received0 /\ job'.room = 0 /\ job'.r = NewReader(ends, limits)

LEMMA StartReadingFacts ==
    ASSUME Control, NEW j, NEW ends, NEW limits, StartReading(j, ends, limits),
           UNCHANGED <<ghosts, budgets>>
    PROVE  Opened(j, ends, limits)
<1> DEFINE r == NewReader(ends, limits)
<1>1. /\ job' = [job EXCEPT !.pc = "peek", !.i = j, !.r = r, !.got = Received0, !.room = 0]
      /\ UnchangedSource /\ UNCHANGED <<other, disk>>
  BY DEF StartReading
<1>2. r = NewReader(ends, limits)
  OBVIOUS
<1> HIDE DEF r
<1>3. /\ JobShape' /\ job'.pc = "peek" /\ KeepsSource /\ job'.i = j /\ job'.dst = job.dst
      /\ job'.r = r /\ job'.got = Received0 /\ job'.room = 0
  BY <1>1 DEF Control, JobShape, KeepsSource, KeepsCall
<1>4. Quiet
  BY <1>1, <1>3 DEF Quiet, Along, Control, NamesShape, UnchangedSource, catalogVars, ghosts, budgets
<1> QED
  BY <1>2, <1>3, <1>4 DEF Opened

LEMMA OpenEntryFacts ==
    ASSUME Control, NEW j, OpenEntry(j)
    PROVE  /\ job.pc = "next" /\ job.kind = "pack" /\ j \in Rest /\ \A k \in Rest : j <= k
           /\ \/ Failed /\ UNCHANGED <<ghosts, budgets>>
              \/ \E limits : /\ limits.verifyCRC = ~job.opts.FastUnsafe
                             /\ Opened(j, ChunkEnds[job.src.entries[PathOrder[j]].val], limits)
<1>1. job.pc = "next" /\ job.kind = "pack" /\ j \in Rest /\ \A k \in Rest : j <= k
  BY DEF OpenEntry, At, IsUp
<1>2. UNCHANGED <<ghosts, budgets>>
  BY DEF OpenEntry
<1>3. CASE JobFails
  BY <1>1, <1>2, <1>3, FailedFacts
<1>4. CASE ~JobFails
  <2> DEFINE o == job.opts
             limits == [verifyCRC |-> ~o.FastUnsafe, maxEntry |-> o.maxEntry, maxChunk |-> o.maxChunk]
             ends == ChunkEnds[job.src.entries[PathOrder[j]].val]
  <2>1. StartReading(j, ends, limits)
    BY <1>4 DEF OpenEntry
  <2>2. limits.verifyCRC = ~job.opts.FastUnsafe
    OBVIOUS
  <2> HIDE DEF limits
  <2>3. Opened(j, ends, limits)
    BY <1>2, <2>1, StartReadingFacts
  <2> QED
    BY <1>1, <2>2, <2>3
<1> QED
  BY <1>3, <1>4

LEMMA OpenMemberFacts ==
    ASSUME Control, NEW j, OpenMember(j)
    PROVE  /\ job.pc = "next" /\ job.kind = "zip" /\ j \in Rest /\ \A k \in Rest : j <= k
           /\ \/ Failed /\ UNCHANGED <<ghosts, budgets>>
              \/ /\ job.src[j].path \in Paths
                 /\ \E limits : /\ limits.maxEntry = 0 /\ limits.maxChunk = 0
                                /\ Opened(j, ChunkEnds[job.src[j].gives], limits)
<1>1. job.pc = "next" /\ job.kind = "zip" /\ j \in Rest /\ \A k \in Rest : j <= k
  BY DEF OpenMember, At, IsUp
<1>2. UNCHANGED <<ghosts, budgets>>
  BY DEF OpenMember
<1>3. CASE JobFails
  BY <1>1, <1>2, <1>3, FailedFacts
<1>4. CASE ~JobFails
  <2> DEFINE limits == [verifyCRC |-> TRUE, maxEntry |-> 0, maxChunk |-> 0]
  <2>1. job.src[j].path \in Paths /\ StartReading(j, ChunkEnds[job.src[j].gives], limits)
    BY <1>4 DEF OpenMember
  <2>2. limits.maxEntry = 0 /\ limits.maxChunk = 0
    OBVIOUS
  <2> HIDE DEF limits
  <2>3. Opened(j, ChunkEnds[job.src[j].gives], limits)
    BY <1>2, <2>1, StartReadingFacts
  <2> QED
    BY <1>1, <2>1, <2>2, <2>3
<1> QED
  BY <1>3, <1>4

\* The turns of Read: what changes is the place, the reader, what was received,
\* and what this Read may still do.
LEMMA ReadFacts ==
    ASSUME Control,
           \/ \E n \in 1 .. BufSize : ReadStarts(n) \/ ReadCopies(n)
           \/ ReadReturns \/ PeekEnds
    PROVE  /\ Quiet /\ Reading /\ job'.pc \in {"peek", "read"}
           /\ job'.i = job.i /\ job'.dst = job.dst
           /\ job.room \in Nat => job'.room \in Nat
           /\ \/ job'.r = job.r /\ job'.got = job.got
              \/ /\ ~Stops(job.r, OnDisk)
                 /\ \E m \in Nat :
                      LET r == Loaded(job.r, OnDisk)
                      IN  /\ m <= r.upto - r.at
                          /\ job'.r = Copied(r, m) /\ job'.got = Received(job.got, r, m)
<1>0. Reading
  BY DEF ReadStarts, ReadCopies, ReadReturns, PeekEnds, At, Reading
<1>1. UNCHANGED <<file, handle, tx, ops, other, disk, ghosts, budgets>>
  BY DEF ReadStarts, ReadCopies, ReadReturns, PeekEnds, UnchangedSource, catalogVars
<1>2. ASSUME NEW n \in 1 .. BufSize, ReadStarts(n)
      PROVE  /\ JobShape' /\ job'.pc = job.pc /\ KeepsSource /\ job'.i = job.i /\ job'.dst = job.dst
             /\ job'.room \in Nat /\ job'.r = job.r /\ job'.got = job.got
  <2> DEFINE no == FALSE
  <2>1. job' = [job EXCEPT !.room = n, !.some = no]
    BY <1>2 DEF ReadStarts
  <2>2. n \in Nat
    BY RebuildAssumption
  <2> HIDE DEF no
  <2> QED
    BY <2>1, <2>2 DEF Control, JobShape, KeepsSource, KeepsCall
<1>3. ASSUME NEW m \in 1 .. BufSize, ReadCopies(m)
      PROVE  /\ JobShape' /\ job'.pc \in {"peek", "read"} /\ KeepsSource
             /\ job'.i = job.i /\ job'.dst = job.dst
             /\ job.room \in Nat => job'.room \in Nat
             /\ ~Stops(job.r, OnDisk)
             /\ LET r == Loaded(job.r, OnDisk)
                IN  /\ m <= r.upto - r.at
                    /\ job'.r = Copied(r, m) /\ job'.got = Received(job.got, r, m)
  <2> DEFINE l == Loaded(job.r, OnDisk)
             r == Copied(l, m)
             got == Received(job.got, l, m)
             pc == IF m = job.room THEN AfterRead(got) ELSE job.pc
  <2>1. job' = [job EXCEPT !.r = r, !.got = got, !.room = job.room - m, !.some = TRUE, !.pc = pc]
    BY <1>3 DEF ReadCopies, Control, JobShape
  <2>2. pc \in {"peek", "read"}
    BY <1>0 DEF AfterRead, Reading
  <2>3. m <= job.room /\ m <= l.upto - l.at /\ ~Stops(job.r, OnDisk)
    BY <1>3 DEF ReadCopies
  <2>4. r = Copied(l, m) /\ got = Received(job.got, l, m)
    OBVIOUS
  <2> HIDE DEF r, got, pc
  <2>5. /\ JobShape' /\ job'.pc = pc /\ KeepsSource /\ job'.i = job.i /\ job'.dst = job.dst
        /\ job'.room = job.room - m /\ job'.r = r /\ job'.got = got
    BY <2>1 DEF Control, JobShape, KeepsSource, KeepsCall
  <2>6. job.room \in Nat => job'.room \in Nat
    BY <2>3, <2>5, RebuildAssumption
  <2> QED
    BY <2>2, <2>3, <2>4, <2>5, <2>6
<1>4. ASSUME ReadReturns \/ PeekEnds
      PROVE  /\ JobShape' /\ job'.pc \in {"peek", "read"} /\ KeepsSource
             /\ job'.i = job.i /\ job'.dst = job.dst
             /\ job'.room \in Nat /\ job'.r = job.r /\ job'.got = job.got
  <2>1. PICK pc \in {"peek", "read"} : job' = [job EXCEPT !.room = 0, !.pc = pc]
    BY <1>4 DEF ReadReturns, PeekEnds, AfterRead
  <2> QED
    BY <2>1 DEF Control, JobShape, KeepsSource, KeepsCall
<1>5. JobShape' /\ KeepsSource
  BY <1>2, <1>3, <1>4
<1>6. Quiet
  BY <1>1, <1>5 DEF Quiet, Along, Control, NamesShape, ghosts, budgets
<1> QED
  BY <1>0, <1>2, <1>3, <1>4, <1>6, RebuildAssumption DEF Reading

\* The metadata that the copy of e gets.
MetaOf(e) == IF job.kind = "pack" /\ job.opts.ClearMeta THEN NoMeta ELSE e.meta

\* Upsert has the whole payload, as far as it knows, or it fails.
LEMMA ReadEndsFacts ==
    ASSUME Control, ReadEnds
    PROVE  /\ job.pc = "read"
           /\ \/ Failed /\ UNCHANGED <<ghosts, budgets>>
              \/ /\ Quiet /\ job'.pc = "next" /\ job'.i = job.i
                 /\ Stops(job.r, OnDisk) /\ ReadError # "error"
                 /\ LET e == Original
                        whole == job.got = [len |-> FileSize(ChunkEnds[e.val]), same |-> TRUE]
                    IN  job'.dst = PutEntry(Copying, e.val, MetaOf(e), whole /\ e.good)
<1>1. job.pc = "read" /\ Stops(job.r, OnDisk)
  BY DEF ReadEnds, At
<1>2. UNCHANGED <<ghosts, budgets>>
  BY DEF ReadEnds
<1>3. CASE ReadError = "error"
  <2>1. JobFails
    BY <1>3 DEF ReadEnds
  <2> QED
    BY <1>1, <1>2, <2>1, FailedFacts
<1>4. CASE ReadError # "error"
  <2> DEFINE e == Original
             whole == job.got = [len |-> FileSize(ChunkEnds[e.val]), same |-> TRUE]
             t == PutEntry(Copying, e.val, MetaOf(e), whole /\ e.good)
  <2>1. /\ job' = [job EXCEPT !.pc = "next", !.dst = t]
        /\ UnchangedSource /\ UNCHANGED <<other, disk>>
    BY <1>4 DEF ReadEnds, MetaOf
  <2>2. t = PutEntry(Copying, e.val, MetaOf(e), whole /\ e.good)
    OBVIOUS
  <2> HIDE DEF t
  <2>3. /\ JobShape' /\ job'.pc = "next" /\ KeepsSource /\ job'.i = job.i /\ job'.dst = t
    BY <2>1 DEF Control, JobShape, KeepsSource, KeepsCall
  <2>4. Quiet
    BY <1>2, <2>1, <2>3 DEF Quiet, Along, Control, NamesShape, UnchangedSource, catalogVars,
       ghosts, budgets
  <2> QED
    BY <1>1, <1>4, <2>2, <2>3, <2>4
<1> QED
  BY <1>3, <1>4

\* Commit.
LEMMA CommitFacts ==
    ASSUME Control, CommitStarts \/ CommitEnds
    PROVE  /\ Along /\ KeepsCopy /\ want' = want
           /\ \/ /\ job.pc = "next" /\ job'.pc = "commit" /\ Rest = {}
                 /\ other' = other /\ disk' = disk \cup {Built}
              \/ /\ job.pc = "commit" /\ job'.pc = IF job.inPlace THEN "rename" ELSE "finished"
                 /\ job.inPlace => other'["tmp"] = Built /\ other'["out"] = other["out"]
                 /\ ~job.inPlace => other'["out"] = Built /\ other'["tmp"] = other["tmp"]
                 /\ disk' = IF Synced THEN {Built} ELSE disk
<1>1. CASE CommitStarts
  <2>1. JobShape' /\ job'.pc = "commit" /\ KeepsSource /\ KeepsCopy
    BY <1>1, GotoFacts DEF CommitStarts, Control
  <2> QED
    BY <1>1, <2>1 DEF CommitStarts, At, Along, Control, NamesShape, UnchangedSource, catalogVars,
       ghosts, budgets
<1>2. CASE CommitEnds
  <2>1. /\ JobShape' /\ job'.pc = IF job.inPlace THEN "rename" ELSE "finished"
        /\ KeepsSource /\ KeepsCopy
    BY <1>2, GotoFacts DEF CommitEnds, Control
  <2>2. /\ NamesShape' /\ other'["left"] = other["left"]
        /\ job.inPlace => other'["tmp"] = Built /\ other'["out"] = other["out"]
        /\ ~job.inPlace => other'["out"] = Built /\ other'["tmp"] = other["tmp"]
    BY <1>2, TargetFacts DEF CommitEnds, Control
  <2> QED
    BY <1>2, <2>1, <2>2 DEF CommitEnds, At, Along, UnchangedSource, catalogVars, ghosts, budgets
<1> QED
  BY <1>1, <1>2

\* The rename.
LEMMA RenameFacts ==
    ASSUME Control, Rename
    PROVE  /\ JobShape' /\ NamesShape' /\ KeepsCall /\ job'.src = file /\ KeepsCopy
           /\ job.pc = "rename" /\ job'.pc = "renamed"
           /\ file' = other["tmp"] /\ other'["tmp"] = NoFile /\ other'["out"] = other["out"]
           /\ vals' = IF job.opts.ClearMeta THEN vals \cup {Cleared(v) : v \in vals} ELSE vals
           /\ UNCHANGED <<handle, tx, disk, want, unsafe, crashed, damage>>
<1>1. job' = [job EXCEPT !.pc = "renamed", !.src = file]
  BY DEF Rename
<1>2. JobShape' /\ job'.pc = "renamed" /\ KeepsCall /\ job'.src = file /\ KeepsCopy
  BY <1>1 DEF Control, JobShape, KeepsCall, KeepsCopy
<1>3. NamesShape' /\ other'["tmp"] = NoFile /\ other'["out"] = other["out"]
  BY DEF Rename, Control, NamesShape
<1> QED
  BY <1>2, <1>3 DEF Rename, At, budgets

----------------------------------------------------------------------------
(* Where the job is, and the temporary file.                               *)

\* What is to be done is counted from 1.
LEMMA TodoFacts ==
    ASSUME Control, job.pc # "none"
    PROVE  /\ job.kind = "pack" => Todo \subseteq DOMAIN PathOrder /\ DOMAIN PathOrder = 1 .. Len(PathOrder)
           /\ job.kind = "zip" => Todo = 1 .. Len(job.src)
           /\ Todo \subseteq Nat \ {0} /\ Rest \subseteq Todo
<1>1. CASE job.kind = "pack"
  BY <1>1, DirIndexAssumption DEF Todo, Rest
<1>2. CASE job.kind = "zip"
  <2>1. job.src \in Archives
    BY <1>2 DEF Control, JobOK
  <2>2. DOMAIN job.src = 1 .. Len(job.src)
    BY <2>1, RebuildAssumption
  <2> QED
    BY <1>2, <2>2 DEF Todo, Rest
<1> QED
  BY <1>1, <1>2 DEF Control, JobOK

\* The steps that fill the target.
LEMMA FillControl ==
    ASSUME Control,
           \/ Create \/ CreateEnds
           \/ \E j \in Rest : OpenEntry(j) \/ OpenMember(j)
           \/ \E n \in 1 .. BufSize : ReadStarts(n) \/ ReadCopies(n)
           \/ ReadReturns \/ PeekEnds \/ ReadEnds \/ CommitStarts \/ CommitEnds
    PROVE  Control'
<1> DEFINE Filled == {"created"} \cup Filling
<1>a. Filled \subseteq PCs \ {"none"} /\ {"peek", "read", "next", "commit", "rename"} \subseteq Filled
  BY DEF PCs, HasSource, Filling, Copies
<1>1. ASSUME Failed, UNCHANGED <<ghosts, budgets>>, job.pc # "none" PROVE Control'
  BY <1>1, FailedControl DEF ghosts, budgets
\* The temporary file may stay while it is being filled.
<1>2. ASSUME Along, job.pc # "none", job'.pc \in Filled, job'.i \in Nat,
             job.inPlace \/ other'["tmp"] = other["tmp"],
             job'.pc = "rename" => job.inPlace
      PROVE  Control'
  <2>1. TempOK'
    BY <1>2 DEF Control, TempOK, Along, KeepsSource, KeepsCall
  <2> HIDE DEF Filled
  <2>2. job'.pc \notin {"none", "open", "list", "renamed"}
    BY <1>2 DEF Filled, Filling, Copies
  <2>3. job.kind = "zip" => ~job.inPlace
    BY DEF Control, JobOK
  <2> QED
    BY <1>2, <1>a, <2>1, <2>2, <2>3, ControlKept DEF Along, KeepsSource
<1> HIDE DEF Filled
<1>3. job.i \in Nat
  BY DEF Control, JobOK
<1>4. CASE Create
  BY <1>2, <1>3, <1>4, CreateFacts DEF Filled, KeepsCopy
<1>5. CASE CreateEnds
  BY <1>2, <1>3, <1>5, <1>a, CreateEndsFacts
<1>6. ASSUME NEW j \in Rest, OpenEntry(j) PROVE Control'
  <2>1. j \in Nat
    BY <1>6, TodoFacts, OpenEntryFacts
  <2> QED
    BY <1>1, <1>2, <1>6, <1>a, <2>1, OpenEntryFacts DEF Opened, Quiet
<1>7. ASSUME NEW j \in Rest, OpenMember(j) PROVE Control'
  <2>1. j \in Nat
    BY <1>7, TodoFacts, OpenMemberFacts
  <2> QED
    BY <1>1, <1>2, <1>7, <1>a, <2>1, OpenMemberFacts DEF Opened, Quiet
<1>8. CASE \/ \E n \in 1 .. BufSize : ReadStarts(n) \/ ReadCopies(n)
           \/ ReadReturns \/ PeekEnds
  <2>1. /\ Quiet /\ Reading /\ job'.pc \in {"peek", "read"} /\ job'.i = job.i
    BY <1>8, ReadFacts
  <2>2. job.pc # "none"
    BY <2>1 DEF Reading
  <2> QED
    BY <1>2, <1>3, <1>a, <2>1, <2>2 DEF Quiet
<1>9. CASE ReadEnds
  BY <1>1, <1>2, <1>3, <1>9, <1>a, ReadEndsFacts DEF Quiet
<1>10. CASE CommitStarts \/ CommitEnds
  <2>1. Along /\ KeepsCopy
    BY <1>10, CommitFacts
  <2>2. CASE job.pc = "next" /\ job'.pc = "commit" /\ other' = other
    BY <1>2, <1>3, <1>a, <2>1, <2>2 DEF KeepsCopy
  <2>3. CASE /\ job.pc = "commit" /\ job'.pc = IF job.inPlace THEN "rename" ELSE "finished"
             /\ ~job.inPlace => other'["tmp"] = other["tmp"]
    <3>1. CASE job.inPlace
      <4>1. job.kind # "zip"
        BY <3>1 DEF Control, JobOK
      <4> QED
        BY <1>2, <1>3, <1>a, <2>1, <2>3, <3>1, <4>1 DEF KeepsCopy
    <3>2. CASE ~job.inPlace
      <4>1. TempOK'
        BY <2>1, <2>3, <3>2 DEF Control, TempOK, Along
      <4> QED
        BY <1>3, <2>1, <2>3, <3>2, <4>1, ControlKept DEF Along, KeepsSource, KeepsCopy, PCs
    <3> QED
      BY <3>1, <3>2
  <2> QED
    BY <1>10, <2>2, <2>3, CommitFacts
<1> QED
  BY <1>4, <1>5, <1>6, <1>7, <1>8, <1>9, <1>10

\* There is no job any more.
Over == job' = NoJob

LEMMA OverFacts ==
    ASSUME Over
    PROVE  JobShape' /\ job'.pc = "none" /\ job'.kind = "none" /\ job'.i = 0
BY DEF Over, JobShape, NoJob

\* The other steps.
LEMMA EndControl ==
    ASSUME Control, UseContainer \/ Rename \/ Finish \/ CallFails \/ Kill \/ PowerLoss
    PROVE  Control'
<1>1. CASE UseContainer
  BY <1>1 DEF UseContainer, Control, JobShape, JobOK, NamesShape, TempOK, At, budgets
<1>2. CASE Rename
  <2>1. TempOK'
    BY <1>2, RenameFacts DEF TempOK
  <2> QED
    BY <1>2, <2>1, RenameFacts, ControlKept DEF Control, JobOK, PCs, KeepsCopy
\* A job that is over leaves no temporary file, unless it could not remove it
\* or the process was killed.
<1>3. ASSUME Over, NamesShape', crashed' \/ other'["left"] \/ other'["tmp"] = NoFile, damage' = damage
      PROVE  Control'
  <2>1. JobShape' /\ job'.pc = "none" /\ job'.kind = "none" /\ job'.i = 0
    BY <1>3, OverFacts
  <2>2. JobOK'
    BY <1>3, <2>1 DEF Control, JobOK, PCs
  <2> QED
    BY <1>3, <2>1, <2>2 DEF Control, TempOK
<1>4. CASE Finish
  <2>1. /\ Over /\ other' = other /\ crashed' = crashed /\ damage' = damage
        /\ job.pc \in {"finished", "renamed"}
    BY <1>4 DEF Finish, Over, ghosts, budgets
  <2>2. crashed \/ other["left"] \/ other["tmp"] = NoFile
    BY <2>1 DEF Control, TempOK, Filling, Copies
  <2> QED
    BY <1>3, <2>1, <2>2 DEF Control, NamesShape
<1>5. CASE CallFails
  BY <1>5, FailedFacts, FailedControl DEF CallFails, Active, ghosts
<1>6. CASE Kill
  <2>1. NamesShape'
    BY <1>6, TargetFacts DEF Kill, Control
  <2> QED
    BY <1>3, <1>6, <2>1 DEF Kill, Over
<1>7. CASE PowerLoss
  <2>1. NamesShape'
    BY <1>7, TargetFacts DEF PowerLoss, Control, NamesShape
  <2> QED
    BY <1>3, <1>7, <2>1 DEF PowerLoss, Over
<1> QED
  BY <1>1, <1>2, <1>4, <1>5, <1>6, <1>7

\* No step of Next, and no stuttering step, breaks it.
LEMMA ControlStep ==
    ASSUME Control, [Next]_vars
    PROVE  Control'
<1>1. CASE UNCHANGED vars
  BY <1>1 DEF vars, rebuildVars, catalogVars, ghosts, budgets, Control, JobShape, JobOK,
     NamesShape, TempOK
<1>2. CASE JobStep
  BY <1>2, StartControl, FillControl, EndControl DEF JobStep
<1>3. ASSUME NEW p, NEW k, NEW d, Damage(p, k, d) PROVE Control'
  <2>1. damage' = damage + 1 /\ UNCHANGED <<handle, other, job, unsafe, crashed>>
    BY <1>3 DEF Damage, ghosts
  <2> QED
    BY <2>1 DEF Control, JobShape, JobOK, NamesShape, TempOK
<1> QED
  BY <1>1, <1>2, <1>3, StartControl, EndControl DEF Next

LEMMA ControlInit ==
    ASSUME Init
    PROVE  Control
<1>1. JobShape /\ job.pc = "none" /\ job.kind = "none" /\ job.i = 0
  BY DEF Init, JobShape, NoJob
<1>2. PICK c : other = [tmp |-> NoFile, out |-> c, left |-> FALSE]
  BY DEF Init
<1> QED
  BY <1>1, <1>2 DEF Init, Control, JobOK, PCs, NamesShape, TempOK

\* An in-place Pack that returned leaves no temporary file: an error removes
\* it, the rename takes it away, and only a kill, a power loss or a removal that
\* fails leaves one.
THEOREM NoTempLeftHolds == Spec => []NoTempLeft
<1>1. Control => NoTempLeft
  BY DEF Control, TempOK, NoTempLeft, At, Filling, Copies
<1> QED
  BY <1>1, ControlInit, ControlStep, PTL DEF Spec

----------------------------------------------------------------------------
(* What a step does to the grounds for trust.                              *)

LEMMA TrustedKept ==
    ASSUME Control, [Next]_vars, Trusted'
    PROVE  Trusted
<1>0. damage \in Nat
  BY DEF Control, JobOK
<1>1. CASE UNCHANGED <<unsafe, crashed, damage>>
  BY <1>1 DEF Trusted
<1>2. CASE UNCHANGED vars
  BY <1>1, <1>2 DEF vars, rebuildVars, ghosts, budgets
<1>3. CASE \E o \in PackOpts : StartPack(o)
  <2>1. PICK o \in PackOpts : StartPack(o)
    BY <1>3
  <2>2. crashed' = crashed /\ damage' = damage
    BY <2>1 DEF StartPack
  <2>3. ~unsafe' => ~unsafe
    BY <2>1 DEF StartPack
  <2> QED
    BY <2>2, <2>3 DEF Trusted
<1>4. CASE Kill \/ PowerLoss
  BY <1>4 DEF Kill, PowerLoss, Trusted
<1>5. ASSUME NEW p, NEW k, NEW d, Damage(p, k, d) PROVE Trusted
  <2>1. damage' = damage + 1 /\ unsafe' = unsafe
    BY <1>5 DEF Damage, ghosts
  <2> QED
    BY <1>0, <2>1 DEF Trusted
<1>6. CASE JobStep
  <2>1. CASE OpenSource \/ ListSource \/ Create \/ CreateEnds \/ ReadReturns \/ PeekEnds \/ ReadEnds
             \/ CommitStarts \/ CommitEnds \/ Rename \/ Finish
    BY <1>1, <2>1 DEF OpenSource, ListSource, Create, CreateEnds, ReadReturns, PeekEnds, ReadEnds,
       CommitStarts, CommitEnds, Rename, Finish, ghosts, budgets
  <2>2. ASSUME NEW j, OpenEntry(j) \/ OpenMember(j) PROVE Trusted
    BY <1>1, <2>2 DEF OpenEntry, OpenMember, ghosts, budgets
  <2>3. ASSUME NEW n, ReadStarts(n) \/ ReadCopies(n) PROVE Trusted
    BY <1>1, <2>3 DEF ReadStarts, ReadCopies, ghosts, budgets
  <2> QED
    BY <1>6, <2>1, <2>2, <2>3 DEF JobStep
<1>7. CASE UseContainer \/ CallFails \/ \E z \in Archives, b \in BOOLEAN : StartZip(z, b)
  BY <1>1, <1>7 DEF UseContainer, CallFails, StartZip, ghosts, budgets
<1>8. CASE \E p \in Live(file.entries), d \in Damages :
              \E k \in DOMAIN file.entries[p].chunks : Damage(p, k, d)
  BY <1>5, <1>8
<1>9. Next => \/ UseContainer \/ CallFails \/ \E z \in Archives, b \in BOOLEAN : StartZip(z, b)
              \/ \E o \in PackOpts : StartPack(o)
              \/ JobStep \/ Kill \/ PowerLoss
              \/ \E p \in Live(file.entries), d \in Damages :
                   \E k \in DOMAIN file.entries[p].chunks : Damage(p, k, d)
  BY Zenon DEF Next
<1> QED
  BY <1>2, <1>3, <1>4, <1>6, <1>7, <1>8, <1>9

----------------------------------------------------------------------------
(* The container between the jobs.                                         *)

\* A change of some entries that garbles none keeps them sound.
LEMMA ChangedSound ==
    ASSUME NEW es, NEW d, Sound(es, d), NEW fs, fs = [p \in Paths |-> fs[p]],
           \A p \in Paths : fs[p] = es[p] \/ EntryOK(fs[p], d)
    PROVE  Sound(fs, d)
BY DEF Sound

\* New metadata make no other entry of it.
LEMMA MetaFacts ==
    ASSUME NEW e, NEW d, NEW m, e # NoEntry, EntryOK(e, d)
    PROVE  EntryOK([e EXCEPT !.meta = m], d)
<1> DEFINE f == [e EXCEPT !.meta = m]
<1>1. EntryShape(f) /\ f.val = e.val /\ (f.good <=> e.good) /\ f.chunks = e.chunks
  BY DEF EntryOK, EntryShape
<1> HIDE DEF f
<1>2. EntryOK(f, d)
  BY <1>1 DEF EntryOK, ChunksOK
<1> QED
  BY <1>2 DEF f

\* What an operation of the API makes of the transaction.
TxOK(t, d) == TxShape(t) /\ Sound(t.entries, d)

LEMMA OperationFacts ==
    ASSUME HandleOK, tx.open,
           \/ \E p \in Paths, v \in Vals, m \in Metas : TxPut(p, v, m)
           \/ \E p \in Paths, v \in Vals : \E k \in 0 .. Len(ChunkEnds[v]) : TxPutFails(p, v, k)
           \/ \E S \in SUBSET Paths : TxRemove(S)
           \/ \E S \in SUBSET Paths, m \in Metas : TxSetMeta(S, m)
    PROVE  TxOK(tx', damage) /\ file' = file /\ handle' = handle
<1>0. TxShape(tx) /\ Sound(tx.entries, damage)
  BY DEF HandleOK, NoTx
<1>1. ASSUME NEW p \in Paths, NEW v \in Vals, NEW m, TxPut(p, v, m)
      PROVE  TxOK(tx', damage) /\ file' = file /\ handle' = handle
  BY <1>0, <1>1, PutSound DEF TxPut, TxOK
<1>2. ASSUME NEW p \in Paths, NEW v, NEW k, TxPutFails(p, v, k)
      PROVE  TxOK(tx', damage) /\ file' = file /\ handle' = handle
  <2> DEFINE dead == saturatingAddUint64(tx.dead, entryStoredBytes(tx.entries[p]))
             n == PrefixBytes(v, k)
             over == tx.over + entryStoredBytes(tx.entries[p])
  <2>1. tx' = [[tx EXCEPT !.dead = dead] EXCEPT !.wrote = @ + n, !.lost = @ + n,
                                                !.over = @ + entryStoredBytes(tx.entries[p])]
    BY <1>2 DEF TxPutFails, markObsolete
  <2>2. tx' = [tx EXCEPT !.dead = dead, !.wrote = tx.wrote + n, !.lost = tx.lost + n, !.over = over]
    BY <1>0, <2>1 DEF TxShape
  <2> HIDE DEF dead, over, n
  <2>3. TxShape(tx') /\ tx'.entries = tx.entries
    BY <1>0, <2>2 DEF TxShape
  <2> QED
    BY <1>0, <1>2, <2>3 DEF TxPutFails, TxOK
<1>3. ASSUME NEW S \in SUBSET Paths, TxRemove(S)
      PROVE  TxOK(tx', damage) /\ file' = file /\ handle' = handle
  <2> DEFINE es == [p \in Paths |-> IF p \in S THEN NoEntry ELSE tx.entries[p]]
  <2>1. PICK dead : tx' = [tx EXCEPT !.dead = dead, !.entries = es]
    BY <1>0, <1>3 DEF TxRemove, TxShape
  <2>2. Sound(es, damage)
    <3>1. es = [p \in Paths |-> es[p]]
      OBVIOUS
    <3>2. \A p \in Paths : es[p] = tx.entries[p] \/ EntryOK(es[p], damage)
      BY DEF EntryOK
    <3> HIDE DEF es
    <3> QED
      BY <1>0, <3>1, <3>2, ChangedSound
  <2> HIDE DEF es
  <2>3. TxShape(tx') /\ tx'.entries = es
    BY <1>0, <2>1 DEF TxShape
  <2> QED
    BY <1>3, <2>2, <2>3 DEF TxRemove, TxOK
<1>4. ASSUME NEW S \in SUBSET Paths, NEW m, TxSetMeta(S, m)
      PROVE  TxOK(tx', damage) /\ file' = file /\ handle' = handle
  <2> DEFINE es == [p \in Paths |-> IF p \in S THEN [tx.entries[p] EXCEPT !.meta = m]
                                                ELSE tx.entries[p]]
  <2>1. tx' = [tx EXCEPT !.entries = es]
    BY <1>0, <1>4 DEF TxSetMeta, TxShape
  <2>2. Sound(es, damage)
    <3>1. es = [p \in Paths |-> es[p]]
      OBVIOUS
    <3>2. \A p \in Paths : es[p] = tx.entries[p] \/ EntryOK(es[p], damage)
      <4> SUFFICES ASSUME NEW p \in S PROVE EntryOK(es[p], damage)
        OBVIOUS
      <4>1. tx.entries[p] # NoEntry
        BY <1>4 DEF TxSetMeta, Live
      <4>2. EntryOK(tx.entries[p], damage)
        BY <1>0 DEF Sound
      <4>3. EntryOK([tx.entries[p] EXCEPT !.meta = m], damage)
        BY <4>1, <4>2, MetaFacts
      <4> QED
        BY <4>3
    <3> HIDE DEF es
    <3> QED
      BY <1>0, <3>1, <3>2, ChangedSound
  <2> HIDE DEF es
  <2>3. TxShape(tx') /\ tx'.entries = es
    BY <1>0, <2>1 DEF TxShape
  <2> QED
    BY <1>4, <2>2, <2>3 DEF TxSetMeta, TxOK
<1> QED
  BY <1>1, <1>2, <1>3, <1>4

\* The container is used.
LEMMA UsedFacts ==
    ASSUME FileOK, HandleOK, CatalogNext, damage' = damage,
           vals' = IF IsContainer(file') /\ tx.open /\ file' # file THEN {Values(file')} ELSE vals
    PROVE  FileOK' /\ HandleOK'
<1>1. file' = file => FileOK'
  BY DEF FileOK, ContainerShape
<1>2. handle.state # "closed" => handle = [state |-> handle.state, dir |-> file] /\ handle.dir = file
  BY DEF HandleOK
<1>3. tx.open => TxShape(tx) /\ Sound(tx.entries, damage) /\ handle.state # "closed"
  BY DEF HandleOK, NoTx
<1>4. CASE Open \/ ensureEntriesLoaded \/ Close
  <2>1. file' = file /\ tx' = tx
    BY <1>4 DEF Open, ensureEntriesLoaded, Close
  <2>2. handle'.state # "closed" => handle' = [state |-> handle'.state, dir |-> file]
    BY <1>2, <1>4 DEF Open, ensureEntriesLoaded, Close, NoDir
  <2>3. CASE Open
    <3>1. tx = NoTx /\ handle'.state = "lazy"
      BY <2>3 DEF Open, HandleOK
    <3> QED
      BY <1>1, <2>1, <2>2, <3>1 DEF HandleOK
  <2>4. CASE ensureEntriesLoaded
    <3>1. handle' = [handle EXCEPT !.state = "loaded"] /\ handle.state # "closed"
      BY <2>4 DEF ensureEntriesLoaded
    <3>2. handle'.state # "closed"
      BY <1>2, <3>1
    <3> QED
      BY <1>1, <2>1, <2>2, <3>1, <3>2 DEF HandleOK
  <2>5. CASE Close
    <3>1. tx = NoTx
      BY <2>5 DEF Close, HandleOK, TxShape
    <3> QED
      BY <1>1, <2>1, <2>2, <3>1 DEF HandleOK
  <2> QED
    BY <1>4, <2>3, <2>4, <2>5
<1>5. CASE Begin
  <2>1. handle' = [handle EXCEPT !.state = "loaded"] /\ handle.state # "closed" /\ file' = file
    BY <1>5 DEF Begin
  <2>2. handle' = [state |-> "loaded", dir |-> file]
    BY <1>2, <2>1
  <2>3. TxShape(tx') /\ tx'.entries = file.entries
    BY <1>2, <1>5, <2>1, BeginFacts DEF Begin
  <2>4. Sound(tx'.entries, damage)
    BY <2>3 DEF FileOK
  <2> QED
    BY <1>1, <2>1, <2>2, <2>3, <2>4 DEF HandleOK
<1>6. CASE Rollback
  BY <1>1, <1>6 DEF Rollback, HandleOK
<1>7. CASE Commit
  <2> DEFINE c == Committed(file, tx)
  <2>0. tx.open
    BY <1>7 DEF Commit
  <2>1. file' = c /\ handle' = [state |-> "loaded", dir |-> file'] /\ tx' = NoTx
    BY <1>2, <1>3, <1>7, <2>0 DEF Commit
  <2>2. ContainerShape(c) /\ c.entries = tx.entries
    BY DEF Committed, ContainerShape
  <2>3. Sound(c.entries, damage)
    BY <1>3, <2>0, <2>2
  <2> HIDE DEF c
  <2>4. IsContainer(c)
    BY <2>2, ContainerFacts
  <2>5. Values(file') \in vals'
    BY <2>0, <2>1, <2>4 DEF FileOK
  <2>6. FileOK'
    BY <2>1, <2>2, <2>3, <2>5 DEF FileOK
  <2>7. handle'.state = "loaded" /\ handle'.dir = file'
    BY <2>1
  <2>8. HandleOK'
    BY <2>1, <2>7 DEF HandleOK
  <2> QED
    BY <2>6, <2>8
<1>8. CASE \/ \E p \in Paths, v \in Vals, m \in Metas : TxPut(p, v, m)
           \/ \E p \in Paths, v \in Vals : \E k \in 0 .. Len(ChunkEnds[v]) : TxPutFails(p, v, k)
           \/ \E S \in SUBSET Paths : TxRemove(S)
           \/ \E S \in SUBSET Paths, m \in Metas : TxSetMeta(S, m)
  <2>1. tx.open
    BY <1>8 DEF TxPut, TxPutFails, TxRemove, TxSetMeta
  <2>2. TxOK(tx', damage) /\ file' = file /\ handle' = handle
    BY <1>8, <2>1, OperationFacts
  <2> QED
    BY <1>1, <1>2, <1>3, <2>1, <2>2 DEF HandleOK, TxOK
<1> QED
  BY <1>4, <1>5, <1>6, <1>7, <1>8 DEF CatalogNext

----------------------------------------------------------------------------
(* What is wanted, and how much of it has been put.                        *)

LEMMA WantedShape ==
    Wanted = [p \in Paths |-> Wanted[p]]
<1>1. CASE job.kind = "pack"
  BY <1>1 DEF Wanted, Cleared, Values
<1>2. CASE job.kind # "pack"
  BY <1>2 DEF Wanted
<1> QED
  BY <1>1, <1>2

\* The value of a file of an archive.
FileValue(f) ==
    [val |-> IF f.ending = "error" THEN "unreadable" ELSE f.gives, meta |-> f.meta]

\* One file more.
LEMMA FileAdded ==
    ASSUME NEW z, NEW n \in Nat, DOMAIN z = 1 .. n, NEW j \in 1 .. n, NEW p
    PROVE  AfterFiles(z, j, p) =
               IF z[j].path = p THEN FileValue(z[j]) ELSE AfterFiles(z, j - 1, p)
<1> DEFINE is == {k \in DOMAIN z : k <= j - 1 /\ z[k].path = p}
           js == {k \in DOMAIN z : k <= j /\ z[k].path = p}
<1>1. CASE z[j].path = p
  <2>1. j \in js /\ \A k \in js : k <= j
    BY <1>1
  <2>2. js \subseteq Nat
    OBVIOUS
  <2>3. (CHOOSE k \in js : \A l \in js : l <= k) = j
    <3> HIDE DEF js
    <3>1. \A k \in js : (\A l \in js : l <= k) => k = j
      BY <2>1, <2>2
    <3> QED
      BY <2>1, <3>1
  <2> QED
    BY <1>1, <2>1, <2>3 DEF AfterFiles, FileValue
<1>2. CASE z[j].path # p
  <2>1. js = is
    BY <1>2
  <2> QED
    BY <1>2, <2>1 DEF AfterFiles
<1> QED
  BY <1>1, <1>2

\* No file more.
LEMMA SameFiles ==
    ASSUME NEW z, NEW i, NEW j, \A k \in DOMAIN z : k <= i <=> k <= j, NEW p
    PROVE  AfterFiles(z, i, p) = AfterFiles(z, j, p)
<1>1. {k \in DOMAIN z : k <= i /\ z[k].path = p} = {k \in DOMAIN z : k <= j /\ z[k].path = p}
  OBVIOUS
<1> QED
  BY <1>1 DEF AfterFiles

\* What is wanted depends on the call and on its source only.
LEMMA WantedKept ==
    ASSUME KeepsSource
    PROVE  Wanted' = Wanted /\ Todo' = Todo
BY DEF KeepsSource, KeepsCall, Wanted, Todo

\* The job has been no further than before.
LEMMA SoFarKept ==
    ASSUME KeepsSource,
           job.kind # "pack" => job'.i = job.i /\ (Reading' <=> Reading),
           \A j \in Todo : Been(j)' <=> Been(j),
           NEW p
    PROVE  WantedSoFar(p)' = WantedSoFar(p)
<1>1. Wanted' = Wanted /\ Todo' = Todo
  BY WantedKept
<1> QED
  BY <1>1 DEF KeepsSource, KeepsCall, WantedSoFar

\* An entry that is put as it is meant.
LEMMA PutFacts ==
    ASSUME NEW d, NEW t, TxShape(t), Sound(t.entries, d),
           NEW p \in Paths, NEW v \in Vals, NEW m, NEW u, u = Stored(t, p, v, m)
    PROVE  /\ TxShape(u) /\ Sound(u.entries, d)
           /\ ValueOf(u.entries[p]) = [val |-> v, meta |-> m]
           /\ \A q \in Paths \ {p} : u.entries[q] = t.entries[q]
<1>1. ValueOf(NewEntry(v, m)) = [val |-> v, meta |-> m]
  BY NewEntryFacts
<1>2. /\ TxShape(u) /\ Sound(u.entries, d) /\ u.entries[p] = NewEntry(v, m)
      /\ \A q \in Paths \ {p} : u.entries[q] = t.entries[q]
  BY PutSound
<1> QED
  BY <1>1, <1>2

----------------------------------------------------------------------------
(* What the steps of a job keep, apart from filling the target.            *)

\* The container is not touched.
LEMMA FileKept ==
    ASSUME FileOK, HandleOK, UNCHANGED <<file, handle, tx, vals, damage>>
    PROVE  FileOK' /\ HandleOK'
BY DEF FileOK, HandleOK, ContainerShape, TxShape

\* Nothing is an output yet, or any more.
LEMMA NothingFilled ==
    ASSUME FileOK', HandleOK',
           job'.pc \in {"none", "open", "list", "finished"},
           job'.pc \in {"open", "list"} => job'.i = 0,
           OutOK(other'["out"], want'),
           job'.pc # "none" /\ ~job'.inPlace => \A c \in disk' : OutOK(c, want')
    PROVE  Content'
<1>1. job'.pc \notin HasSource \cup Filling \cup Copies \cup {"created", "create", "renamed", "peek", "read"}
  BY DEF HasSource, Filling, Copies
<1> QED
  BY <1>1 DEF Content, SourceOK, TargetOK, ReaderOK, Reading, OutputOK, Filling, Copies, HasSource

\* What may be seen under the output's name while the job is on.
LEMMA SeenOK ==
    ASSUME Content, job.pc # "none", ~job.inPlace
    PROVE  \A c \in Seen : OutOK(c, want)
<1>1. OutOK(other["out"], want) /\ OutOK(EmptyContainer, want)
  BY EmptyFacts DEF Content, OutputOK, OutOK
<1>2. job.pc = "commit" => OutOK(Built, want)
  BY DEF Content, OutputOK, TargetOK, OutOK, Filling
<1> QED
  BY <1>1, <1>2 DEF Seen, Target, At

\* A call that fails.
LEMMA FailedContent ==
    ASSUME Control, Content, job.pc # "none", Failed, UNCHANGED <<ghosts, damage>>
    PROVE  Content'
<1>1. FileOK' /\ HandleOK'
  BY FileKept DEF Failed, Content, catalogVars, ghosts
<1>2. \A c : OutOK(c, want') <=> OutOK(c, want)
  BY DEF OutOK, ghosts
<1>3. OutOK(NoFile, want)
  BY ContainerFacts DEF OutOK
<1>4. OutOK(other'["out"], want')
  <2>1. OutOK(other["out"], want)
    BY DEF Content, OutputOK
  <2>2. ~job.inPlace => \A c \in Seen \cup {NoFile} : OutOK(c, want)
    BY <1>3, SeenOK
  <2> QED
    BY <1>2, <2>1, <2>2 DEF Failed
<1>5. ~job'.inPlace => \A c \in disk' : OutOK(c, want')
  BY <1>2, <1>3 DEF Failed, KeepsSource, KeepsCall, Content, OutputOK
<1> QED
  BY <1>1, <1>4, <1>5, NothingFilled DEF Failed

\* The steps before there is a target.
LEMMA StartContent ==
    ASSUME Control, Content,
           \/ \E o \in PackOpts : StartPack(o)
           \/ \E z \in Archives, b \in BOOLEAN : StartZip(z, b)
           \/ OpenSource \/ ListSource
    PROVE  Content'
<1>0. FileOK /\ HandleOK /\ OutOK(other["out"], want)
  BY DEF Content, OutputOK
<1>1. ASSUME NEW o \in PackOpts, StartPack(o) PROVE Content'
  <2>1. job' = [NoJob EXCEPT !.pc = "open", !.kind = "pack", !.opts = o, !.inPlace = o.inPlace]
    BY <1>1 DEF StartPack
  <2>2. job'.pc = "open" /\ job'.i = 0 /\ job'.inPlace = o.inPlace
    BY <2>1 DEF NoJob
  <2>3. UNCHANGED <<file, handle, tx, other, vals, want, damage>>
    BY <1>1 DEF StartPack, UnchangedSource, catalogVars
  <2>4. FileOK' /\ HandleOK'
    BY <1>0, <2>3, FileKept
  <2>5. OutOK(other'["out"], want')
    BY <1>0, <2>3 DEF OutOK
  <2>6. ~o.inPlace => disk' = {other["out"]}
    BY <1>1 DEF StartPack
  <2> QED
    BY <2>2, <2>3, <2>4, <2>5, <2>6, NothingFilled
<1>2. ASSUME NEW z \in Archives, NEW b \in BOOLEAN, StartZip(z, b) PROVE Content'
  <2>1. job' = [NoJob EXCEPT !.pc = "create", !.kind = "zip", !.src = z]
    BY <1>2 DEF StartZip
  <2>2. job'.pc = "create" /\ job'.i = 0 /\ job'.kind = "zip"
    BY <2>1 DEF NoJob
  <2>3. UNCHANGED <<file, handle, tx, other, vals, want, damage>> /\ disk' = {other["out"]}
    BY <1>2 DEF StartZip, UnchangedSource, catalogVars, ghosts
  <2>4. FileOK' /\ HandleOK'
    BY <1>0, <2>3, FileKept
  <2>5. OutOK(other'["out"], want')
    BY <1>0, <2>3 DEF OutOK
  <2> QED
    BY <2>2, <2>3, <2>4, <2>5 DEF Content, SourceOK, TargetOK, ReaderOK, Reading, OutputOK, Filling, Copies
<1>3. CASE OpenSource
  <2>1. job.pc = "open" /\ UNCHANGED <<ghosts, budgets>>
    BY <1>3 DEF OpenSource, At
  <2>2. CASE JobFails
    BY <2>1, <2>2, FailedFacts, FailedContent DEF budgets
  <2>3. CASE Goto("list") /\ UnchangedSource /\ UNCHANGED <<other, disk>>
    <3>1. JobShape' /\ job'.pc = "list" /\ KeepsSource /\ KeepsCopy
      BY <2>3, GotoFacts DEF Control
    <3>2. FileOK' /\ HandleOK'
      BY <1>0, <2>1, <2>3, FileKept DEF UnchangedSource, catalogVars, ghosts, budgets
    <3>3. \A c : OutOK(c, want') <=> OutOK(c, want)
      BY <2>1 DEF OutOK, ghosts
    <3>4. job'.i = 0
      BY <2>1, <3>1 DEF Content, TargetOK, KeepsCopy
    <3>5. ~job'.inPlace => \A c \in disk' : OutOK(c, want')
      BY <2>1, <2>3, <3>1, <3>3 DEF KeepsSource, KeepsCall, Content, OutputOK
    <3>6. OutOK(other'["out"], want')
      BY <1>0, <2>3, <3>3
    <3> QED
      BY <3>1, <3>2, <3>4, <3>5, <3>6, NothingFilled
  <2> QED
    BY <1>3, <2>2, <2>3 DEF OpenSource
<1>4. CASE ListSource
  <2>1. /\ job.pc = "list" /\ job' = [job EXCEPT !.pc = "create", !.src = file]
        /\ UNCHANGED <<file, handle, tx, other, disk, ghosts, budgets>>
    BY <1>4 DEF ListSource, At, UnchangedSource, catalogVars
  <2>2. job'.pc = "create" /\ KeepsCall /\ job'.i = job.i /\ job'.src = file
    BY <2>1 DEF Control, JobShape, KeepsCall
  <2>3. FileOK' /\ HandleOK'
    BY <1>0, <2>1, FileKept DEF ghosts, budgets
  <2>4. SourceOK'
    BY <2>1, <2>2, <2>3 DEF SourceOK, FileOK
  <2>5. TargetOK' /\ ReaderOK'
    BY <2>1, <2>2 DEF Content, TargetOK, ReaderOK, Reading, Filling, Copies
  <2>6. OutputOK'
    <3>1. \A c : OutOK(c, want') <=> OutOK(c, want)
      BY <2>1 DEF OutOK, ghosts
    <3>2. OutOK(other'["out"], want')
      BY <1>0, <2>1, <3>1
    <3>3. ~job'.inPlace => \A c \in disk' : OutOK(c, want')
      BY <2>1, <2>2, <3>1 DEF KeepsCall, Content, OutputOK
    <3> QED
      BY <2>2, <3>2, <3>3 DEF OutputOK, Filling, Copies
  <2> QED
    BY <2>3, <2>4, <2>5, <2>6 DEF Content
<1> QED
  BY <1>1, <1>2, <1>3, <1>4

\* A job that is over.
LEMMA OverContent ==
    ASSUME FileOK', HandleOK', Over, OutOK(other'["out"], want')
    PROVE  Content'
BY OverFacts, NothingFilled

----------------------------------------------------------------------------
(* Filling the target.                                                     *)

\* The source is what it was.
LEMMA AlongContent ==
    ASSUME Content, Along, job.pc \in HasSource, job'.pc \in HasSource,
           TargetOK', ReaderOK', OutputOK'
    PROVE  Content'
<1>1. FileOK' /\ HandleOK'
  BY FileKept DEF Along, Content
<1>2. SourceOK'
  BY DEF Along, KeepsSource, KeepsCall, Content, SourceOK
<1> QED
  BY <1>1, <1>2 DEF Content

\* The outputs are what they were.
LEMMA QuietOutput ==
    ASSUME Content, Quiet, job.pc \in {"created"} \cup Filling
    PROVE  OutputOK'
<1>1. Wanted' = Wanted
  BY WantedKept DEF Quiet, Along
<1>2. job.pc # "none"
  BY DEF Filling, Copies
<1> QED
  BY <1>1, <1>2 DEF Quiet, Along, KeepsSource, KeepsCall, Content, OutputOK, OutOK

LEMMA CreateContent ==
    ASSUME Control, Content, Create
    PROVE  Content'
<1>1. /\ Along /\ KeepsCopy /\ job.pc = "create" /\ job'.pc = "created"
      /\ disk' = disk \cup {NotAContainer, EmptyContainer}
      /\ want' = IF job.inPlace THEN want ELSE want \cup {Wanted}
  BY CreateFacts
<1>2. TargetOK' /\ ReaderOK'
  BY <1>1 DEF Content, TargetOK, ReaderOK, Reading, Filling, Copies, KeepsCopy
<1>3. \A c : OutOK(c, want) => OutOK(c, want')
  BY <1>1 DEF OutOK
<1>4. OutOK(NotAContainer, want) /\ OutOK(EmptyContainer, want)
  BY EmptyFacts, ContainerFacts DEF OutOK
<1>5. OutOK(other["out"], want)
  BY DEF Content, OutputOK
<1>6. OutOK(other'["out"], want')
  BY <1>3, <1>4, <1>5, CreateFacts
<1>7. ~job'.inPlace => \A c \in disk' : OutOK(c, want')
  BY <1>1, <1>3, <1>4 DEF Along, KeepsSource, KeepsCall, Content, OutputOK
<1>8. ~job'.inPlace => Wanted' \in want'
  BY <1>1, WantedKept DEF Along, KeepsSource, KeepsCall
<1>9. OutputOK'
  BY <1>6, <1>7, <1>8 DEF OutputOK
<1> QED
  BY <1>1, <1>2, <1>9, AlongContent DEF HasSource

LEMMA CreateEndsContent ==
    ASSUME Control, Content, CreateEnds
    PROVE  Content'
<1>1. /\ Along /\ job.pc = "created" /\ job'.pc = "next" /\ job'.i = job.i
      /\ job'.dst = BeginWith(EmptyContainer.entries)
      /\ disk' \subseteq disk \cup {EmptyContainer}
      /\ want' = want
  BY CreateEndsFacts
<1>2. OutOK(EmptyContainer, want)
  BY EmptyFacts DEF OutOK
<1>3. OutputOK'
  <2>1. OutOK(other'["out"], want')
    BY <1>1, <1>2, CreateEndsFacts DEF Content, OutputOK
  <2>2. ~job'.inPlace => \A c \in disk' : OutOK(c, want')
    BY <1>1, <1>2 DEF Along, KeepsSource, KeepsCall, Content, OutputOK
  <2>3. ~job'.inPlace => Wanted' \in want'
    BY <1>1, WantedKept DEF Along, KeepsSource, KeepsCall, Content, OutputOK
  <2> QED
    BY <2>1, <2>2, <2>3 DEF OutputOK
<1>4. TargetOK'
  <2>1. TxShape(job'.dst) /\ Sound(job'.dst.entries, damage')
    BY <1>1, BeginFacts, EmptyFacts
  <2>2. job.i = 0
    BY <1>1 DEF Content, TargetOK
  <2>3. \A p \in Paths : ValueOf(job'.dst.entries[p]) = NoEntry
    BY <1>1, BeginFacts DEF EmptyContainer, ValueOf
  <2>4. ASSUME NEW p \in Paths PROVE WantedSoFar(p)' = NoEntry
    <3>1. CASE job.kind = "pack"
      <4>1. \A j \in Todo' : j \in Nat \ {0}
        BY <1>1, TodoFacts, WantedKept DEF Along
      <4>2. \A j \in Todo' : ~Been(j)'
        BY <1>1, <2>2, <4>1 DEF Been
      <4> QED
        BY <1>1, <3>1, <4>2 DEF WantedSoFar, Along, KeepsSource, KeepsCall
    <3>2. CASE job.kind # "pack"
      <4>1. job.kind = "zip"
        BY <1>1, <3>2 DEF Control, JobOK
      <4>2. DOMAIN job.src \subseteq Nat \ {0}
        BY <1>1, <4>1, TodoFacts DEF Todo
      <4>3. {k \in DOMAIN job.src : k <= 0 /\ job.src[k].path = p} = {}
        BY <4>2
      <4>4. AfterFiles(job.src, 0, p) = NoEntry
        BY <4>3 DEF AfterFiles
      <4> QED
        BY <1>1, <2>2, <3>2, <4>4 DEF WantedSoFar, Reading, Along, KeepsSource, KeepsCall
    <3> QED
      BY <3>1, <3>2
  <2>5. \A p \in Paths : ValueOf(job'.dst.entries[p]) = WantedSoFar(p)'
    BY <2>3, <2>4
  <2> QED
    BY <1>1, <2>1, <2>5 DEF TargetOK
<1>5. ReaderOK'
  BY <1>1 DEF ReaderOK, Reading
<1> QED
  BY <1>1, <1>3, <1>4, <1>5, AlongContent DEF HasSource, Filling, Copies

\* The entry that is up.
LEMMA UpFacts ==
    ASSUME Control, Content, job.pc \in Copies, job.kind = "pack", NEW j \in Todo
    PROVE  LET e == job.src.entries[PathOrder[j]]
           IN  /\ PathOrder[j] \in Paths
               /\ e # NoEntry /\ EntryOK(e, damage) /\ e.val \in Vals /\ e.good
               /\ IsCut(ChunkEnds[e.val])
               /\ damage = 0 => file.entries[PathOrder[j]] = e
<1>1. PathOrder[j] \in Live(job.src.entries)
  BY DEF Todo
<1>2. PathOrder[j] \in Paths /\ job.src.entries[PathOrder[j]] # NoEntry
  BY <1>1 DEF Live
<1>3. job.pc \in HasSource
  BY DEF HasSource, Filling
<1>4. Sound(job.src.entries, damage) /\ (damage = 0 => job.src = file)
  BY <1>3 DEF Content, SourceOK
<1> QED
  BY <1>2, <1>4, CatalogAssumption DEF Sound, EntryOK

\* The archive.
LEMMA ArchiveFacts ==
    ASSUME Control, job.kind = "zip", job.pc # "none"
    PROVE  /\ Len(job.src) \in Nat /\ DOMAIN job.src = 1 .. Len(job.src) /\ Todo = 1 .. Len(job.src)
           /\ \A j \in Todo : /\ job.src[j].gives \in Vals /\ IsCut(ChunkEnds[job.src[j].gives])
                             /\ NewEntry(job.src[j].gives, job.src[j].meta).val = job.src[j].gives
<1>1. job.src \in Archives
  BY DEF Control, JobOK
<1>2. job.src \in Seq({job.src[k] : k \in DOMAIN job.src})
  BY <1>1, RebuildAssumption
<1>3. Len(job.src) \in Nat /\ DOMAIN job.src = 1 .. Len(job.src) /\ Todo = 1 .. Len(job.src)
  BY <1>2 DEF Todo
<1>4. ASSUME NEW j \in Todo
      PROVE  /\ job.src[j].gives \in Vals /\ IsCut(ChunkEnds[job.src[j].gives])
             /\ NewEntry(job.src[j].gives, job.src[j].meta).val = job.src[j].gives
  <2>1. job.src[j].gives \in Vals
    BY <1>1, <1>3, RebuildAssumption
  <2> QED
    BY <2>1, CatalogAssumption DEF NewEntry
<1> QED
  BY <1>3, <1>4

\* The entry that is being copied.
LEMMA OriginalFacts ==
    ASSUME Control, Content, Reading
    PROVE  /\ job.i \in Todo /\ Copying \in Paths
           /\ Original # NoEntry /\ Original.val \in Vals /\ Original.good
           /\ IsCut(ChunkEnds[Original.val])
           /\ damage = 0 \/ job.kind = "zip" => OnDisk = Original.chunks /\ ChunksOK(Original)
           /\ job.kind = "pack" => Copying = PathOrder[job.i] /\ Original = job.src.entries[Copying]
           /\ job.kind = "zip" => /\ Copying = job.src[job.i].path
                                 /\ Original.val = job.src[job.i].gives
                                 /\ Original.meta = job.src[job.i].meta
<1>1. job.i \in Todo /\ Copying \in Paths /\ job.pc \in Copies /\ job.pc # "none"
  BY DEF Content, ReaderOK, Reading, Copies
<1>2. CASE job.kind = "pack"
  <2>1. Copying = PathOrder[job.i] /\ Original = job.src.entries[Copying]
    BY <1>2 DEF Copying, Original
  <2>2. /\ Original # NoEntry /\ EntryOK(Original, damage) /\ Original.val \in Vals /\ Original.good
        /\ IsCut(ChunkEnds[Original.val])
        /\ damage = 0 => file.entries[Copying] = Original
    BY <1>1, <1>2, <2>1, UpFacts
  <2> QED
    BY <1>1, <1>2, <2>1, <2>2 DEF OnDisk, EntryOK
<1>3. CASE job.kind # "pack"
  <2>1. job.kind = "zip"
    BY <1>1, <1>3 DEF Control, JobOK
  <2> DEFINE f == job.src[job.i]
             e == NewEntry(f.gives, f.meta)
  <2>2. f.gives \in Vals /\ IsCut(ChunkEnds[f.gives])
    BY <1>1, <2>1, ArchiveFacts
  <2>3. e # NoEntry /\ EntryOK(e, 0)
    BY <2>2, NewEntryFacts
  <2>4. e.val = f.gives /\ e.meta = f.meta /\ e.good
    BY DEF NewEntry
  <2>5. Original = e /\ Copying = f.path /\ OnDisk = Original.chunks
    BY <1>3 DEF Original, Copying, OnDisk
  <2>6. ChunksOK(e)
    BY <2>3 DEF EntryOK
  <2> HIDE DEF e
  <2> QED
    BY <1>1, <2>1, <2>2, <2>3, <2>4, <2>5, <2>6
<1> QED
  BY <1>2, <1>3

\* A reader at its start.
LEMMA NewReaderFacts ==
    ASSUME NEW ends, IsCut(ends), NEW limits, NEW r, r = NewReader(ends, limits)
    PROVE  /\ ReaderShape(r, ends) /\ r.opts = limits
           /\ Received0 = [len |-> r.at, same |-> TRUE]
<1>1. Len(ends) \in Nat
  BY DEF IsCut
<1>2. /\ r = [ends |-> ends, opts |-> limits, idx |-> 1, at |-> 0, upto |-> 0,
              flipped |-> FALSE, readTotal |-> 0]
      /\ r.ends = ends /\ r.opts = limits /\ r.idx = 1 /\ r.at = 0
      /\ r.upto = 0 /\ ~r.flipped /\ r.readTotal = 0
  BY DEF NewReader
<1>3. RawOffset(ends, 1) = 0
  BY DEF RawOffset
<1>4. r = [ends |-> ends, opts |-> r.opts, idx |-> r.idx, at |-> r.at,
           upto |-> RawOffset(ends, r.idx), flipped |-> r.flipped, readTotal |-> r.readTotal]
  BY <1>2, <1>3, Zenon
<1>5. r.idx \in 1 .. Len(ends) + 1 /\ r.at \in 0 .. r.upto
  BY <1>1, <1>2
<1>6. ReaderShape(r, ends)
  BY <1>2, <1>4, <1>5, Zenon DEF ReaderShape
<1> QED
  BY <1>2, <1>6, Zenon DEF Received0

LEMMA OpenEntryContent ==
    ASSUME Control, Content, NEW j \in Rest, OpenEntry(j)
    PROVE  Content'
<1>1. job.pc = "next" /\ job.kind = "pack" /\ \A k \in Rest : j <= k
  BY OpenEntryFacts
<1>2. CASE Failed /\ UNCHANGED <<ghosts, budgets>>
  BY <1>1, <1>2, FailedContent DEF budgets
<1>3. ASSUME NEW limits, limits.verifyCRC = ~job.opts.FastUnsafe,
             Opened(j, ChunkEnds[job.src.entries[PathOrder[j]].val], limits)
      PROVE  Content'
  <2>0. /\ Quiet /\ job'.pc = "peek" /\ job'.i = j /\ job'.dst = job.dst
        /\ job'.got = Received0 /\ job'.room = 0
        /\ job'.r = NewReader(ChunkEnds[job.src.entries[PathOrder[j]].val], limits)
    BY <1>3 DEF Opened
  <2>1. /\ Todo' = Todo /\ Todo \subseteq Nat \ {0} /\ Rest \subseteq Todo /\ job.i \in Nat
        /\ KeepsSource
    BY <1>1, <2>0, WantedKept, TodoFacts DEF Quiet, Along, Control, JobOK
  <2>2. TargetOK'
    <3>1. ASSUME NEW k \in Todo PROVE Been(k)' <=> Been(k)
      <4>1. k \in Nat /\ j \in Nat /\ j > job.i /\ (k > job.i => j <= k)
        BY <1>1, <2>1 DEF Rest
      <4>2. Been(k)' <=> k < j
        BY <2>0, <4>1 DEF Been, Reading
      <4>3. Been(k) <=> k <= job.i
        BY <1>1, <2>1, <4>1 DEF Been, Reading
      <4> QED
        BY <2>1, <4>1, <4>2, <4>3
    <3>2. \A p \in Paths : WantedSoFar(p)' = WantedSoFar(p)
      BY <1>1, <2>1, <3>1, SoFarKept
    <3>3. TxShape(job.dst) /\ Sound(job.dst.entries, damage)
          /\ \A p \in Paths : ValueOf(job.dst.entries[p]) = WantedSoFar(p)
      BY <1>1 DEF Content, TargetOK, Filling, Copies
    <3> QED
      BY <2>0, <3>2, <3>3 DEF TargetOK, Quiet, Along
  <2>3. ReaderOK'
    <3> DEFINE e == job.src.entries[PathOrder[j]]
               ends == ChunkEnds[e.val]
    <3>1. IsCut(ends) /\ PathOrder[j] \in Paths
      BY <1>1, <2>1, UpFacts DEF Copies
    <3>2. /\ Copying' = PathOrder[j] /\ ChunkEnds[Original'.val] = ends
          /\ job'.kind = "pack" /\ job'.opts = job.opts
      BY <1>1, <2>0, <2>1 DEF Copying, Original, KeepsSource, KeepsCall
    <3>3. job'.r = NewReader(ends, limits)
      BY <2>0
    <3> HIDE DEF e, ends
    <3>4. /\ ReaderShape(job'.r, ends) /\ job'.r.opts = limits
          /\ job'.got = [len |-> job'.r.at, same |-> TRUE]
      BY <2>0, <3>1, <3>3, NewReaderFacts
    <3>5. job'.opts.FastUnsafe \/ job'.r.opts.verifyCRC
      BY <1>3, <3>2, <3>4
    <3>6. job'.i \in Todo' /\ job'.room \in Nat /\ Copying' \in Paths
      BY <2>0, <2>1, <3>1, <3>2
    <3> QED
      BY <3>2, <3>4, <3>5, <3>6 DEF ReaderOK
  <2>4. OutputOK'
    BY <1>1, <2>0, QuietOutput DEF Filling, Copies
  <2> QED
    BY <1>1, <2>0, <2>2, <2>3, <2>4, AlongContent DEF Quiet, HasSource, Filling, Copies
<1> QED
  BY <1>2, <1>3, OpenEntryFacts

LEMMA OpenMemberContent ==
    ASSUME Control, Content, NEW j \in Rest, OpenMember(j)
    PROVE  Content'
<1>1. job.pc = "next" /\ job.kind = "zip" /\ \A k \in Rest : j <= k
  BY OpenMemberFacts
<1>2. CASE Failed /\ UNCHANGED <<ghosts, budgets>>
  BY <1>1, <1>2, FailedContent DEF budgets
<1>3. ASSUME job.src[j].path \in Paths, NEW limits, limits.maxEntry = 0, limits.maxChunk = 0,
             Opened(j, ChunkEnds[job.src[j].gives], limits)
      PROVE  Content'
  <2>0. /\ Quiet /\ job'.pc = "peek" /\ job'.i = j /\ job'.dst = job.dst
        /\ job'.got = Received0 /\ job'.room = 0
        /\ job'.r = NewReader(ChunkEnds[job.src[j].gives], limits)
    BY <1>3 DEF Opened
  <2>1. /\ KeepsSource /\ Todo' = Todo /\ Rest \subseteq Todo /\ job.i \in Nat
        /\ Len(job.src) \in Nat /\ DOMAIN job.src = 1 .. Len(job.src) /\ Todo = 1 .. Len(job.src)
    BY <1>1, <2>0, WantedKept, TodoFacts, ArchiveFacts DEF Quiet, Along, Control, JobOK
  \* The files before this one are those the job has been through.
  <2>2. TargetOK'
    <3>1. ASSUME NEW k \in DOMAIN job.src PROVE k <= j - 1 <=> k <= job.i
      <4>1. k \in Nat /\ j \in Nat /\ j > job.i /\ (k > job.i => j <= k)
        BY <1>1, <2>1 DEF Rest
      <4> QED
        BY <2>1, <4>1
    <3>2. \A p \in Paths : WantedSoFar(p)' = WantedSoFar(p)
      <4> SUFFICES ASSUME NEW p \in Paths PROVE WantedSoFar(p)' = WantedSoFar(p)
        OBVIOUS
      <4>1. AfterFiles(job.src, j - 1, p) = AfterFiles(job.src, job.i, p)
        BY <3>1, SameFiles
      <4> QED
        BY <1>1, <2>0, <2>1, <4>1 DEF WantedSoFar, Reading, KeepsSource, KeepsCall
    <3>3. TxShape(job.dst) /\ Sound(job.dst.entries, damage)
          /\ \A p \in Paths : ValueOf(job.dst.entries[p]) = WantedSoFar(p)
      BY <1>1 DEF Content, TargetOK, Filling, Copies
    <3> QED
      BY <2>0, <3>2, <3>3 DEF TargetOK, Quiet, Along
  <2>3. ReaderOK'
    <3> DEFINE ends == ChunkEnds[job.src[j].gives]
    <3>1. IsCut(ends)
      BY <1>1, <2>1, ArchiveFacts
    <3>2. /\ Copying' = job.src[j].path /\ ChunkEnds[Original'.val] = ends /\ job'.kind = "zip"
      BY <1>1, <2>0, <2>1, ArchiveFacts DEF Copying, Original, KeepsSource, KeepsCall
    <3>3. job'.r = NewReader(ends, limits)
      BY <2>0
    <3> HIDE DEF ends
    <3>4. /\ ReaderShape(job'.r, ends) /\ job'.r.opts = limits
          /\ job'.got = [len |-> job'.r.at, same |-> TRUE]
      BY <2>0, <3>1, <3>3, NewReaderFacts
    <3>5. job'.i \in Todo' /\ job'.room \in Nat /\ Copying' \in Paths
      BY <1>3, <2>0, <2>1, <3>2
    <3> QED
      BY <1>3, <3>2, <3>4, <3>5 DEF ReaderOK
  <2>4. OutputOK'
    BY <1>1, <2>0, QuietOutput DEF Filling, Copies
  <2> QED
    BY <1>1, <2>0, <2>2, <2>3, <2>4, AlongContent DEF Quiet, HasSource, Filling, Copies
<1> QED
  BY <1>2, <1>3, OpenMemberFacts

\* A turn of the loop: the reader goes on where it was.
LEMMA CopiedFacts ==
    ASSUME NEW ends, IsCut(ends), NEW r, ReaderShape(r, ends), NEW state,
           ~Stops(r, state),
           r.at = r.upto => state[r.idx] # "flipped",
           NEW m \in Nat, m <= Loaded(r, state).upto - Loaded(r, state).at
    PROVE  LET l == Loaded(r, state)
           IN  /\ ReaderShape(Copied(l, m), ends) /\ Copied(l, m).opts = r.opts
               /\ Copied(l, m).at = r.at + m
               /\ ~l.flipped /\ l.at = r.at
<1> DEFINE l == Loaded(r, state)
           q == Copied(l, m)
<1>0. Len(ends) \in Nat /\ \A k \in 1 .. Len(ends) : ends[k] \in Nat
  BY DEF IsCut
<1>1. /\ l = [ends |-> ends, opts |-> r.opts, idx |-> l.idx, at |-> r.at,
              upto |-> RawOffset(ends, l.idx), flipped |-> l.flipped, readTotal |-> r.readTotal]
      /\ ~l.flipped /\ l.idx \in 1 .. Len(ends) + 1 /\ r.at \in 0 .. l.upto
  <2>1. CASE r.at < r.upto
    BY <2>1 DEF Loaded, ReaderShape
  <2>2. CASE ~(r.at < r.upto)
    <3>1. r.at = r.upto
      <4>1. RawOffset(ends, r.idx) \in Nat
        BY <1>0 DEF RawOffset, ReaderShape
      <4>2. r.upto = RawOffset(ends, r.idx)
        BY DEF ReaderShape
      <4> QED
        BY <2>2, <4>1, <4>2 DEF ReaderShape
    <3>2. r.ends = ends
      BY DEF ReaderShape
    <3>3. r.idx \in 1 .. Len(ends)
      BY <1>0, <3>1, <3>2 DEF Stops, ReaderShape
    <3>4. PICK flip : /\ l = [r EXCEPT !.idx = r.idx + 1, !.at = RawOffset(ends, r.idx),
                                      !.upto = ends[r.idx], !.flipped = flip]
                      /\ ~flip
      <4> WITNESS state[r.idx] = "flipped"
      <4> QED
        BY <2>2, <3>1, <3>2 DEF Loaded, ReaderShape
    <3> HIDE DEF l
    <3>5. l = [r EXCEPT !.idx = r.idx + 1, !.at = RawOffset(ends, r.idx), !.upto = ends[r.idx],
                        !.flipped = flip]
      BY <3>4
    <3>6. RawOffset(ends, r.idx + 1) = ends[r.idx]
      BY <3>3 DEF RawOffset
    <3>7. RawOffset(ends, r.idx) = r.at
      BY <3>1 DEF ReaderShape
    <3>8. r.at \in 0 .. ends[r.idx]
      <4>1. CASE r.idx = 1
        BY <1>0, <3>3, <3>7, <4>1 DEF RawOffset
      <4>2. CASE r.idx # 1
        <5>1. r.idx - 1 \in 1 .. Len(ends) - 1
          BY <1>0, <3>3, <4>2
        <5>2. ends[r.idx - 1] < ends[(r.idx - 1) + 1]
          BY <5>1 DEF IsCut
        <5>3. r.at = ends[r.idx - 1] /\ (r.idx - 1) + 1 = r.idx
          BY <3>3, <3>7, <4>2 DEF RawOffset
        <5> QED
          BY <1>0, <3>3, <5>1, <5>2, <5>3
      <4> QED
        BY <4>1, <4>2
    <3>9. /\ l.idx = r.idx + 1 /\ l.upto = ends[r.idx] /\ l.flipped = flip
          /\ l = [ends |-> ends, opts |-> r.opts, idx |-> l.idx, at |-> r.at,
                  upto |-> l.upto, flipped |-> l.flipped, readTotal |-> r.readTotal]
      <4>1. r = [ends |-> ends, opts |-> r.opts, idx |-> r.idx, at |-> r.at, upto |-> r.upto,
                 flipped |-> r.flipped, readTotal |-> r.readTotal]
        BY DEF ReaderShape
      <4>2. /\ l.idx = r.idx + 1 /\ l.upto = ends[r.idx] /\ l.flipped = flip
            /\ l.at = RawOffset(ends, r.idx) /\ l.ends = ends /\ l.opts = r.opts
            /\ l.readTotal = r.readTotal
        BY <3>5, <4>1
      <4>3. l = [ends |-> l.ends, opts |-> l.opts, idx |-> l.idx, at |-> l.at, upto |-> l.upto,
                 flipped |-> l.flipped, readTotal |-> l.readTotal]
        BY <3>5, <4>1
      <4> QED
        BY <3>7, <4>2, <4>3, Zenon
    <3>10. l.upto = RawOffset(ends, l.idx)
      BY <3>6, <3>9
    <3> QED
      <4>1. ~l.flipped
        BY <3>4, <3>9
      <4> QED
        BY <1>0, <3>3, <3>8, <3>9, <3>10, <4>1
  <2> QED
    BY <2>1, <2>2
<1> HIDE DEF l
<1>2. q = [l EXCEPT !.at = r.at + m, !.readTotal = r.readTotal + m]
  <2>1. l.at = r.at /\ l.readTotal = r.readTotal
    BY <1>1
  <2> QED
    BY <2>1 DEF Copied
<1>3. m <= l.upto - l.at
  BY DEF l
<1> HIDE DEF q
<1>4. /\ q = [ends |-> ends, opts |-> r.opts, idx |-> q.idx, at |-> q.at,
              upto |-> RawOffset(ends, q.idx), flipped |-> q.flipped, readTotal |-> q.readTotal]
      /\ q.idx = l.idx /\ q.at = r.at + m /\ q.upto = l.upto /\ q.flipped = l.flipped
  <2>1. l = [ends |-> ends, opts |-> r.opts, idx |-> l.idx, at |-> r.at,
             upto |-> RawOffset(ends, l.idx), flipped |-> l.flipped, readTotal |-> r.readTotal]
    BY <1>1
  <2>2. /\ q.idx = l.idx /\ q.at = r.at + m /\ q.upto = l.upto /\ q.flipped = l.flipped
        /\ q.ends = ends /\ q.opts = r.opts /\ q.upto = RawOffset(ends, l.idx)
    BY <1>2, <2>1
  <2>3. q = [ends |-> q.ends, opts |-> q.opts, idx |-> q.idx, at |-> q.at,
             upto |-> q.upto, flipped |-> q.flipped, readTotal |-> q.readTotal]
    BY <1>2, <2>1
  <2> QED
    BY <2>2, <2>3, Zenon
<1>5. l.upto \in Nat
  <2>1. l.upto = RawOffset(ends, l.idx)
    BY <1>1
  <2> QED
    BY <1>0, <1>1, <2>1 DEF RawOffset
<1>6. r.at + m \in 0 .. l.upto /\ l.at = r.at
  BY <1>1, <1>3, <1>5
<1>7. ReaderShape(q, ends) /\ q.opts = r.opts
  BY <1>1, <1>4, <1>6 DEF ReaderShape
<1> QED
  BY <1>1, <1>4, <1>6, <1>7 DEF l, q

\* What has been received is the part before the reader's position.
LEMMA ReceivedFacts ==
    ASSUME NEW got, NEW l, NEW n, NEW m, got = [len |-> n, same |-> TRUE], l.at = n, ~l.flipped
    PROVE  Received(got, l, m) = [len |-> n + m, same |-> TRUE]
<1>1. got.len = n /\ got.same
  OBVIOUS
<1>2. (got.same /\ ~l.flipped /\ l.at = got.len) = TRUE
  BY <1>1
<1>3. Received(got, l, m) = [len |-> got.len + m, same |-> got.same /\ ~l.flipped /\ l.at = got.len]
  BY DEF Received
<1> QED
  BY <1>1, <1>2, <1>3, Zenon

\* A chunk that was changed is not passed on: its CRC is verified, or nothing
\* has been changed.
LEMMA NotFlipped ==
    ASSUME Control, Content, Trusted, Reading, ~Stops(job.r, OnDisk), job.r.at = job.r.upto
    PROVE  OnDisk[job.r.idx] # "flipped"
<1> DEFINE e == Original
<1>1. job.pc # "none" /\ job.kind \in {"pack", "zip"}
  BY DEF Reading, Control, JobOK
<1>2. IsCut(ChunkEnds[e.val]) /\ ReaderShape(job.r, ChunkEnds[e.val])
  BY OriginalFacts DEF Content, ReaderOK
<1>3. job.r.idx <= Len(job.r.ends) /\ ~NextChunkFails(job.r, OnDisk) /\ job.r.ends = ChunkEnds[e.val]
  BY <1>2 DEF Stops, ReaderShape
<1>4. CASE job.r.opts.verifyCRC
  BY <1>3, <1>4 DEF NextChunkFails, ChunkFails
<1>5. CASE ~job.r.opts.verifyCRC
  <2>1. damage = 0 \/ job.kind = "zip"
    BY <1>1, <1>5 DEF Control, JobOK, Trusted, Content, ReaderOK
  <2>2. OnDisk = e.chunks /\ ChunksOK(e)
    BY <2>1, OriginalFacts
  <2>3. job.r.idx \in DOMAIN ChunkEnds[e.val]
    <3>1. job.r.idx \in 1 .. Len(ChunkEnds[e.val])
      BY <1>2, <1>3 DEF ReaderShape, IsCut
    <3> QED
      BY <1>2, <3>1 DEF IsCut
  <2> QED
    BY <2>2, <2>3 DEF ChunksOK
<1> QED
  BY <1>4, <1>5

LEMMA ReadContent ==
    ASSUME Control, Content, Trusted,
           \/ \E n \in 1 .. BufSize : ReadStarts(n) \/ ReadCopies(n)
           \/ ReadReturns \/ PeekEnds
    PROVE  Content'
<1>1. /\ Quiet /\ Reading /\ job'.pc \in {"peek", "read"}
      /\ job'.i = job.i /\ job'.dst = job.dst
      /\ job.room \in Nat => job'.room \in Nat
  BY ReadFacts
<1>2. job.pc \in Copies /\ KeepsSource /\ Reading'
  BY <1>1 DEF Reading, Copies, Quiet, Along
<1>3. Wanted' = Wanted /\ Todo' = Todo /\ Copying' = Copying /\ Original' = Original
  BY <1>1, <1>2, WantedKept DEF Copying, Original, KeepsSource, KeepsCall
<1>4. TargetOK'
  <2>1. \A k \in Todo : Been(k)' <=> Been(k)
    BY <1>1, <1>2 DEF Been
  <2>2. \A p \in Paths : WantedSoFar(p)' = WantedSoFar(p)
    BY <1>1, <1>2, <2>1, SoFarKept
  <2>3. TxShape(job.dst) /\ Sound(job.dst.entries, damage)
        /\ \A p \in Paths : ValueOf(job.dst.entries[p]) = WantedSoFar(p)
    BY <1>2 DEF Content, TargetOK, Filling
  <2> QED
    BY <1>1, <2>2, <2>3 DEF TargetOK, Quiet, Along
<1>5. ReaderOK'
  <2> DEFINE ends == ChunkEnds[Original.val]
  <2>0. ChunkEnds[Original'.val] = ends
    BY <1>3
  <2>1. /\ job.i \in Todo /\ Copying \in Paths /\ ReaderShape(job.r, ends)
        /\ job.got = [len |-> job.r.at, same |-> TRUE]
        /\ job.kind = "pack" => job.opts.FastUnsafe \/ job.r.opts.verifyCRC
        /\ job.kind = "zip" => job.r.opts.maxEntry = 0 /\ job.r.opts.maxChunk = 0
        /\ job.room \in Nat
    BY <1>1 DEF Content, ReaderOK
  <2>2. IsCut(ends)
    BY <1>1, OriginalFacts
  <2> HIDE DEF ends
  <2>3. /\ ReaderShape(job'.r, ends) /\ job'.got = [len |-> job'.r.at, same |-> TRUE]
        /\ job'.r.opts = job.r.opts
    <3>1. CASE job'.r = job.r /\ job'.got = job.got
      BY <2>1, <3>1
    <3>2. CASE /\ ~Stops(job.r, OnDisk)
               /\ \E m \in Nat :
                    LET r == Loaded(job.r, OnDisk)
                    IN  /\ m <= r.upto - r.at
                        /\ job'.r = Copied(r, m) /\ job'.got = Received(job.got, r, m)
      <4>1. PICK m \in Nat :
                    LET r == Loaded(job.r, OnDisk)
                    IN  /\ m <= r.upto - r.at
                        /\ job'.r = Copied(r, m) /\ job'.got = Received(job.got, r, m)
        BY <3>2
      <4> DEFINE s == OnDisk
                 r == job.r
                 l == Loaded(r, s)
      <4>2. r.at = r.upto => s[r.idx] # "flipped"
        BY <1>1, <3>2, NotFlipped
      <4>3. /\ m <= Loaded(r, s).upto - Loaded(r, s).at
            /\ job'.r = Copied(Loaded(r, s), m) /\ job'.got = Received(job.got, Loaded(r, s), m)
        BY <4>1
      <4>4. ReaderShape(r, ends) /\ ~Stops(r, s) /\ job.got = [len |-> r.at, same |-> TRUE]
        BY <2>1, <3>2
      <4> HIDE DEF s, r
      <4>5. /\ ReaderShape(Copied(l, m), ends) /\ Copied(l, m).opts = r.opts
            /\ Copied(l, m).at = r.at + m
            /\ ~l.flipped /\ l.at = r.at
        BY <2>2, <4>2, <4>3, <4>4, CopiedFacts
      <4>6. Received(job.got, l, m) = [len |-> r.at + m, same |-> TRUE]
        <5> DEFINE g == job.got
                   x == r.at
        <5>1. g = [len |-> x, same |-> TRUE] /\ l.at = x /\ ~l.flipped
          BY <4>4, <4>5
        <5> HIDE DEF l, g, x
        <5>2. Received(g, l, m) = [len |-> x + m, same |-> TRUE]
          BY <5>1, ReceivedFacts, Zenon
        <5> QED
          BY <5>2 DEF g, x
      <4>7. job'.r = Copied(l, m) /\ job'.got = Received(job.got, l, m)
        BY <4>3
      <4> HIDE DEF l
      <4>8. job'.r.at = r.at + m
        BY <4>5, <4>7
      <4>9. job'.got = [len |-> job'.r.at, same |-> TRUE]
        BY <4>6, <4>7, <4>8, Zenon
      <4> QED
        BY <4>5, <4>7, <4>9 DEF r
    <3> QED
      BY <3>1, <3>2, ReadFacts
  <2>4. job'.room \in Nat /\ job'.i \in Todo' /\ Copying' \in Paths
    BY <1>1, <1>3, <2>1
  <2>5. /\ job'.kind = "pack" => job'.opts.FastUnsafe \/ job'.r.opts.verifyCRC
        /\ job'.kind = "zip" => job'.r.opts.maxEntry = 0 /\ job'.r.opts.maxChunk = 0
    BY <1>2, <2>1, <2>3 DEF KeepsSource, KeepsCall
  <2> QED
    BY <2>0, <2>3, <2>4, <2>5, Zenon DEF ReaderOK
<1>6. OutputOK'
  BY <1>1, <1>2, QuietOutput DEF Filling
<1> QED
  BY <1>1, <1>2, <1>4, <1>5, <1>6, AlongContent DEF Quiet, HasSource, Filling, Copies

\* What is wanted of an entry of a container.
LEMMA WantedEntry ==
    ASSUME job.kind = "pack", NEW p \in Paths, NEW e, e = job.src.entries[p]
    PROVE  /\ e = NoEntry => Wanted[p] = NoEntry
           /\ e # NoEntry /\ e.good =>
                Wanted[p] = [val |-> e.val, meta |-> IF job.opts.ClearMeta THEN NoMeta ELSE e.meta]
<1>1. Values(job.src)[p] = ValueOf(e)
  BY DEF Values
<1>2. CASE e = NoEntry
  <2>1. ValueOf(e) = NoEntry
    BY <1>2 DEF ValueOf
  <2> QED
    BY <1>1, <1>2, <2>1 DEF Wanted, Cleared
<1>3. CASE e # NoEntry /\ e.good
  <2>1. ValueOf(e) = [val |-> e.val, meta |-> e.meta] /\ ValueOf(e) # NoEntry
    BY <1>3, ValueFacts
  <2>2. CASE job.opts.ClearMeta
    <3>1. Wanted[p] = [ValueOf(e) EXCEPT !.meta = NoMeta]
      BY <1>1, <2>1, <2>2 DEF Wanted, Cleared
    <3>2. [[val |-> e.val, meta |-> e.meta] EXCEPT !.meta = NoMeta] = [val |-> e.val, meta |-> NoMeta]
      OBVIOUS
    <3> QED
      BY <1>3, <2>1, <2>2, <3>1, <3>2
  <2>3. CASE ~job.opts.ClearMeta
    BY <1>1, <1>3, <2>1, <2>3 DEF Wanted
  <2> QED
    BY <2>2, <2>3
<1> QED
  BY <1>2, <1>3

\* A reader that has come to its end has passed on the whole payload.
LEMMA EndFacts ==
    ASSUME NEW ends, IsCut(ends), NEW r, ReaderShape(r, ends), NEW state,
           Stops(r, state), r.idx > Len(ends)
    PROVE  r.at = FileSize(ends)
<1>1. Len(ends) \in Nat
  BY DEF IsCut
<1>2. r.ends = ends /\ r.upto = RawOffset(ends, r.idx) /\ r.idx \in 1 .. Len(ends) + 1
  BY DEF ReaderShape
<1>3. r.idx = Len(ends) + 1
  BY <1>1, <1>2
<1>4. r.at = r.upto
  BY DEF Stops
<1> QED
  BY <1>2, <1>3, <1>4 DEF FileSize

\* Without limits and damage a reader stops at its end only.
LEMMA NoLimits ==
    ASSUME NEW ends, IsCut(ends), NEW r, ReaderShape(r, ends), NEW state,
           r.opts.maxEntry = 0, r.opts.maxChunk = 0, \A k \in DOMAIN ends : state[k] = "ok",
           Stops(r, state)
    PROVE  r.idx > Len(ends)
<1> SUFFICES ASSUME ~(r.idx > Len(ends)) PROVE FALSE
  OBVIOUS
<1>1. r.idx \in DOMAIN ends /\ r.idx <= Len(ends) /\ r.ends = ends
  BY DEF IsCut, ReaderShape
<1>2. state[r.idx] = "ok"
  BY <1>1
<1>3. NextChunkFails(r, state)
  BY <1>1 DEF Stops
<1> QED
  BY <1>2, <1>3 DEF NextChunkFails, ChunkFails

\* Either way the whole payload has been received.
LEMMA WholeRead ==
    ASSUME Control, Content, Reading, Stops(job.r, OnDisk), ReadError # "error"
    PROVE  job.got = [len |-> FileSize(ChunkEnds[Original.val]), same |-> TRUE]
<1> DEFINE ends == ChunkEnds[Original.val]
           r == job.r
           s == OnDisk
<1>1. /\ IsCut(ends) /\ ReaderShape(r, ends) /\ Stops(r, s) /\ r.ends = ends
      /\ job.got = [len |-> r.at, same |-> TRUE]
  BY OriginalFacts DEF Content, ReaderOK, ReaderShape
<1>2. job.kind = "pack" => r.idx > Len(ends)
  BY <1>1 DEF ReadError, StopError
<1>3. job.kind = "zip" => r.idx > Len(ends)
  <2> SUFFICES ASSUME job.kind = "zip" PROVE r.idx > Len(ends)
    OBVIOUS
  <2>1. r.opts.maxEntry = 0 /\ r.opts.maxChunk = 0 /\ \A k \in DOMAIN ends : s[k] = "ok"
    BY OriginalFacts DEF Content, ReaderOK, ChunksOK
  <2> HIDE DEF ends, r, s
  <2> QED
    BY <1>1, <2>1, NoLimits
<1>4. job.kind \in {"pack", "zip"}
  BY DEF Control, JobOK, Reading
<1> HIDE DEF ends, r, s
<1>5. r.at = FileSize(ends)
  BY <1>1, <1>2, <1>3, <1>4, EndFacts
<1> QED
  BY <1>1, <1>5 DEF ends

LEMMA ReadEndsContent ==
    ASSUME Control, Content, ReadEnds
    PROVE  Content'
<1>1. job.pc = "read" /\ job.pc \in Copies /\ job.kind \in {"pack", "zip"} /\ Reading
  BY ReadEndsFacts DEF Control, JobOK, Copies, Reading
<1>2. CASE Failed /\ UNCHANGED <<ghosts, budgets>>
  BY <1>1, <1>2, FailedContent DEF budgets
<1> DEFINE e == Original
           m == MetaOf(e)
           whole == job.got = [len |-> FileSize(ChunkEnds[e.val]), same |-> TRUE]
<1>3. ASSUME Quiet, job'.pc = "next", job'.i = job.i,
             Stops(job.r, OnDisk), ReadError # "error",
             job'.dst = PutEntry(Copying, e.val, m, whole /\ e.good)
      PROVE  Content'
  <2>1. /\ job.i \in Todo /\ Copying \in Paths /\ e # NoEntry /\ e.val \in Vals /\ e.good
    BY <1>1, OriginalFacts
  <2>2. job'.dst = Stored(job.dst, Copying, e.val, m)
    <3>1. whole
      BY <1>1, <1>3, WholeRead
    <3> HIDE DEF whole, m
    <3> QED
      BY <1>3, <2>1, <3>1 DEF PutEntry
  <2>3. /\ TxShape(job.dst) /\ Sound(job.dst.entries, damage)
        /\ \A p \in Paths : ValueOf(job.dst.entries[p]) = WantedSoFar(p)
    BY <1>1 DEF Content, TargetOK, Filling
  <2>4. /\ TxShape(job'.dst) /\ Sound(job'.dst.entries, damage)
        /\ ValueOf(job'.dst.entries[Copying]) = [val |-> e.val, meta |-> m]
        /\ \A q \in Paths \ {Copying} : job'.dst.entries[q] = job.dst.entries[q]
    <3> DEFINE t == job.dst
               u == job'.dst
               p == Copying
               v == e.val
    <3>1. /\ u = Stored(t, p, v, m)
          /\ TxShape(t) /\ Sound(t.entries, damage) /\ p \in Paths /\ v \in Vals
      BY <2>1, <2>2, <2>3
    <3> HIDE DEF t, u, p, v, m
    <3>2. /\ TxShape(u) /\ Sound(u.entries, damage)
          /\ ValueOf(u.entries[p]) = [val |-> v, meta |-> m]
          /\ \A q \in Paths \ {p} : u.entries[q] = t.entries[q]
      BY <3>1, PutFacts
    <3> QED
      BY <3>2 DEF t, u, p, v
  <2>5. /\ Todo' = Todo /\ Wanted' = Wanted /\ KeepsSource
        /\ Todo \subseteq Nat /\ ~Reading'
    BY <1>1, <1>3, WantedKept, TodoFacts DEF Quiet, Along, Reading
  <2>6. ASSUME job.kind = "pack", NEW p \in Paths
        PROVE  ValueOf(job'.dst.entries[p]) = WantedSoFar(p)'
    <3>1. \A j \in Todo : Been(j)' <=> (Been(j) \/ j = job.i)
      BY <1>1, <1>3 DEF Been, Reading
    <3>2. Copying = PathOrder[job.i] /\ e = job.src.entries[Copying]
      BY <1>1, <2>6, OriginalFacts
    <3>3. CASE p = Copying
      <4>1. Wanted[p] = [val |-> e.val, meta |-> m]
        BY <2>1, <2>6, <3>2, <3>3, WantedEntry DEF MetaOf
      <4>2. WantedSoFar(p)' = Wanted[p]
        BY <2>1, <2>5, <2>6, <3>1, <3>2, <3>3 DEF WantedSoFar, KeepsSource, KeepsCall
      <4> QED
        BY <2>4, <3>3, <4>1, <4>2
    <3>4. CASE p # Copying
      <4>1. WantedSoFar(p)' = WantedSoFar(p)
        BY <2>5, <2>6, <3>1, <3>2, <3>4 DEF WantedSoFar, KeepsSource, KeepsCall
      <4> QED
        BY <2>3, <2>4, <3>4, <4>1
    <3> QED
      BY <3>3, <3>4
  <2>7. ASSUME job.kind = "zip", NEW p \in Paths
        PROVE  ValueOf(job'.dst.entries[p]) = WantedSoFar(p)'
    <3> DEFINE z == job.src
               n == Len(job.src)
               j == job.i
    <3>1. n \in Nat /\ DOMAIN z = 1 .. n /\ j \in 1 .. n
      BY <1>1, <2>1, <2>7, ArchiveFacts
    <3>2. /\ WantedSoFar(p) = AfterFiles(z, j - 1, p)
          /\ WantedSoFar(p)' = AfterFiles(z, j, p)
      BY <1>1, <1>3, <2>5, <2>7 DEF WantedSoFar, KeepsSource, KeepsCall
    <3>3. z[j].path = Copying /\ FileValue(z[j]) = [val |-> e.val, meta |-> m]
      <4>1. z[j].path = Copying /\ e.val = z[j].gives /\ e.meta = z[j].meta
        BY <1>1, <2>7, OriginalFacts
      <4>2. z[j].ending # "error"
        BY <1>3, <2>7 DEF ReadError
      <4> QED
        BY <2>7, <4>1, <4>2 DEF FileValue, MetaOf
    <3> HIDE DEF z, n, j
    <3>4. AfterFiles(z, j, p) = IF z[j].path = p THEN FileValue(z[j]) ELSE AfterFiles(z, j - 1, p)
      BY <3>1, FileAdded
    <3> QED
      BY <2>3, <2>4, <3>2, <3>3, <3>4
  <2>8. TargetOK'
    BY <1>1, <1>3, <2>4, <2>6, <2>7 DEF TargetOK, Quiet, Along
  <2>9. ReaderOK'
    BY <1>3 DEF ReaderOK, Reading
  <2>10. OutputOK'
    BY <1>1, <1>3, QuietOutput DEF Filling
  <2> QED
    BY <1>1, <1>3, <2>8, <2>9, <2>10, AlongContent DEF Quiet, HasSource, Filling, Copies
<1> QED
  BY <1>2, <1>3, ReadEndsFacts

\* When nothing is left to be done, the target holds what is wanted.
LEMMA AllPut ==
    ASSUME Control, Content, job.pc = "next", Rest = {}
    PROVE  Values(Built) = Wanted
<1>1. \A p \in Paths : ValueOf(job.dst.entries[p]) = WantedSoFar(p)
  BY DEF Content, TargetOK, Copies
<1>2. job.i \in Nat /\ Todo \subseteq Nat
  BY TodoFacts DEF Control, JobOK
<1>3. \A j \in Todo : j <= job.i
  BY <1>2 DEF Rest
<1>4. ASSUME NEW p \in Paths PROVE WantedSoFar(p) = Wanted[p]
  <2>1. CASE job.kind = "pack"
    <3>1. CASE job.src.entries[p] = NoEntry
      <4>1. Wanted[p] = NoEntry
        BY <2>1, <3>1, WantedEntry
      <4> QED
        BY <2>1, <4>1 DEF WantedSoFar
    <3>2. CASE job.src.entries[p] # NoEntry
      <4>1. PICK j \in DOMAIN PathOrder : PathOrder[j] = p
        BY DEF Paths
      <4>2. j \in Todo
        BY <2>1, <3>2, <4>1 DEF Todo, Live
      <4>3. Been(j)
        <5>1. j \in Nat /\ job.i \in Nat /\ j <= job.i
          BY <1>2, <1>3, <4>2
        <5>2. j < job.i \/ j = job.i
          BY <5>1
        <5>3. ~Reading
          BY DEF Reading
        <5> QED
          BY <5>2, <5>3 DEF Been
      <4> QED
        BY <2>1, <4>1, <4>2, <4>3 DEF WantedSoFar
    <3> QED
      BY <3>1, <3>2
  <2>2. CASE job.kind # "pack"
    <3> DEFINE z == job.src
               n == Len(job.src)
               i == job.i
    <3>1. job.kind = "zip"
      BY <2>2 DEF Control, JobOK
    <3>2. z \in Archives
      BY <3>1 DEF Control, JobOK
    <3>3. z \in Seq({z[k] : k \in DOMAIN z})
      BY <3>2, RebuildAssumption
    <3>4. DOMAIN z = 1 .. n /\ n \in Nat
      BY <3>3
    <3>5. i \in Nat /\ \A k \in 1 .. n : k <= i
      BY <1>2, <1>3, <3>1, <3>4 DEF Todo
    <3>6. WantedSoFar(p) = AfterFiles(z, i, p) /\ Wanted[p] = AfterFiles(z, n, p)
      BY <2>2 DEF WantedSoFar, Wanted, Reading
    <3>7. \A k \in DOMAIN z : k <= i <=> k <= n
      BY <3>4, <3>5
    <3> HIDE DEF z, n, i
    <3> QED
      BY <3>6, <3>7, SameFiles
  <2> QED
    BY <2>1, <2>2
<1>5. Built.entries = job.dst.entries
  BY DEF Built, Committed
<1>6. Values(Built) = [p \in Paths |-> Wanted[p]]
  BY <1>1, <1>4, <1>5 DEF Values
<1> QED
  BY <1>6, WantedShape

\* What Commit makes of the target's transaction.
LEMMA BuiltFacts ==
    /\ ContainerShape(Built) /\ IsContainer(Built)
    /\ Built.entries = job.dst.entries
<1>1. ContainerShape(Built) /\ Built.entries = job.dst.entries
  BY DEF Built, Committed, ContainerShape
<1> QED
  BY <1>1, ContainerFacts

LEMMA CommitContent ==
    ASSUME Control, Content, CommitStarts \/ CommitEnds
    PROVE  Content'
<1>1. Along /\ KeepsCopy /\ want' = want
  BY CommitFacts
<1>2. KeepsSource /\ Wanted' = Wanted /\ Built' = Built
  BY <1>1, WantedKept DEF Along, KeepsCopy, Built
<1>3. OutOK(other["out"], want)
  BY DEF Content, OutputOK
<1>4. CASE /\ job.pc = "next" /\ job'.pc = "commit" /\ Rest = {}
           /\ other' = other /\ disk' = disk \cup {Built}
  <2>1. Values(Built) = Wanted
    BY <1>4, AllPut
  <2>2. TxShape(job.dst) /\ Sound(job.dst.entries, damage)
    BY <1>4 DEF Content, TargetOK, Filling, Copies
  <2>3. TargetOK'
    BY <1>1, <1>2, <1>4, <2>1, <2>2 DEF TargetOK, Along, KeepsCopy, Copies
  <2>4. ReaderOK'
    BY <1>4 DEF ReaderOK, Reading
  <2>5. ~job.inPlace => Wanted \in want
    BY <1>4 DEF Content, OutputOK, Filling, Copies
  <2>6. ~job.inPlace => \A c \in disk' : OutOK(c, want)
    BY <1>4, <2>1, <2>5 DEF Content, OutputOK, OutOK
  <2>7. OutputOK'
    BY <1>1, <1>2, <1>3, <1>4, <2>5, <2>6 DEF OutputOK, KeepsSource, KeepsCall
  <2> QED
    BY <1>1, <1>4, <2>3, <2>4, <2>7, AlongContent DEF HasSource, Filling, Copies
<1>5. CASE /\ job.pc = "commit" /\ job'.pc = IF job.inPlace THEN "rename" ELSE "finished"
           /\ job.inPlace => other'["tmp"] = Built /\ other'["out"] = other["out"]
           /\ ~job.inPlace => other'["out"] = Built /\ other'["tmp"] = other["tmp"]
           /\ disk' = IF Synced THEN {Built} ELSE disk
  <2>1. Values(Built) = Wanted /\ TxShape(job.dst) /\ Sound(job.dst.entries, damage)
    BY <1>5 DEF Content, TargetOK, Filling
  <2>2. ~job.inPlace => OutOK(Built, want) /\ \A c \in disk : OutOK(c, want)
    BY <1>5, <2>1 DEF Content, OutputOK, OutOK, Filling
  <2>3. CASE job.inPlace
    <3>1. TargetOK'
      BY <1>1, <1>2, <1>5, <2>1, <2>3 DEF TargetOK, Along, KeepsSource, KeepsCall, KeepsCopy,
         Copies, Synced
    <3>2. ReaderOK'
      BY <1>5, <2>3 DEF ReaderOK, Reading
    <3>3. OutputOK'
      BY <1>1, <1>2, <1>3, <1>5, <2>3 DEF OutputOK, KeepsSource, KeepsCall
    <3> QED
      BY <1>1, <1>5, <2>3, <3>1, <3>2, <3>3, AlongContent DEF HasSource, Filling
  <2>4. CASE ~job.inPlace
    <3>1. FileOK' /\ HandleOK'
      BY <1>1, FileKept DEF Content, Along
    <3>2. \A c \in disk' : OutOK(c, want')
      BY <1>1, <1>5, <2>2, <2>4
    <3>3. OutOK(other'["out"], want')
      BY <1>1, <1>5, <2>2, <2>4
    <3> QED
      BY <1>5, <2>4, <3>1, <3>2, <3>3, NothingFilled
  <2> QED
    BY <2>3, <2>4
<1> QED
  BY <1>4, <1>5, CommitFacts

\* What is wanted of a source that holds what was committed was committed, too,
\* once ClearMeta is taken into account.
LEMMA RenameContent ==
    ASSUME Control, Content, Rename
    PROVE  Content'
<1>1. /\ KeepsCall /\ job'.src = file /\ KeepsCopy
      /\ job.pc = "rename" /\ job'.pc = "renamed"
      /\ file' = other["tmp"] /\ other'["out"] = other["out"]
      /\ vals' = IF job.opts.ClearMeta THEN vals \cup {Cleared(v) : v \in vals} ELSE vals
      /\ UNCHANGED <<handle, tx, disk, want, unsafe, crashed, damage>>
  BY RenameFacts
<1>2. job.kind = "pack" /\ job.inPlace /\ handle.state = "closed"
  BY <1>1 DEF Control, JobOK
<1>3. /\ Values(Built) = Wanted /\ TxShape(job.dst) /\ Sound(job.dst.entries, damage)
      /\ other["tmp"] = Built /\ (Synced => disk = {Built})
  BY <1>1 DEF Content, TargetOK, Filling
<1>4. Values(job.src) \in vals
  BY <1>1, <1>2 DEF Content, SourceOK, HasSource, Filling
<1>5. Wanted \in vals'
  BY <1>1, <1>2, <1>4 DEF Wanted
<1>6. FileOK'
  BY <1>1, <1>3, <1>5, BuiltFacts DEF FileOK
<1>7. HandleOK'
  <2>1. tx = NoTx
    BY <1>2 DEF Content, HandleOK
  <2> QED
    BY <1>1, <1>2, <2>1 DEF HandleOK
<1>8. SourceOK'
  <2>1. ContainerShape(file) /\ Sound(file.entries, damage) /\ Values(file) \in vals
    BY DEF Content, FileOK
  <2>2. vals \subseteq vals'
    BY <1>1
  <2>3. "renamed" \notin HasSource
    BY DEF HasSource, Filling, Copies
  <2> QED
    BY <1>1, <2>1, <2>2, <2>3 DEF SourceOK
<1>9. TargetOK'
  <2>1. Built' = Built /\ (Synced' <=> Synced)
    BY <1>1 DEF Built, KeepsCopy, Synced, KeepsCall
  <2> QED
    BY <1>1, <1>3, <2>1 DEF TargetOK, KeepsCopy, Copies
<1>10. ReaderOK'
  BY <1>1 DEF ReaderOK, Reading
<1>11. OutputOK'
  BY <1>1, <1>2 DEF OutputOK, KeepsCall, Content
<1> QED
  BY <1>6, <1>7, <1>8, <1>9, <1>10, <1>11 DEF Content

----------------------------------------------------------------------------
(* The end of a job, and what goes wrong.                                  *)

\* A rename that was not undone, and a return, leave everything as it is.
LEMMA FinishContent ==
    ASSUME Control, Content, Finish
    PROVE  Content'
<1>1. UNCHANGED <<file, handle, tx, vals, damage, other, want>> /\ Over
  BY DEF Finish, UnchangedSource, catalogVars, ghosts, budgets, Over
<1>2. FileOK' /\ HandleOK'
  BY <1>1, FileKept DEF Content
<1>3. OutOK(other'["out"], want')
  BY <1>1 DEF Content, OutputOK
<1> QED
  BY <1>1, <1>2, <1>3, OverContent

\* A kill leaves the target as it was, or with the last write.
LEMMA KillContent ==
    ASSUME Control, Content, Kill
    PROVE  Content'
<1>1. UNCHANGED <<file, handle, tx, vals, damage, want>> /\ Over
  BY DEF Kill, UnchangedSource, catalogVars, Over
<1>2. FileOK' /\ HandleOK'
  BY <1>1, FileKept DEF Content
<1>3. PICK c \in Seen : SetTarget(c)
  BY DEF Kill
<1>4. job.pc # "none"
  BY DEF Kill, Active
<1>5. OutOK(other'["out"], want')
  <2>1. OutOK(other["out"], want)
    BY DEF Content, OutputOK
  <2>2. ~job.inPlace => OutOK(c, want)
    BY <1>4, SeenOK
  <2>3. /\ job.inPlace => other'["out"] = other["out"]
        /\ ~job.inPlace => other'["out"] = c
    BY <1>3, TargetFacts DEF Control
  <2> QED
    BY <1>1, <2>1, <2>2, <2>3
<1> QED
  BY <1>1, <1>2, <1>5, OverContent

\* A power loss: what was synced before the rename is all that it may leave
\* under the container's name.
LEMMA PowerContent ==
    ASSUME Control, Content, Trusted', PowerLoss
    PROVE  Content'
<1>1. UNCHANGED <<handle, tx, vals, damage, want, unsafe>> /\ Over /\ job.pc # "none" /\ crashed'
  BY DEF PowerLoss, UnchangedSource, catalogVars, Over
<1>2. Synced
  <2>1. ~unsafe
    BY <1>1 DEF Trusted
  <2> QED
    BY <1>1, <2>1 DEF Synced, Control, JobOK
<1>3. PICK c \in disk :
        IF At("renamed")
          THEN \/ file' = c /\ UNCHANGED <<other, handle, tx, ops>>
               \/ file' = job.src /\ SetTarget(c) /\ UNCHANGED <<handle, tx, ops>>
          ELSE SetTarget(c) /\ UnchangedSource
  BY DEF PowerLoss
<1>4. CASE job.pc = "renamed"
  <2>1. job.kind = "pack" /\ job.inPlace /\ handle.state = "closed"
    BY <1>4 DEF Control, JobOK
  <2>2. disk = {Built} /\ file = Built
    BY <1>2, <1>4 DEF Content, TargetOK
  <2>3. FileOK'
    <3>1. ContainerShape(file) /\ Sound(file.entries, damage) /\ Values(file) \in vals
      BY DEF Content, FileOK
    <3>2. ContainerShape(job.src) /\ Sound(job.src.entries, damage) /\ Values(job.src) \in vals
      BY <1>4, <2>1 DEF Content, SourceOK
    <3>3. file' = file \/ file' = job.src
      BY <1>3, <1>4, <2>2 DEF At
    <3> QED
      BY <1>1, <3>1, <3>2, <3>3 DEF FileOK
  <2>4. HandleOK'
    <3>1. tx = NoTx
      BY <2>1 DEF Content, HandleOK
    <3> QED
      BY <1>1, <2>1, <3>1 DEF HandleOK
  <2>5. other'["out"] = other["out"]
    <3>1. CASE UNCHANGED other
      BY <3>1
    <3>2. CASE SetTarget(c)
      BY <2>1, <3>2, TargetFacts DEF Control
    <3> QED
      BY <1>3, <1>4, <3>1, <3>2 DEF At
  <2>6. OutOK(other'["out"], want')
    BY <1>1, <2>5 DEF Content, OutputOK
  <2> QED
    BY <1>1, <2>3, <2>4, <2>6, OverContent
<1>5. CASE job.pc # "renamed"
  <2>1. SetTarget(c) /\ UnchangedSource
    BY <1>3, <1>5 DEF At
  <2>2. FileOK' /\ HandleOK'
    BY <1>1, <2>1, FileKept DEF Content, UnchangedSource, catalogVars
  <2>3. /\ job.inPlace => other'["out"] = other["out"]
        /\ ~job.inPlace => other'["out"] = c
    BY <2>1, TargetFacts DEF Control
  <2>4. OutOK(other'["out"], want')
    BY <1>1, <2>3 DEF Content, OutputOK
  <2> QED
    BY <1>1, <2>2, <2>4, OverContent
<1> QED
  BY <1>4, <1>5

\* A chunk that goes bad is neither lost nor garbled for those who verify it.
LEMMA DamageContent ==
    ASSUME Control, Content, NEW p \in Live(file.entries),
           NEW k \in DOMAIN file.entries[p].chunks, NEW d, Damage(p, k, d)
    PROVE  Content'
<1>1. /\ handle.state = "closed" /\ job.pc # "renamed"
      /\ file' = [file EXCEPT !.entries[p].chunks[k] = d]
      /\ damage' = damage + 1
      /\ UNCHANGED <<handle, tx, other, disk, job, vals, want, unsafe, crashed>>
  BY DEF Damage, At, ghosts
<1>2. damage' # 0
  BY <1>1 DEF Control, JobOK
<1>3. ContainerShape(file) /\ Sound(file.entries, damage) /\ Values(file) \in vals
  BY DEF Content, FileOK
<1>4. p \in Paths /\ file.entries[p] # NoEntry /\ EntryOK(file.entries[p], damage)
  BY <1>3 DEF Live, Sound
<1> DEFINE e == file.entries[p]
           f == [e EXCEPT !.chunks = [e.chunks EXCEPT ![k] = d]]
           es == [file.entries EXCEPT ![p] = f]
<1>5. file' = [file EXCEPT !.entries = es]
  BY <1>1, <1>3, <1>4 DEF ContainerShape, EntryOK, EntryShape
<1>6. EntryShape(f) /\ f.val = e.val /\ f.meta = e.meta /\ f.good = e.good
  BY <1>4 DEF EntryOK, EntryShape
<1>7. f # NoEntry
  <2>1. DOMAIN NoEntry = {"val"} /\ DOMAIN f = {"val", "meta", "good", "chunks"}
    BY <1>6 DEF NoEntry, EntryShape
  <2> QED
    BY <2>1
<1>8. EntryOK(f, damage') /\ ValueOf(f) = ValueOf(e)
  <2> HIDE DEF f
  <2>1. EntryOK(f, damage')
    BY <1>2, <1>4, <1>6 DEF EntryOK
  <2>2. ValueOf(f) = ValueOf(e)
    BY <1>4, <1>6, <1>7 DEF ValueOf
  <2> QED
    BY <2>1, <2>2
<1> HIDE DEF f
<1>9. file.entries = [q \in Paths |-> file.entries[q]] /\ \A q \in Paths : EntryOK(file.entries[q], damage')
  BY <1>2, <1>3, SoundKept DEF Sound
<1>10. es[p] = f /\ es = [q \in Paths |-> es[q]] /\ \A q \in Paths \ {p} : es[q] = file.entries[q]
  BY <1>4, <1>9
<1> HIDE DEF es
<1>11. ContainerShape(file') /\ file'.entries = es
  BY <1>3, <1>5 DEF ContainerShape
<1>12. Sound(es, damage')
  BY <1>8, <1>9, <1>10 DEF Sound
<1>13. Values(file') = Values(file)
  BY <1>8, <1>10, <1>11 DEF Values
<1>14. FileOK'
  BY <1>1, <1>3, <1>11, <1>12, <1>13 DEF FileOK
<1>15. HandleOK'
  <2>1. tx = NoTx
    BY <1>1 DEF Content, HandleOK
  <2> QED
    BY <1>1, <2>1 DEF HandleOK
<1>16. \A fs : Sound(fs, damage) => Sound(fs, damage')
  BY <1>2, SoundKept
<1>17. SourceOK'
  BY <1>1, <1>2, <1>16 DEF Content, SourceOK
<1>18. TargetOK'
  <2>1. Wanted' = Wanted /\ Built' = Built /\ (Synced' <=> Synced)
    BY <1>1 DEF Wanted, Built, Synced
  <2>2. \A q : WantedSoFar(q)' = WantedSoFar(q)
    BY <1>1, <2>1 DEF WantedSoFar, Todo, Been, Reading
  <2> QED
    BY <1>1, <1>16, <2>1, <2>2 DEF Content, TargetOK
<1>19. ReaderOK'
  BY <1>1 DEF Content, ReaderOK, Reading, Copying, Original, Todo
<1>20. OutputOK'
  <2>1. Wanted' = Wanted
    BY <1>1 DEF Wanted
  <2> QED
    BY <1>1, <2>1 DEF Content, OutputOK
<1> QED
  BY <1>14, <1>15, <1>17, <1>18, <1>19, <1>20 DEF Content

\* Between the jobs.
LEMMA UseContent ==
    ASSUME Control, Content, UseContainer
    PROVE  Content'
<1>1. /\ job.pc = "none" /\ CatalogNext
      /\ vals' = IF IsContainer(file') /\ tx.open /\ file' # file THEN {Values(file')} ELSE vals
      /\ UNCHANGED <<other, disk, job, want, unsafe, crashed, damage>>
  BY DEF UseContainer, At, budgets
<1>2. FileOK' /\ HandleOK'
  BY <1>1, UsedFacts DEF Content
<1>3. OutOK(other'["out"], want')
  BY <1>1 DEF Content, OutputOK
<1> QED
  BY <1>1, <1>2, <1>3, NothingFilled

----------------------------------------------------------------------------
(* The invariant.                                                          *)

LEMMA ContentStep ==
    ASSUME Control, Content, Trusted, Trusted', [Next]_vars
    PROVE  Content'
<1>1. CASE UNCHANGED vars
  <2>1. UNCHANGED <<file, handle, tx, other, disk, job, vals, want, damage>>
    BY <1>1 DEF vars, rebuildVars, catalogVars, ghosts, budgets
  <2>2. FileOK' /\ HandleOK'
    BY <2>1, FileKept DEF Content
  <2>3. SourceOK'
    BY <2>1 DEF Content, SourceOK
  <2>4. Wanted' = Wanted /\ Built' = Built /\ (Synced' <=> Synced)
    BY <2>1 DEF Wanted, Built, Synced
  <2>5. \A q : WantedSoFar(q)' = WantedSoFar(q)
    BY <2>1, <2>4 DEF WantedSoFar, Todo, Been, Reading
  <2>6. TargetOK'
    BY <2>1, <2>4, <2>5 DEF Content, TargetOK
  <2>7. ReaderOK' /\ OutputOK'
    BY <2>1, <2>4 DEF Content, ReaderOK, Reading, Copying, Original, Todo, OutputOK
  <2> QED
    BY <2>2, <2>3, <2>6, <2>7 DEF Content
<1>2. CASE JobStep
  <2>1. CASE OpenSource \/ ListSource
    BY <2>1, StartContent
  <2>2. CASE Create \/ CreateEnds
    BY <2>2, CreateContent, CreateEndsContent
  <2>3. CASE \E j \in Rest : OpenEntry(j) \/ OpenMember(j)
    BY <2>3, OpenEntryContent, OpenMemberContent
  <2>4. CASE (\E n \in 1 .. BufSize : ReadStarts(n) \/ ReadCopies(n)) \/ ReadReturns \/ PeekEnds
    BY <2>4, ReadContent
  <2>5. CASE ReadEnds \/ CommitStarts \/ CommitEnds \/ Rename \/ Finish
    BY <2>5, ReadEndsContent, CommitContent, RenameContent, FinishContent
  <2> QED
    BY <1>2, <2>1, <2>2, <2>3, <2>4, <2>5 DEF JobStep
<1>3. CASE CallFails
  <2>1. job.pc # "none" /\ JobFails /\ UNCHANGED <<ghosts, damage>>
    BY <1>3 DEF CallFails, Active
  <2> QED
    BY <2>1, FailedFacts, FailedContent
<1>4. CASE \E p \in Live(file.entries), d \in Damages :
              \E k \in DOMAIN file.entries[p].chunks : Damage(p, k, d)
  BY <1>4, DamageContent
<1>5. CASE UseContainer \/ Kill \/ PowerLoss
  BY <1>5, UseContent, KillContent, PowerContent
<1>6. CASE (\E o \in PackOpts : StartPack(o)) \/ \E z \in Archives, b \in BOOLEAN : StartZip(z, b)
  BY <1>6, StartContent
<1> QED
  BY <1>1, <1>2, <1>3, <1>4, <1>5, <1>6, Zenon DEF Next

LEMMA ContentInit ==
    ASSUME Init
    PROVE  Content
<1>1. /\ file = EmptyContainer /\ handle = [state |-> "loaded", dir |-> EmptyContainer] /\ tx = NoTx
      /\ vals = {Nothing} /\ want = {Values(OldOutput)}
      /\ job.pc = "none" /\ job.kind = "none" /\ job.i = 0
  BY DEF Init, CatalogInit, NoJob
<1>2. FileOK
  BY <1>1, EmptyFacts DEF FileOK
<1>3. HandleOK
  BY <1>1 DEF HandleOK
<1>4. OutOK(other["out"], want)
  <2>1. other["out"] = NoFile \/ other["out"] = OldOutput
    BY DEF Init
  <2> QED
    BY <1>1, <2>1, ContainerFacts DEF OutOK
<1> QED
  BY <1>1, <1>2, <1>3, <1>4 DEF Content, SourceOK, TargetOK, ReaderOK, Reading, OutputOK,
     HasSource, Filling, Copies

\* The invariant holds, whatever the payloads and how they are cut, the options
\* and the archives are, and however often a call fails, the process is killed,
\* the power lost or a chunk damaged.
THEOREM Invariance == Spec => []Inv
<1>1. Init => Inv
  BY ControlInit, ContentInit DEF Inv
<1>2. Inv /\ [Next]_vars => Inv'
  BY ControlStep, TrustedKept, ContentStep DEF Inv
<1> QED
  BY <1>1, <1>2, PTL DEF Spec

\* The name of a container that is packed stands at every moment for a container
\* with what was committed: Pack writes elsewhere until it has synced.
THEOREM InputSurvivesHolds == Spec => []InputSurvives
<1>1. Inv => InputSurvives
  BY ContainerFacts DEF Inv, Content, FileOK, InputSurvives
<1> QED
  BY <1>1, Invariance, PTL

\* What is left under the output's name has all entries of a source, or none:
\* entries are written before the commit, and a read error of a container is no
\* end of an entry.  (Of an archive io.ErrUnexpectedEOF is one, and what was read by
\* then is what is stored.)
THEOREM OutputWholeHolds == Spec => []OutputWhole
<1>1. Inv => OutputWhole
  BY DEF Inv, Content, OutputOK, OutOK, OutputWhole
<1> QED
  BY <1>1, Invariance, PTL
=============================================================================
