---------------------------- MODULE Rebuild_inv ----------------------------
(***************************************************************************)
(* The inductive invariant behind the safety properties of Rebuild.  Its   *)
(* heart is that the target's transaction holds, of what is wanted, exactly*)
(* what the job has been through, and that a reader has passed on exactly  *)
(* the part of the payload that lies before its position.                  *)
(***************************************************************************)
EXTENDS Rebuild

----------------------------------------------------------------------------
(* The shape of the variables, and where the job is.                       *)

Copies == {"next", "peek", "read"}
Filling == Copies \cup {"commit", "rename"}
HasSource == {"create", "created"} \cup Filling
PCs == {"none", "open", "list", "finished", "renamed"} \cup HasSource

JobShape ==
    job = [pc |-> job.pc, kind |-> job.kind, opts |-> job.opts, inPlace |-> job.inPlace,
           src |-> job.src, i |-> job.i, dst |-> job.dst, r |-> job.r, got |-> job.got,
           room |-> job.room, some |-> job.some]

JobOK ==
    /\ job.pc \in PCs
    /\ job.pc # "none" => job.kind \in {"pack", "zip"} /\ handle.state = "closed"
    /\ job.kind = "zip" => ~job.inPlace /\ job.src \in Archives
                           /\ job.pc \notin {"open", "list", "rename", "renamed"}
    /\ job.kind = "pack" /\ job.pc # "none" =>
        job.opts \in PackOpts /\ (job.opts.FastUnsafe => unsafe)
    /\ job.pc \in {"rename", "renamed"} => job.inPlace
    /\ job.i \in Nat /\ damage \in Nat

NamesShape ==
    /\ other = [tmp |-> other["tmp"], out |-> other["out"], left |-> other["left"]]
    /\ other["left"] \in BOOLEAN

\* The temporary file is there while an in-place Pack fills it.
TempOK ==
    crashed \/ other["left"] \/ other["tmp"] = NoFile \/ (job.inPlace /\ job.pc \in {"created"} \cup Filling)

Control == JobShape /\ JobOK /\ NamesShape /\ TempOK

----------------------------------------------------------------------------
(* Entries of which nothing is lost or garbled; d chunks have gone bad.    *)

EntryShape(e) == e = [val |-> e.val, meta |-> e.meta, good |-> e.good, chunks |-> e.chunks]

ChunksOK(e) == \A k \in DOMAIN ChunkEnds[e.val] : e.chunks[k] = "ok"

EntryOK(e, d) ==
    e # NoEntry => /\ EntryShape(e)
                   /\ e.val \in Vals
                   /\ e.good
                   /\ d = 0 => ChunksOK(e)

Sound(es, d) == es = [p \in Paths |-> es[p]] /\ \A p \in Paths : EntryOK(es[p], d)

ContainerShape(c) ==
    c = [entries |-> c.entries, dead |-> c.dead, written |-> c.written, lost |-> c.lost,
         over |-> c.over]

TxShape(t) ==
    /\ t = [open |-> t.open, entries |-> t.entries, dead |-> t.dead, wrote |-> t.wrote, lost |-> t.lost,
            over |-> t.over]
    /\ t.open

\* The container's name stands for what was committed to it.
FileOK ==
    /\ ContainerShape(file) /\ Sound(file.entries, damage)
    /\ Values(file) \in vals

HandleOK ==
    /\ handle.state # "closed" => handle = [state |-> handle.state, dir |-> file]
    /\ tx = NoTx \/ (TxShape(tx) /\ Sound(tx.entries, damage) /\ handle.state # "closed")

----------------------------------------------------------------------------
(* The job.                                                                *)

\* What Pack lists stays what the container holds; until a chunk goes bad,
\* they are the same.
SourceOK ==
    job.kind = "pack" =>
        /\ job.pc \in HasSource \cup {"renamed"} =>
            ContainerShape(job.src) /\ Sound(job.src.entries, damage) /\ Values(job.src) \in vals
        /\ job.pc \in HasSource /\ damage = 0 => job.src = file

\* How far the job has been.
Been(j) == j < job.i \/ (j = job.i /\ ~Reading)

\* What the target is to hold under path p by then.
WantedSoFar(p) ==
    IF job.kind = "pack"
      THEN IF \E j \in Todo : Been(j) /\ PathOrder[j] = p THEN Wanted[p] ELSE NoEntry
      ELSE AfterFiles(job.src, IF Reading THEN job.i - 1 ELSE job.i, p)

TargetOK ==
    /\ job.pc \in {"open", "list", "create", "created"} => job.i = 0
    /\ job.pc \in Filling \cup {"renamed"} => TxShape(job.dst) /\ Sound(job.dst.entries, damage)
    /\ job.pc \in Copies => \A p \in Paths : ValueOf(job.dst.entries[p]) = WantedSoFar(p)
    /\ job.pc \in {"commit", "rename"} => Values(Built) = Wanted
    /\ job.pc = "rename" => other["tmp"] = Built
    /\ job.pc = "renamed" => file = Built
    /\ job.pc \in {"rename", "renamed"} /\ Synced => disk = {Built}

\* A reader of a payload cut in this way; it has passed on nothing that was
\* changed.
ReaderShape(r, ends) ==
    /\ r = [ends |-> ends, opts |-> r.opts, idx |-> r.idx, at |-> r.at,
            upto |-> RawOffset(ends, r.idx), flipped |-> r.flipped, readTotal |-> r.readTotal]
    /\ ~r.flipped
    /\ r.idx \in 1 .. Len(ends) + 1
    /\ r.at \in 0 .. r.upto

\* The reader has passed on what lies before its position.
ReaderOK ==
    Reading =>
        /\ job.i \in Todo /\ Copying \in Paths
        /\ ReaderShape(job.r, ChunkEnds[Original.val])
        /\ job.got = [len |-> job.r.at, same |-> TRUE]
        /\ job.kind = "pack" => job.opts.FastUnsafe \/ job.r.opts.verifyCRC
        /\ job.kind = "zip" => job.r.opts.maxEntry = 0 /\ job.r.opts.maxChunk = 0
        /\ job.room \in Nat

----------------------------------------------------------------------------
(* The output.                                                             *)

OutOK(c, ws) == IsContainer(c) => Values(c) \in {Nothing} \cup ws

OutputOK ==
    /\ OutOK(other["out"], want)
    /\ job.pc # "none" /\ ~job.inPlace => \A c \in disk : OutOK(c, want)
    /\ job.pc \in {"created"} \cup Filling /\ ~job.inPlace => Wanted \in want

Content == FileOK /\ HandleOK /\ SourceOK /\ TargetOK /\ ReaderOK /\ OutputOK

\* The inductive invariant.
Inv == Control /\ (Trusted => Content)

----------------------------------------------------------------------------
(* The counts of dead bytes.                                               *)

Sizes(es) == \A p \in Paths : entryStoredBytes(es[p]) \in Nat

\* Of a container: what its entries refer to has been written.
Counted(c) ==
    /\ Sizes(c.entries)
    /\ c.dead \in Nat /\ c.written \in Nat /\ c.lost \in Nat /\ c.over \in Nat
    /\ TotalStored(c.entries, Paths) + c.lost <= c.written
    /\ Accounted(c)

\* Of a transaction that began with the entries es: what it has taken out of
\* use is what there was and what it wrote, less what there is.
CountedTx(t, es) ==
    LET gone == TotalStored(es, Paths) + t.wrote - t.lost - TotalStored(t.entries, Paths)
    IN  /\ Sizes(t.entries)
        /\ t.dead \in Nat /\ t.wrote \in Nat /\ t.lost \in Nat /\ t.over \in Nat
        /\ gone >= 0
        /\ t.dead = saturatingAddUint64(0, gone + t.over)

CountedIfAny(c) == IsContainer(c) => Counted(c)

\* Whatever may come under the container's name or the output's is counted.
Books ==
    /\ Counted(file)
    /\ tx # NoTx => CountedTx(tx, file.entries)
    /\ CountedIfAny(other["tmp"]) /\ CountedIfAny(other["out"])
    /\ \A c \in disk : CountedIfAny(c)
    /\ job.pc \in Filling => CountedTx(job.dst, EmptyContainer.entries)
    /\ job.pc = "renamed" => Counted(job.src)

BooksInv == Trusted => Books
=============================================================================
