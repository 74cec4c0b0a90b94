----------------------------- MODULE FbxFormat -----------------------------
(***************************************************************************)
(* The on-disk vocabulary of an FBX container and the pure part of Open:   *)
(* which header is believed, in which order the recovery sources are      *)
(* tried, and which of several candidates wins.                            *)
(*                                                                         *)
(* A file is two fixed header slots (primary at offset 0, backup at offset *)
(* 128) and a log of appended blobs: chunk records, directories (DIR1),    *)
(* directory indexes (IDX1) and header records (JNL1, BKP1).  A blob's     *)
(* offset is its position in the log.  A checksum is modelled by the blob  *)
(* it covers, so two blobs have the same checksum iff they are the same    *)
(* blob (no CRC32 collisions).                                             *)
(***************************************************************************)
EXTENDS Integers, Sequences, FiniteSets

CONSTANTS
    Paths,          \* normalized entry paths
    Vals,           \* payloads: what a chunk holds, and its checksum
    Metas,          \* metadata payloads
    Times,          \* what time.Now().Unix() may return, in any order
    Window,         \* how many trailing blobs the tail scan sees (8 MiB)
    MaxDirEntries,  \* directories with more entries exceed the read cap
    MaxGen          \* the largest generation, a uint64

ASSUME FormatAssumption ==
    /\ Times \subseteq Nat
    /\ Window \in Nat
    /\ MaxDirEntries \in Nat
    /\ MaxGen \in Nat \ {0}

NoEntry == [kind |-> "none"]

\* A live entry: where its chunk is, the checksum of the payload, metadata.
Entry == [kind : {"entry"}, chunk : Nat, crc : Vals, meta : Metas]

\* What a directory maps paths to.
Snapshots == [Paths -> Entry \cup {NoEntry}]

Empty == [p \in Paths |-> NoEntry]

Live(es) == {p \in Paths : es[p] # NoEntry}

----------------------------------------------------------------------------
(* Blobs.  Bad stands for whatever is not a well-formed blob: a hole left   *)
(* by a lost write, a partial write, a damaged region.                     *)

Bad == [kind |-> "bad"]

Chunk(v) == [kind |-> "chunk", val |-> v]
Dir(es, t) == [kind |-> "dir", entries |-> es, build |-> t]
Idx(o, d, g) == [kind |-> "idx", dirOff |-> o, dirCrc |-> d, gen |-> g]
HeaderRecord(k, t, h) == [kind |-> k, ts |-> t, hdr |-> h]

ChunkRec == [kind : {"chunk"}, val : Vals]
DirRec == [kind : {"dir"}, entries : Snapshots, build : Times]
IdxRec == [kind : {"idx"}, dirOff : Nat, dirCrc : DirRec, gen : 0 .. MaxGen]

\* The header fields Open or Commit ever look at.  The kind is the magic and
\* the word of required features, which no checksum covers: in a header that is
\* refused the word has a bit the code does not know.
HeaderOf(kinds) == [kind : kinds, dirOff : Nat, dirCrc : DirRec,
                    idxOff : Nat, idxCrc : IdxRec, gen : 0 .. MaxGen]

Header == HeaderOf({"hdr"})
HdrRefused == HeaderOf({"refused"})
HdrRec == [kind : {"jnl", "bkp"}, ts : Times, hdr : Header]

Blob == ChunkRec \cup DirRec \cup IdxRec \cup HdrRec \cup {Bad}

----------------------------------------------------------------------------
(* Validation.                                                             *)

TooLarge(d) == Cardinality(Live(d.entries)) > MaxDirEntries

DirOK(l, h) ==
    /\ h.dirOff \in DOMAIN l
    /\ ~TooLarge(h.dirCrc)
    /\ l[h.dirOff] = h.dirCrc

\* The index blob must be the one the header points at, and must describe
\* the header's directory and generation.
IdxOK(l, h) ==
    /\ h.idxOff \in DOMAIN l
    /\ l[h.idxOff] = h.idxCrc
    /\ h.idxCrc.dirOff = h.dirOff
    /\ h.idxCrc.dirCrc = h.dirCrc
    /\ h.gen = 0 \/ h.idxCrc.gen = h.gen

Loadable(l, h) == h.kind = "hdr" /\ DirOK(l, h) /\ IdxOK(l, h)

\* Two errors stop Open, whatever the other sources hold: ErrLimitExceeded of a
\* directory above the read cap, and ErrUnsupportedFeature.  The layout of the
\* primary is checked first; of the backup the directory is, and if that
\* is above the cap the next source is tried.
FatalPrimary(l, h) ==
    \/ h.kind = "refused"
    \/ h.kind = "hdr" /\ h.dirOff \in DOMAIN l /\ TooLarge(h.dirCrc)

FatalBackup(l, h) == h.kind = "refused" /\ DirOK(l, h)

ChunkInFile(l, e) == e # NoEntry => e.chunk \in DOMAIN l

Readable(l, e) ==
    e # NoEntry => e.chunk \in DOMAIN l /\ l[e.chunk] = Chunk(e.crc)

----------------------------------------------------------------------------
(* Tail records.                                                           *)

\* The last element of a set of log positions; {} if there is none.
Last(S) == {i \in S : \A j \in S : j <= i}

TailPositions(l, k) ==
    {i \in DOMAIN l : /\ i > Len(l) - Window
                      /\ l[i].kind = k
                      /\ DirOK(l, l[i].hdr)}

\* Mutant: the window is searched forwards.
recoverHeaderByMagic_Forwards(l, k) ==
    LET S == TailPositions(l, k)
    IN  {l[i] : i \in {x \in S : \A y \in S : x <= y}}

recoverHeaderByMagic(l, k) == {l[i] : i \in Last(TailPositions(l, k))}

\* The set of the one header recoverBestHeader returns, {} if it fails.
recoverBestHeader(l) ==
    LET js == recoverHeaderByMagic(l, "jnl")
        bs == recoverHeaderByMagic(l, "bkp")
    IN  {b.hdr : b \in {x \in bs : \A j \in js : x.ts >= j.ts}}
          \cup {j.hdr : j \in {x \in js : \A b \in bs : b.ts < x.ts}}

----------------------------------------------------------------------------
(* Directory scan.                                                         *)

assessReadableEntriesAt(l, i) ==
    Cardinality({p \in Live(l[i].entries) : Readable(l, l[i].entries[p])})

Unreadable(l, i) ==
    Cardinality(Live(l[i].entries)) - assessReadableEntriesAt(l, i)

betterRecoveryDirectoryScore(l, i, j) ==
    LET ri == assessReadableEntriesAt(l, i)
        rj == assessReadableEntriesAt(l, j)
        ui == Unreadable(l, i)
        uj == Unreadable(l, j)
    IN  \/ ri > rj
        \/ ri = rj /\ ui < uj
        \/ ri = rj /\ ui = uj /\ l[i].build > l[j].build
        \/ ri = rj /\ ui = uj /\ l[i].build = l[j].build /\ i > j

ScanCandidates(l) ==
    {i \in DOMAIN l : /\ l[i].kind = "dir"
                      /\ ~TooLarge(l[i])
                      /\ \A p \in Paths : ChunkInFile(l, l[i].entries[p])}

\* The position of the directory the scan picks; {} if there is none.
recoverHeaderFromDirectoryScan(l) ==
    {i \in ScanCandidates(l) :
        \A j \in ScanCandidates(l) \ {i} : betterRecoveryDirectoryScore(l, i, j)}

\* The header synthesized for it: no index and no generation.
ScanHeader(l, i) ==
    [kind |-> "hdr", dirOff |-> i, dirCrc |-> l[i], idxOff |-> 0,
     idxCrc |-> Idx(0, l[i], 0), gen |-> 0]

----------------------------------------------------------------------------
(* Open: the first source that works, in the order the code tries them.    *)

Slots == {"primary", "backup"}

\* Open gives up with one of the two errors.  (A read that fails with an error
\* of its own ends the call, or loses it a source, and leaves nothing behind.)
Fatal(l, hs) ==
    /\ ~Loadable(l, hs["primary"])
    /\ FatalPrimary(l, hs["primary"]) \/ FatalBackup(l, hs["backup"])

\* Mutant: the directory scan is not tried.
OpenFrom_NoScan(l, hs) ==
    IF Loadable(l, hs["primary"])
      THEN {[src |-> "primary", header |-> hs["primary"]]}
    ELSE IF Loadable(l, hs["backup"])
      THEN {[src |-> "backup", header |-> hs["backup"]]}
    ELSE {[src |-> "tail", header |-> h] :
              h \in {x \in recoverBestHeader(l) : Loadable(l, x)}}

\* The source and header Open settles on, as a set; {} if Open fails.
OpenFrom(l, hs) ==
    LET tails == {h \in recoverBestHeader(l) : Loadable(l, h)}
    IN  IF Loadable(l, hs["primary"])
          THEN {[src |-> "primary", header |-> hs["primary"]]}
        ELSE IF Fatal(l, hs)
          THEN {}
        ELSE IF Loadable(l, hs["backup"])
          THEN {[src |-> "backup", header |-> hs["backup"]]}
        ELSE IF tails # {}
          THEN {[src |-> "tail", header |-> h] : h \in tails}
        ELSE {[src |-> "scan", header |-> ScanHeader(l, i)] :
                  i \in recoverHeaderFromDirectoryScan(l)}
============================================================================
