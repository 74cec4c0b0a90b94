----------------------- MODULE ContainerCommit_proofs ----------------------
(***************************************************************************)
(* Proofs about ContainerCommit: the invariant IInv is inductive, and from *)
(* it follow type correctness, crash safety, the stability of what an open *)
(* handle reads, and the refinement of AtomicSnapshots.                    *)
(***************************************************************************)
EXTENDS ContainerCommit_inv, FiniteSetTheorems, SequenceTheorems,
        WellFoundedInduction, TLAPS

----------------------------------------------------------------------------
(* Facts about the vocabulary.                                             *)

\* The magic of a blob tells its kind; NoEntry is no entry.
LEMMA KindFacts ==
    /\ \A b \in ChunkRec : b.kind = "chunk"
    /\ \A b \in DirRec : b.kind = "dir"
    /\ \A b \in IdxRec : b.kind = "idx"
    /\ \A b \in HdrRec : b.kind \in {"jnl", "bkp"}
    /\ \A h \in Header : h.kind = "hdr" /\ h # Bad
    /\ \A h \in HdrRefused : h.kind = "refused" /\ h # Bad
    /\ Bad.kind = "bad"
    /\ \A e \in Entry : e # NoEntry
BY DEF ChunkRec, DirRec, IdxRec, HdrRec, Header, HeaderOf, HdrRefused, Bad, Entry, NoEntry

\* What Commit and the transaction's operations write are blobs.
LEMMA BlobTypes ==
    /\ \A v \in Vals : Chunk(v) \in Blob
    /\ \A es \in Snapshots, t \in Times : Dir(es, t) \in DirRec
    /\ \A o \in Nat, d \in DirRec, g \in 0 .. MaxGen : Idx(o, d, g) \in IdxRec
    /\ \A k \in {"jnl", "bkp"}, t \in Times, h \in Header :
            HeaderRecord(k, t, h) \in HdrRec
    /\ DirRec \subseteq Blob /\ IdxRec \subseteq Blob /\ HdrRec \subseteq Blob
    /\ Bad \in Blob
    /\ Empty \in Snapshots
BY DEF Chunk, Dir, Idx, HeaderRecord, ChunkRec, DirRec, IdxRec, HdrRec, Blob,
       Empty, Snapshots

\* A torn header is garbage or takes each field from one of the two headers.
LEMMA TearsFacts ==
    ASSUME NEW a \in SlotValue, NEW b \in SlotValue, NEW w \in Tears(a, b)
    PROVE  /\ w \in SlotValue
           /\ w # Bad =>
                /\ \E x \in {a, b} : x # Bad /\ w.kind = x.kind
                /\ \E x \in {a, b} : x # Bad /\ w.dirOff = x.dirOff
                /\ \E x \in {a, b} : x # Bad /\ w.idxOff = x.idxOff
                                             /\ w.idxCrc = x.idxCrc
<1> DEFINE Fields == HeaderOf({"hdr", "refused"})
<1>1. SlotValue = Fields \cup {Bad}
  BY DEF SlotValue, HeaderOrBad, Header, HeaderOf, HdrRefused
<1>2. \A x \in Fields : x # Bad
  BY DEF HeaderOf, Bad
<1>3. CASE a = b \/ Bad \in {a, b}
  BY <1>3 DEF Tears
<1>4. CASE a # b /\ Bad \notin {a, b}
  <2>1. a \in Fields /\ b \in Fields
    BY <1>1, <1>4
  <2>2. CASE w = Bad
    BY <1>1, <2>2
  <2>3. CASE w \in Mix(a, b)
    <3>1. PICK k \in {a, b}, x \in {a, b}, y \in {a, b}, z \in {a, b} :
            w = [kind |-> k.kind, dirOff |-> x.dirOff, dirCrc |-> x.dirCrc,
                 idxOff |-> y.idxOff, idxCrc |-> y.idxCrc, gen |-> z.gen]
      BY <2>3 DEF Mix
    <3>2. w \in Fields
      BY <2>1, <3>1 DEF HeaderOf
    <3> QED
      BY <1>1, <1>2, <2>1, <3>1, <3>2
  <2> QED
    BY <1>4, <2>2, <2>3 DEF Tears
<1> QED
  BY <1>3, <1>4

\* With the read cap above the number of paths, no directory is too large.
LEMMA NeverTooLarge ==
    ASSUME Assumed, NEW d
    PROVE  ~TooLarge(d)
<1>1. Live(d.entries) \in SUBSET Paths
  BY DEF Live
<1>2. Cardinality(Live(d.entries)) <= Cardinality(Paths)
  BY <1>1, FS_Subset DEF Assumed
<1>3. Cardinality(Paths) \in Nat /\ Cardinality(Live(d.entries)) \in Nat
  BY <1>1, FS_Subset, FS_CardinalityType DEF Assumed
<1> QED
  BY <1>2, <1>3, FormatAssumption DEF TooLarge, Assumed

\* A nonempty set of log positions has a last element.
LEMMA LastExists ==
    ASSUME NEW n \in Nat, NEW S, S \subseteq 1 .. n, S # {}
    PROVE  Last(S) # {}
<1> DEFINE T == {n - i : i \in S}
<1>1. T \subseteq Nat /\ T # {}
  <2>1. \A i \in S : n - i \in Nat
    OBVIOUS
  <2>2. PICK k \in S : TRUE
    OBVIOUS
  <2>3. n - k \in T
    BY <2>2
  <2> QED
    BY <2>1, <2>3
<1>2. PICK x \in T : \A y \in T : ~(<<y, x>> \in OpToRel(<, Nat))
  BY <1>1, WFMin, NatLessThanWellFounded
<1>3. \A y \in T : ~(y < x)
  BY <1>1, <1>2 DEF OpToRel
<1>4. PICK i \in S : x = n - i
  OBVIOUS
<1>5. \A j \in S : j <= i
  BY <1>3, <1>4
<1> QED
  BY <1>4, <1>5 DEF Last

----------------------------------------------------------------------------
(* Open in a state that satisfies the invariant.                           *)

\* A header that is good on the durable positions can be loaded.
LEMMA GoodLoadable ==
    ASSUME TypeOK, Assumed, NEW h, Good(h)
    PROVE  Loadable(log, h)
<1>1. dur \subseteq DOMAIN log
  BY DEF TypeOK
<1> QED
  BY <1>1, NeverTooLarge DEF Good, GoodIn, Loadable, DirOK, IdxOK

\* A slot that can be loaded is good, and if it is safe it is allowed.
LEMMA LoadableSlot ==
    ASSUME TypeOK, SlotsGenuine, NEW s \in Slots, Loadable(log, hdr[s])
    PROVE  /\ Good(hdr[s])
           /\ hdr[s] \in Header
           /\ SafeSlot(s) => hdr[s].dirCrc.entries \in Allowed
<1>1. hdr[s] \in SlotValues(s)
  BY DEF SlotValues
<1>2. hdr[s] # Bad /\ hdr[s] \in Header
  BY KindFacts DEF Loadable, TypeOK, SlotValue, HeaderOrBad
<1>3. hdr[s].dirOff \in dur /\ hdr[s].idxOff \in dur
  BY <1>1, <1>2 DEF SlotsGenuine
<1>4. Good(hdr[s])
  BY <1>2, <1>3 DEF Good, GoodIn, Loadable, DirOK, IdxOK
<1>5. hdr[s].idxCrc.dirCrc = hdr[s].dirCrc
  BY <1>4 DEF Good, GoodIn
<1> QED
  BY <1>1, <1>2, <1>4, <1>5 DEF SafeSlot

\* The tail scan finds an allowed header if the tail is good.
LEMMA TailRecovers ==
    ASSUME TypeOK, Assumed, RecordsGood, TailGood
    PROVE  /\ recoverBestHeader(log) # {}
           /\ \A h \in recoverBestHeader(log) :
                h \in Header /\ Good(h) /\ h.dirCrc.entries \in Allowed
<1> DEFINE n == Len(log)
           J == TailPositions(log, "jnl")
           B == TailPositions(log, "bkp")
<1>1. PICK j \in dur :
        /\ j + 1 \in dur
        /\ log[j].kind = "jnl" /\ log[j + 1].kind = "bkp"
        /\ j > Len(log) - Window
        /\ \A i \in DOMAIN log :
            i >= j /\ IsRec(i) => log[i].hdr.dirCrc.entries \in Allowed
  BY DEF TailGood
<1>2. n \in Nat /\ DOMAIN log = 1 .. n /\ j \in 1 .. n /\ j + 1 \in 1 .. n
  BY <1>1 DEF TypeOK
<1>3. \A i \in 1 .. n : IsRec(i) => log[i] \in HdrRec
  BY <1>2, KindFacts DEF IsRec, TypeOK, Blob
<1>4. \A i \in 1 .. n : IsRec(i) => DirOK(log, log[i].hdr)
  BY <1>2, GoodLoadable DEF RecordsGood, Loadable
<1>5. j \in J /\ j + 1 \in B
  BY <1>1, <1>2, <1>4, FormatAssumption DEF TailPositions, IsRec
<1>6. J \subseteq 1 .. n /\ B \subseteq 1 .. n
  BY <1>2 DEF TailPositions
<1>7. Last(J) # {} /\ Last(B) # {}
  BY <1>2, <1>5, <1>6, LastExists
<1>8. \A i \in Last(J) \cup Last(B) :
        /\ i \in 1 .. n /\ log[i] \in HdrRec
        /\ Good(log[i].hdr) /\ log[i].hdr.dirCrc.entries \in Allowed
  <2> SUFFICES ASSUME NEW i \in Last(J) \cup Last(B)
               PROVE  /\ i \in 1 .. n /\ log[i] \in HdrRec
                      /\ Good(log[i].hdr) /\ log[i].hdr.dirCrc.entries \in Allowed
    OBVIOUS
  <2>1. i \in 1 .. n /\ i >= j
    BY <1>2, <1>5, <1>6 DEF Last
  <2>2. IsRec(i)
    BY DEF Last, TailPositions, IsRec
  <2> QED
    BY <1>1, <1>2, <1>3, <2>1, <2>2 DEF RecordsGood
<1> DEFINE js == recoverHeaderByMagic(log, "jnl")
           bs == recoverHeaderByMagic(log, "bkp")
<1>9. js = {log[i] : i \in Last(J)} /\ bs = {log[i] : i \in Last(B)}
  BY DEF recoverHeaderByMagic
<1>10. \A r \in js \cup bs : /\ r \in HdrRec /\ Good(r.hdr)
                            /\ r.hdr.dirCrc.entries \in Allowed
  BY <1>8, <1>9
<1>11. js # {} /\ bs # {}
  BY <1>7, <1>9
<1>12. \A r, q \in js : r = q
  BY <1>6, <1>9 DEF Last
<1>13. \A r, q \in bs : r = q
  BY <1>6, <1>9 DEF Last
<1>14. recoverBestHeader(log) =
         {b.hdr : b \in {x \in bs : \A q \in js : x.ts >= q.ts}}
           \cup {r.hdr : r \in {x \in js : \A b \in bs : b.ts < x.ts}}
  BY DEF recoverBestHeader
<1>15. \A h \in recoverBestHeader(log) : \E r \in js \cup bs : h = r.hdr
  BY <1>14
<1>16. recoverBestHeader(log) # {}
  <2>1. PICK r \in js, b \in bs : TRUE
    BY <1>11
  <2>2. r.ts \in Nat /\ b.ts \in Nat
    <3>1. r \in HdrRec /\ b \in HdrRec
      BY <1>10, <2>1
    <3> QED
      BY <3>1, FormatAssumption DEF HdrRec
  <2>3. CASE b.ts >= r.ts
    <3>1. b \in {x \in bs : \A q \in js : x.ts >= q.ts}
      BY <1>12, <2>3
    <3> QED
      BY <1>14, <3>1
  <2>4. CASE b.ts < r.ts
    <3>1. r \in {x \in js : \A c \in bs : c.ts < x.ts}
      BY <1>13, <2>4
    <3> QED
      BY <1>14, <3>1
  <2> QED
    BY <2>2, <2>3, <2>4
<1> QED
  BY <1>10, <1>15, <1>16 DEF HdrRec

\* Whatever the slots and the tail look like, Open finds an allowed snapshot,
\* and never has to scan for directories.
LEMMA OpenFinds ==
    ASSUME TypeOK, Assumed, RecordsGood, SlotsGenuine, Recoverable
    PROVE  /\ OpenFrom(log, hdr) # {}
           /\ \A o \in OpenFrom(log, hdr) :
                /\ o.header \in Header
                /\ Good(o.header)
                /\ o.header.dirCrc.entries \in Allowed
                /\ o.src \in {"primary", "backup", "tail"}
                /\ o.src = "primary" => o.header = hdr["primary"]
                /\ o.src # "primary" => Fallback
<1>1. CASE Loadable(log, hdr["primary"])
  <2>1. OpenFrom(log, hdr) = {[src |-> "primary", header |-> hdr["primary"]]}
    BY <1>1 DEF OpenFrom
  <2>2. /\ Good(hdr["primary"]) /\ hdr["primary"] \in Header
        /\ SafeSlot("primary") => hdr["primary"].dirCrc.entries \in Allowed
    BY <1>1, LoadableSlot DEF Slots
  <2>3. hdr["primary"].dirCrc.entries \in Allowed
    BY <2>2 DEF Recoverable, Calm, Covered, Fallback, PrimaryGood
  <2> QED
    BY <2>1, <2>2, <2>3
<1>2. CASE ~Loadable(log, hdr["primary"])
  <2>1. ~Fatal(log, hdr)
    <3>1. \A s \in Slots : hdr[s].kind # "refused"
      BY KindFacts DEF SlotsGenuine, SlotValues
    <3> QED
      BY <3>1, NeverTooLarge DEF Fatal, FatalPrimary, FatalBackup, Slots
  <2>2. Fallback
    BY <1>2, GoodLoadable DEF Recoverable, Calm, Covered, PrimaryGood
  <2>3. CASE Loadable(log, hdr["backup"])
    <3>1. OpenFrom(log, hdr) = {[src |-> "backup", header |-> hdr["backup"]]}
      BY <1>2, <2>1, <2>3 DEF OpenFrom
    <3>2. /\ Good(hdr["backup"]) /\ hdr["backup"] \in Header
          /\ hdr["backup"].dirCrc.entries \in Allowed
      BY <2>2, <2>3, LoadableSlot DEF Slots, Fallback
    <3> QED
      BY <2>2, <3>1, <3>2
  <2>4. CASE ~Loadable(log, hdr["backup"])
    <3> DEFINE tails == {h \in recoverBestHeader(log) : Loadable(log, h)}
    <3>1. /\ recoverBestHeader(log) # {}
          /\ \A h \in recoverBestHeader(log) :
               h \in Header /\ Good(h) /\ h.dirCrc.entries \in Allowed
      BY <2>2, TailRecovers DEF Fallback
    <3>2. tails # {}
      BY <3>1, GoodLoadable
    <3>3. OpenFrom(log, hdr) = {[src |-> "tail", header |-> h] : h \in tails}
      BY <1>2, <2>1, <2>4, <3>2 DEF OpenFrom
    <3>4. OpenFrom(log, hdr) # {}
      BY <3>2, <3>3
    <3>5. ASSUME NEW o \in OpenFrom(log, hdr)
          PROVE  /\ o.header \in recoverBestHeader(log)
                 /\ o.src = "tail"
      BY <3>3
    <3> QED
      BY <2>2, <3>1, <3>4, <3>5
  <2> QED
    BY <2>3, <2>4
<1> QED
  BY <1>1, <1>2

----------------------------------------------------------------------------
(* What the storage operations preserve.                                   *)

\* Durable blobs stay where they are.
Stable == dur \subseteq dur' /\ \A i \in dur : log'[i] = log[i]

LEMMA StableKeeps ==
    ASSUME Stable
    PROVE  /\ \A h : Good(h) => GoodIn(log', dur', h)
           /\ \A es : Kept(es) => KeptIn(log', dur', es)
BY DEF Stable, Good, GoodIn, Kept, KeptIn

\* A step that leaves the file alone and does not shrink Allowed keeps
\* every source of recovery.
LEMMA FrameKeeps ==
    ASSUME UNCHANGED <<log, hdr, dur, disk>>, Allowed \subseteq Allowed'
    PROVE  /\ RecordsGood => RecordsGood'
           /\ SlotsGenuine => SlotsGenuine'
           /\ \A s \in Slots : SafeSlot(s) => SafeSlot(s)'
           /\ TailGood => TailGood'
           /\ SlotsClean => SlotsClean'
           /\ PrimaryGood => PrimaryGood'
           /\ Calm => Calm'
           /\ Fallback => Fallback'
           /\ Recoverable => Recoverable'
<1>1. log' = log /\ hdr' = hdr /\ dur' = dur /\ disk' = disk
  OBVIOUS
<1>2. RecordsGood => RecordsGood'
  BY <1>1 DEF RecordsGood, IsRec, Good
<1>3. SlotsGenuine => SlotsGenuine'
  BY <1>1 DEF SlotsGenuine, SlotValues
<1>4. \A s \in Slots : SafeSlot(s) => SafeSlot(s)'
  BY <1>1 DEF SafeSlot, SlotValues
<1>5. TailGood => TailGood'
  <2> SUFFICES ASSUME TailGood PROVE TailGood'
    OBVIOUS
  <2>1. PICK j \in dur :
        /\ j + 1 \in dur
        /\ log[j].kind = "jnl" /\ log[j + 1].kind = "bkp"
        /\ j > Len(log) - Window
        /\ \A i \in DOMAIN log :
            i >= j /\ IsRec(i) => log[i].hdr.dirCrc.entries \in Allowed
    BY DEF TailGood
  <2> QED
    BY <1>1, <2>1 DEF TailGood, IsRec
<1>6. SlotsClean => SlotsClean'
  BY <1>1 DEF SlotsClean
<1>7. PrimaryGood => PrimaryGood'
  BY <1>1 DEF PrimaryGood, Good
<1>8. disk["primary"] = {hdr["primary"]} => (disk["primary"] = {hdr["primary"]})'
  BY <1>1
<1> QED
  BY <1>2, <1>3, <1>4, <1>5, <1>6, <1>7, <1>8
  DEF Calm, Covered, Fallback, Recoverable, Slots

\* WriteAt past the durable part of the file.
LEMMA PutAtFacts ==
    ASSUME TypeOK, NEW n \in 1 .. Len(log) + 1, n \notin dur, n <= MaxLog,
           NEW b \in Blob, PutAt(n, b)
    PROVE  /\ log' \in Seq(Blob) /\ Len(log') <= MaxLog
           /\ Len(log') = IF n <= Len(log) THEN Len(log) ELSE n
           /\ log'[n] = b
           /\ \A i \in 1 .. Len(log) : i # n => log'[i] = log[i]
           /\ dur' = dur /\ dur' \subseteq 1 .. Len(log')
           /\ hdr' = hdr /\ disk' = disk
           /\ dirty' = dirty \cup {n} /\ dirty' \subseteq 0 .. Len(log')
           /\ Stable
<1>1. log \in Seq(Blob) /\ Len(log) \in Nat /\ DOMAIN log = 1 .. Len(log)
  BY DEF TypeOK
<1>2. CASE n \in DOMAIN log
  <2>1. log' = [log EXCEPT ![n] = b]
    BY <1>2 DEF PutAt
  <2>2. log' \in Seq(Blob) /\ Len(log') = Len(log)
    BY <1>1, <1>2, <2>1, ExceptSeq
  <2> QED
    BY <1>1, <1>2, <2>1, <2>2, CommitAssumption DEF PutAt, TypeOK, Stable
<1>3. CASE n \notin DOMAIN log
  <2>1. log' = Append(log, b) /\ n = Len(log) + 1
    <3>1. n = Len(log) + 1
      BY <1>1, <1>3
    <3>2. log' = Append(log, b)
      BY <1>3 DEF PutAt
    <3> QED
      BY <3>1, <3>2
  <2>2. /\ log' \in Seq(Blob) /\ Len(log') = Len(log) + 1
        /\ \A i \in 1 .. Len(log) : log'[i] = log[i]
        /\ log'[Len(log) + 1] = b
    BY <1>1, <2>1, AppendProperties
  <2>3. /\ dur' = dur /\ dirty' = dirty \cup {n} /\ hdr' = hdr /\ disk' = disk
        /\ dur \subseteq 1 .. Len(log) /\ dirty \subseteq 0 .. Len(log)
    BY DEF PutAt, TypeOK
  <2>4. Len(log') = n /\ Len(log') <= MaxLog /\ ~(n <= Len(log))
    BY <1>1, <2>1, <2>2
  <2>5. dur' \subseteq 1 .. Len(log') /\ dirty' \subseteq 0 .. Len(log')
    <3>1. 1 .. Len(log) \subseteq 1 .. n /\ 0 .. Len(log) \subseteq 0 .. n /\ n \in 0 .. n
      BY <1>1, <2>1
    <3> QED
      BY <2>3, <2>4, <3>1
  <2>6. Stable
    BY <2>2, <2>3 DEF Stable
  <2> QED
    BY <2>1, <2>2, <2>3, <2>4, <2>5, <2>6
<1> QED
  BY <1>2, <1>3

LEMMA PutAtKeeps ==
    ASSUME TypeOK, RecordsGood, SlotsGenuine, Recoverable, Assumed,
           Window < MaxLog => Calm,
           Allowed \subseteq Allowed',
           NEW n \in 1 .. Len(log) + 1, n \notin dur, n <= MaxLog,
           NEW b \in Blob, PutAt(n, b),
           b.kind \in {"jnl", "bkp"} =>
                Good(b.hdr) /\ b.hdr.dirCrc.entries \in Allowed'
    PROVE  /\ RecordsGood'
           /\ SlotsGenuine'
           /\ Recoverable'
           /\ Window < MaxLog => Calm'
<1>1. /\ log' \in Seq(Blob) /\ Len(log') <= MaxLog
      /\ Len(log') = IF n <= Len(log) THEN Len(log) ELSE n
      /\ log'[n] = b
      /\ \A i \in 1 .. Len(log) : i # n => log'[i] = log[i]
      /\ dur' = dur /\ dur \subseteq 1 .. Len(log)
      /\ hdr' = hdr /\ disk' = disk
      /\ Stable
  BY PutAtFacts DEF TypeOK
<1>2. Len(log) \in Nat /\ DOMAIN log = 1 .. Len(log) /\ DOMAIN log' = 1 .. Len(log')
  BY <1>1 DEF TypeOK
<1>3. \A h : Good(h) => GoodIn(log', dur', h)
  BY <1>1, StableKeeps
<1>4. RecordsGood'
  <2> SUFFICES ASSUME NEW i \in 1 .. Len(log'), log'[i].kind \in {"jnl", "bkp"}
               PROVE  GoodIn(log', dur', log'[i].hdr)
    BY <1>2 DEF RecordsGood, IsRec, Good
  <2>1. CASE i = n
    BY <1>1, <1>3, <2>1
  <2>2. CASE i # n
    <3>1. i \in 1 .. Len(log) /\ log'[i] = log[i]
      BY <1>1, <1>2, <2>2
    <3> QED
      BY <1>2, <1>3, <3>1 DEF RecordsGood, IsRec
  <2> QED
    BY <2>1, <2>2
<1>5. SlotsGenuine'
  BY <1>1 DEF SlotsGenuine, SlotValues
<1>6. \A s \in Slots : SafeSlot(s) => SafeSlot(s)'
  BY <1>1 DEF SafeSlot, SlotValues
<1>7. (SlotsClean => SlotsClean') /\ (PrimaryGood => PrimaryGood')
  BY <1>1, <1>3 DEF SlotsClean, PrimaryGood, Good
<1>8. Window >= MaxLog /\ TailGood => TailGood'
  <2> SUFFICES ASSUME Window >= MaxLog, TailGood PROVE TailGood'
    OBVIOUS
  <2>1. PICK j \in dur :
        /\ j + 1 \in dur
        /\ log[j].kind = "jnl" /\ log[j + 1].kind = "bkp"
        /\ \A i \in DOMAIN log :
            i >= j /\ IsRec(i) => log[i].hdr.dirCrc.entries \in Allowed
    BY DEF TailGood
  <2>2. log'[j] = log[j] /\ log'[j + 1] = log[j + 1]
    BY <1>1, <2>1
  <2>3. j > Len(log') - Window
    BY <1>1, <1>2, FormatAssumption, CommitAssumption
  <2>4. ASSUME NEW i \in 1 .. Len(log'), i >= j, log'[i].kind \in {"jnl", "bkp"}
        PROVE  log'[i].hdr.dirCrc.entries \in Allowed'
    <3>1. CASE i = n
      BY <1>1, <2>4, <3>1
    <3>2. CASE i # n
      <4>1. i \in 1 .. Len(log) /\ log'[i] = log[i]
        BY <1>1, <1>2, <3>2
      <4> QED
        BY <1>2, <2>1, <2>4, <4>1 DEF IsRec
    <3> QED
      BY <3>1, <3>2
  <2> QED
    BY <1>1, <1>2, <2>1, <2>2, <2>3, <2>4 DEF TailGood, IsRec
<1>9. Window < MaxLog => Calm'
  BY <1>7 DEF Calm
<1>10. Window >= MaxLog => Recoverable'
  BY <1>1, <1>6, <1>7, <1>8 DEF Recoverable, Calm, Covered, Fallback, Slots
<1> QED
  BY <1>4, <1>5, <1>9, <1>10, FormatAssumption, CommitAssumption DEF Recoverable

\* A header that is written over another may be what the overwrite leaves.
LEMMA TearsSelf ==
    ASSUME NEW a \in SlotValue, NEW b \in Header
    PROVE  b \in Tears(a, b)
<1>1. CASE a = b \/ a = Bad
  BY <1>1 DEF Tears
<1>2. CASE a # b /\ a # Bad
  <2>1. b = [kind |-> "hdr", dirOff |-> b.dirOff, dirCrc |-> b.dirCrc,
             idxOff |-> b.idxOff, idxCrc |-> b.idxCrc, gen |-> b.gen]
    BY DEF Header, HeaderOf
  <2>2. b \in Mix(a, b)
    BY <2>1, KindFacts DEF Mix
  <2> QED
    BY <1>2, <2>2, KindFacts DEF Tears
<1> QED
  BY <1>1, <1>2

\* WriteAt of header h to a slot, complete or not.
LEMMA PutSlotKeeps ==
    ASSUME TypeOK, RecordsGood, SlotsGenuine, UNCHANGED ghosts,
           NEW s \in Slots, NEW h \in Header, Good(h),
           h.dirCrc.entries \in Allowed,
           NEW w \in Tears(hdr[s], h), PutSlot(s, w)
    PROVE  /\ hdr' \in [Slots -> SlotValue]
           /\ disk' \in [Slots -> SUBSET SlotValue]
           /\ log' = log /\ dur' = dur /\ dirty' = dirty \cup {0}
           /\ hdr'[s] = w
           /\ RecordsGood'
           /\ SlotsGenuine'
           /\ \A r \in Slots : SafeSlot(r) => SafeSlot(r)'
           /\ TailGood => TailGood'
           /\ \A r \in Slots \ {s} : hdr'[r] = hdr[r] /\ disk'[r] = disk[r]
<1>1. /\ hdr' = [hdr EXCEPT ![s] = w]
      /\ disk' = [disk EXCEPT ![s] = UNION {Tears(d, w) : d \in disk[s]}]
      /\ log' = log /\ dur' = dur /\ dirty' = dirty \cup {0}
      /\ Allowed' = Allowed
  BY DEF PutSlot, ghosts, Allowed
<1>2. hdr \in [Slots -> SlotValue] /\ disk \in [Slots -> SUBSET SlotValue]
  BY DEF TypeOK
<1>3. h \in SlotValue /\ hdr[s] \in SlotValue
  BY <1>2 DEF SlotValue, HeaderOrBad
<1>4. /\ w \in SlotValue
      /\ w # Bad =>
           /\ \E x \in {hdr[s], h} : x # Bad /\ w.kind = x.kind
           /\ \E x \in {hdr[s], h} : x # Bad /\ w.dirOff = x.dirOff
           /\ \E x \in {hdr[s], h} : x # Bad /\ w.idxOff = x.idxOff
                                              /\ w.idxCrc = x.idxCrc
  BY <1>3, TearsFacts
<1>5. \A v \in disk'[s] :
      /\ v \in SlotValue
      /\ v # Bad =>
           /\ \E x \in disk[s] \cup {w} : x # Bad /\ v.kind = x.kind
           /\ \E x \in disk[s] \cup {w} : x # Bad /\ v.dirOff = x.dirOff
           /\ \E x \in disk[s] \cup {w} : x # Bad /\ v.idxOff = x.idxOff
                                                  /\ v.idxCrc = x.idxCrc
  <2> SUFFICES ASSUME NEW v \in disk'[s]
               PROVE  /\ v \in SlotValue
                      /\ v # Bad =>
                         /\ \E x \in disk[s] \cup {w} : x # Bad /\ v.kind = x.kind
                         /\ \E x \in disk[s] \cup {w} : x # Bad /\ v.dirOff = x.dirOff
                         /\ \E x \in disk[s] \cup {w} :
                              x # Bad /\ v.idxOff = x.idxOff /\ v.idxCrc = x.idxCrc
    OBVIOUS
  <2>1. PICK d \in disk[s] : v \in Tears(d, w)
    BY <1>1, <1>2
  <2>2. d \in SlotValue
    BY <1>2
  <2> QED
    BY <1>4, <2>1, <2>2, TearsFacts
<1>6. \A v \in disk'[s] \cup {hdr'[s]} : v # Bad =>
           /\ \E x \in SlotValues(s) \cup {h} : x # Bad /\ v.kind = x.kind
           /\ \E x \in SlotValues(s) \cup {h} : x # Bad /\ v.dirOff = x.dirOff
           /\ \E x \in SlotValues(s) \cup {h} : x # Bad /\ v.idxOff = x.idxOff
                                                     /\ v.idxCrc = x.idxCrc
  <2>1. hdr'[s] = w
    BY <1>1, <1>2
  <2>2. ASSUME NEW v \in disk'[s], v # Bad
        PROVE  /\ \E x \in SlotValues(s) \cup {h} : x # Bad /\ v.kind = x.kind
               /\ \E x \in SlotValues(s) \cup {h} : x # Bad /\ v.dirOff = x.dirOff
               /\ \E x \in SlotValues(s) \cup {h} :
                    x # Bad /\ v.idxOff = x.idxOff /\ v.idxCrc = x.idxCrc
    <3>1. PICK x \in disk[s] \cup {w} : x # Bad /\ v.dirOff = x.dirOff
      BY <1>5, <2>2
    <3>2. PICK y \in disk[s] \cup {w} : y # Bad /\ v.idxOff = y.idxOff /\ v.idxCrc = y.idxCrc
      BY <1>5, <2>2
    <3>3. PICK k \in disk[s] \cup {w} : k # Bad /\ v.kind = k.kind
      BY <1>5, <2>2
    <3> QED
      BY <1>4, <3>1, <3>2, <3>3 DEF SlotValues
  <2> QED
    BY <1>4, <2>1, <2>2 DEF SlotValues
<1>7. h.kind = "hdr" /\ h.dirOff \in dur /\ h.idxOff \in dur /\ h.idxCrc.dirCrc.entries \in Allowed
  BY DEF Good, GoodIn
<1>8. \A r \in Slots \ {s} : hdr'[r] = hdr[r] /\ disk'[r] = disk[r]
  BY <1>1, <1>2
<1>9. hdr' \in [Slots -> SlotValue] /\ hdr'[s] = w
  BY <1>1, <1>2, <1>4
<1>10. disk' \in [Slots -> SUBSET SlotValue]
  <2>1. UNION {Tears(d, w) : d \in disk[s]} \in SUBSET SlotValue
    BY <1>1, <1>2, <1>5
  <2> QED
    BY <1>1, <1>2, <2>1
<1>11. RecordsGood'
  BY <1>1 DEF RecordsGood, IsRec, Good
<1>12. SlotsGenuine'
  <2> SUFFICES ASSUME NEW r \in Slots, NEW v \in disk'[r] \cup {hdr'[r]}, v # Bad
               PROVE  v.kind = "hdr" /\ v.dirOff \in dur' /\ v.idxOff \in dur'
    BY DEF SlotsGenuine, SlotValues
  <2>1. CASE r = s
    BY <1>1, <1>6, <1>7, <2>1 DEF SlotsGenuine
  <2>2. CASE r # s
    BY <1>1, <1>8, <2>2 DEF SlotsGenuine, SlotValues
  <2> QED
    BY <2>1, <2>2
<1>13. \A r \in Slots : SafeSlot(r) => SafeSlot(r)'
  <2> SUFFICES ASSUME NEW r \in Slots, SafeSlot(r),
                      NEW v \in disk'[r] \cup {hdr'[r]}, v # Bad
               PROVE  v.idxCrc.dirCrc.entries \in Allowed
    BY <1>1 DEF SafeSlot, SlotValues
  <2>1. CASE r = s
    BY <1>6, <1>7, <2>1 DEF SafeSlot
  <2>2. CASE r # s
    BY <1>8, <2>2 DEF SafeSlot, SlotValues
  <2> QED
    BY <2>1, <2>2
<1>14. TailGood => TailGood'
  BY <1>1 DEF TailGood, IsRec
<1> QED
  BY <1>1, <1>8, <1>9, <1>10, <1>11, <1>12, <1>13, <1>14

\* fsync: the slots on disk become what a read sees.
LEMMA FlushKeeps ==
    ASSUME TypeOK, RecordsGood, SlotsGenuine, Allowed \subseteq Allowed', Flush
    PROVE  /\ disk' \in [Slots -> SUBSET SlotValue]
           /\ log' = log /\ hdr' = hdr /\ dirty' = {}
           /\ dur' = dur \cup (dirty \ {0}) /\ dur' \subseteq 1 .. Len(log)
           /\ Stable
           /\ 0 \in dirty => SlotsClean'
           /\ RecordsGood'
           /\ SlotsGenuine'
           /\ \A s \in Slots : SafeSlot(s) => SafeSlot(s)'
           /\ \A s \in Slots : disk[s] = {hdr[s]} => disk'[s] = {hdr'[s]}
           /\ TailGood => TailGood'
           /\ PrimaryGood => PrimaryGood'
           /\ Recoverable => Recoverable'
           /\ Calm => Calm'
           /\ Fallback => Fallback'
<1>1. /\ log' = log /\ hdr' = hdr /\ dirty' = {}
      /\ dur' = dur \cup (dirty \ {0})
      /\ disk' = IF 0 \in dirty THEN [s \in Slots |-> {hdr[s]}] ELSE disk
  BY DEF Flush
<1>2. hdr \in [Slots -> SlotValue] /\ disk \in [Slots -> SUBSET SlotValue]
  BY DEF TypeOK
<1>3. \A s \in Slots : disk'[s] = disk[s] \/ disk'[s] = {hdr[s]}
  BY <1>1
<1>4. Stable /\ dur' \subseteq 1 .. Len(log)
  BY <1>1 DEF Stable, TypeOK
<1>5. \A h : Good(h) => GoodIn(log', dur', h)
  BY <1>4, StableKeeps
<1>6. disk' \in [Slots -> SUBSET SlotValue]
  BY <1>1, <1>2
<1>7. 0 \in dirty => SlotsClean'
  BY <1>1 DEF SlotsClean
<1>8. RecordsGood'
  BY <1>1, <1>5 DEF RecordsGood, IsRec, Good
<1>9. SlotsGenuine'
  BY <1>1, <1>3 DEF SlotsGenuine, SlotValues
<1>10. \A s \in Slots : SafeSlot(s) => SafeSlot(s)'
  BY <1>1, <1>3 DEF SafeSlot, SlotValues
<1>11. \A s \in Slots : disk[s] = {hdr[s]} => disk'[s] = {hdr'[s]}
  BY <1>1, <1>3
<1>12. TailGood => TailGood'
  <2> SUFFICES ASSUME TailGood PROVE TailGood'
    OBVIOUS
  <2>1. PICK j \in dur :
        /\ j + 1 \in dur
        /\ log[j].kind = "jnl" /\ log[j + 1].kind = "bkp"
        /\ j > Len(log) - Window
        /\ \A i \in DOMAIN log :
            i >= j /\ IsRec(i) => log[i].hdr.dirCrc.entries \in Allowed
    BY DEF TailGood
  <2> QED
    BY <1>1, <2>1 DEF TailGood, IsRec
<1>13. PrimaryGood => PrimaryGood'
  BY <1>1, <1>5 DEF PrimaryGood, Good
<1>14. SlotsClean => SlotsClean'
  BY <1>11 DEF SlotsClean
<1> QED
  BY <1>1, <1>4, <1>6, <1>7, <1>8, <1>9, <1>10, <1>11, <1>12, <1>13, <1>14
  DEF Recoverable, Calm, Covered, Fallback, Slots

----------------------------------------------------------------------------
(* Steps that append: the transaction's operations and the commit's blobs. *)

Appending == {"tx", "idx", "jnl", "bkp"}

\* The effect of an append of b at the transaction's offset.
Appended(b) ==
    /\ log' \in Seq(Blob) /\ Len(log') = tx.off + 1 /\ Len(log') <= MaxLog
    /\ tx.off \in Nat /\ tx.off <= Len(log) /\ Len(log) \in Nat
    /\ log'[tx.off + 1] = b
    /\ \A i \in 1 .. tx.off : log'[i] = log[i]
    /\ dur' = dur /\ dur' \subseteq 1 .. Len(log') /\ dur \subseteq 1 .. tx.off
    /\ hdr' = hdr /\ disk' = disk
    /\ dirty' = dirty \cup {tx.off + 1} /\ dirty' \subseteq 0 .. Len(log')
    /\ RecordsGood' /\ SlotsGenuine' /\ Recoverable' /\ AllowedKept'
    /\ Window < MaxLog => Calm'
    /\ mem.header # Bad /\ KeptIn(log', dur', mem.entries)
    /\ \A h : Good(h) => GoodIn(log', dur', h)
    /\ \A es : Kept(es) => KeptIn(log', dur', es)
    /\ \A D : KeptIn(log, D \cap 1 .. tx.off, tx.entries) =>
              KeptIn(log', D \cap 1 .. tx.off, tx.entries)

LEMMA AppendStep ==
    ASSUME IInv, Assumed, pc \in Appending, NEW b \in Blob,
           PutAt(tx.off + 1, b), mem' = mem,
           Allowed \subseteq Allowed', \A es \in Allowed' \ Allowed : Kept(es),
           b.kind \in {"jnl", "bkp"} =>
                Good(b.hdr) /\ b.hdr.dirCrc.entries \in Allowed'
    PROVE  Appended(b)
<1>1. /\ TypeOK /\ RecordsGood /\ SlotsGenuine /\ Recoverable /\ AllowedKept
      /\ OffsetInv /\ MemInv /\ CalmInv
  BY DEF IInv
<1>2. /\ tx.off \in Nat /\ Len(log) \in Nat
      /\ tx.off <= Len(log) /\ Len(log) <= tx.off + 1
      /\ \A i \in dur : i <= tx.off
      /\ dur \subseteq 1 .. Len(log)
  BY <1>1 DEF TypeOK, OffsetInv, InTx, Indexed, Synced1, Jnled, Appending
<1>3. tx.off + 1 <= MaxLog
  <2>1. pc \in DOMAIN Pending /\ Pending[pc] \in 1 .. 4
    BY DEF Pending, Appending
  <2>2. tx.off + Pending[pc] <= MaxLog
    BY <1>1, <2>1 DEF OffsetInv
  <2> QED
    BY <1>2, <2>1, <2>2, CommitAssumption
<1>4. tx.off + 1 \in 1 .. Len(log) + 1 /\ tx.off + 1 \notin dur
  BY <1>2
<1>5. Window < MaxLog => Calm
  BY <1>1 DEF CalmInv, Appending
<1>6. /\ log' \in Seq(Blob) /\ Len(log') <= MaxLog
      /\ Len(log') = IF tx.off + 1 <= Len(log) THEN Len(log) ELSE tx.off + 1
      /\ log'[tx.off + 1] = b
      /\ \A i \in 1 .. Len(log) : i # tx.off + 1 => log'[i] = log[i]
      /\ dur' = dur /\ dur' \subseteq 1 .. Len(log')
      /\ hdr' = hdr /\ disk' = disk
      /\ dirty' = dirty \cup {tx.off + 1} /\ dirty' \subseteq 0 .. Len(log')
      /\ Stable
  BY <1>1, <1>3, <1>4, PutAtFacts
<1>7. RecordsGood' /\ SlotsGenuine' /\ Recoverable' /\ (Window < MaxLog => Calm')
  BY <1>1, <1>3, <1>4, <1>5, PutAtKeeps
<1>8. /\ \A h : Good(h) => GoodIn(log', dur', h)
      /\ \A es : Kept(es) => KeptIn(log', dur', es)
  BY <1>6, StableKeeps
<1>9. AllowedKept'
  <2>1. \A es \in Allowed' : Kept(es)
    BY <1>1 DEF AllowedKept
  <2> QED
    BY <1>8, <2>1 DEF AllowedKept, Kept
<1>10. mem.header # Bad /\ KeptIn(log', dur', mem.entries)
  BY <1>1, <1>8 DEF MemInv, Appending
<1>11. Len(log') = tx.off + 1 /\ \A i \in 1 .. tx.off : log'[i] = log[i]
  BY <1>2, <1>6
<1>12. \A D : KeptIn(log, D \cap 1 .. tx.off, tx.entries) =>
              KeptIn(log', D \cap 1 .. tx.off, tx.entries)
  BY <1>11 DEF KeptIn
<1>13. dur \subseteq 1 .. tx.off
  BY <1>2
<1> QED
  BY <1>2, <1>6, <1>7, <1>8, <1>9, <1>10, <1>11, <1>12, <1>13 DEF Appended

LEMMA TxPutInv ==
    ASSUME IInv, Assumed, NEW p \in Paths, NEW v \in Vals, NEW m \in Metas,
           TxPut(p, v, m)
    PROVE  IInv'
<1> DEFINE b == Chunk(v)
           e == [kind |-> "entry", chunk |-> tx.off + 1, crc |-> v, meta |-> m]
<1>1. /\ pc = "tx" /\ pc' = "tx" /\ mem' = mem /\ acked' = acked /\ maybe' = maybe
      /\ crashes' = crashes /\ faults' = faults
      /\ Room(tx.off) /\ PutAt(tx.off + 1, b)
      /\ tx' = [tx EXCEPT !.entries[p] = e, !.off = @ + 1]
  BY DEF TxPut, ghosts, budgets
<1>2. b \in Blob /\ b.kind = "chunk"
  BY BlobTypes DEF Chunk
<1>3. Allowed' = Allowed
  BY <1>1 DEF Allowed
<1>4. Appended(b)
  BY <1>1, <1>2, <1>3, AppendStep DEF Appending
<1> USE <1>4 DEF Appended
<1>5. tx \in [entries : Snapshots, off : Nat, h : HeaderOrBad]
  BY DEF IInv, TypeOK
<1>6. e \in Entry /\ e # NoEntry
  BY <1>4, KindFacts DEF Entry
<1>7. /\ tx'.off = tx.off + 1 /\ tx'.h = tx.h
      /\ tx'.entries = [tx.entries EXCEPT ![p] = e]
      /\ tx' \in [entries : Snapshots, off : Nat, h : HeaderOrBad]
  <2> HIDE DEF e
  <2>1. tx'.off = tx.off + 1 /\ tx'.h = tx.h
    BY <1>1, <1>5
  <2>2. tx'.entries = [tx.entries EXCEPT ![p] = e]
    BY <1>1, <1>5
  <2>3. [tx.entries EXCEPT ![p] = e] \in Snapshots
    BY <1>5, <1>6 DEF Snapshots
  <2>4. tx' = [entries |-> tx'.entries, off |-> tx'.off, h |-> tx'.h]
    BY <1>1, <1>5
  <2>5. tx.off + 1 \in Nat
    BY <1>4
  <2> QED
    BY <1>5, <2>1, <2>2, <2>3, <2>4, <2>5
<1>8. TypeOK'
  BY <1>1, <1>4, <1>7 DEF IInv, TypeOK
<1>9. OffsetInv'
  <2>1. KeptIn(log, (dur \cup dirty) \cap 1 .. tx.off, tx.entries)
    BY <1>1 DEF IInv, OffsetInv, InTx
  <2>2. KeptIn(log', (dur' \cup dirty') \cap 1 .. tx'.off, tx'.entries)
    <3> SUFFICES ASSUME NEW q \in Paths, tx'.entries[q] # NoEntry
                 PROVE  /\ tx'.entries[q].chunk \in (dur' \cup dirty') \cap 1 .. tx'.off
                        /\ log'[tx'.entries[q].chunk] = Chunk(tx'.entries[q].crc)
      BY DEF KeptIn
    <3>1. CASE q = p
      <4>1. tx'.entries[q] = e
        BY <1>5, <1>7, <3>1 DEF Snapshots
      <4> QED
        BY <1>4, <1>7, <4>1
    <3>2. CASE q # p
      <4>1. tx'.entries[q] = tx.entries[q]
        BY <1>5, <1>7, <3>2 DEF Snapshots
      <4> QED
        BY <1>4, <1>7, <2>1, <4>1 DEF KeptIn
    <3> QED
      BY <3>1, <3>2
  <2>3. tx'.off + 4 <= MaxLog
    BY <1>1, <1>4, <1>7, CommitAssumption DEF Room
  <2>4. Len(log') = tx'.off /\ \A i \in dur' : i <= tx'.off
    <3>1. \A i \in 1 .. tx.off : i <= tx.off + 1
      BY <1>4
    <3> QED
      BY <1>4, <1>7, <3>1
  <2> QED
    BY <1>1, <1>4, <1>7, <2>2, <2>3, <2>4 DEF OffsetInv, Pending
<1>10. HeaderInv' /\ RecordInv' /\ SlotInv'
  BY <1>1 DEF HeaderInv, RecordInv, SlotInv, Indexed, Synced1, Jnled, Synced2
<1>11. MemInv'
  BY <1>1, <1>4 DEF MemInv, Persisting, Kept
<1>12. CalmInv'
  BY <1>1, <1>4 DEF CalmInv
<1> QED
  BY <1>4, <1>8, <1>9, <1>10, <1>11, <1>12 DEF IInv

\* Outside a transaction nothing is claimed of one.
LEMMA IdleInv ==
    ASSUME pc' \in {"open", "down"} \cup Persisting
    PROVE  OffsetInv' /\ HeaderInv' /\ RecordInv' /\ SlotInv'
BY DEF OffsetInv, HeaderInv, RecordInv, SlotInv, InTx, Indexed, Synced1, Jnled,
       Synced2, Pending, Persisting

LEMMA TxPutFailInv ==
    ASSUME IInv, Assumed, NEW v \in Vals, TxPutFail(v)
    PROVE  IInv'
<1>1. /\ pc = "tx" /\ pc' = "tx" /\ mem' = mem /\ acked' = acked /\ maybe' = maybe
      /\ crashes' = crashes /\ faults < MaxFaults /\ faults' = faults + 1
      /\ Room(tx.off)
  BY DEF TxPutFail, Fault, ghosts
<1>2. PICK b \in {Bad, Chunk(v)} :
        /\ PutAt(tx.off + 1, b)
        /\ tx' = tx \/ tx' = [tx EXCEPT !.off = @ + 1]
  BY DEF TxPutFail
<1>3. b \in Blob /\ b.kind \in {"bad", "chunk"}
  BY BlobTypes, KindFacts DEF Chunk
<1>4. Allowed' = Allowed
  BY <1>1 DEF Allowed
<1>5. Appended(b)
  BY <1>1, <1>2, <1>3, <1>4, AppendStep DEF Appending
<1>6. tx \in [entries : Snapshots, off : Nat, h : HeaderOrBad]
  BY DEF IInv, TypeOK
<1>7. /\ tx' \in [entries : Snapshots, off : Nat, h : HeaderOrBad]
      /\ tx'.entries = tx.entries /\ tx'.off \in {tx.off, tx.off + 1}
  BY <1>2, <1>6
<1>8. /\ tx'.off <= Len(log') /\ Len(log') <= tx'.off + 1
      /\ \A i \in dur' : i <= tx'.off
  <2>1. Len(log') = tx.off + 1 /\ dur' = dur /\ dur \subseteq 1 .. tx.off
    BY <1>5 DEF Appended
  <2>2. tx.off \in Nat
    BY <1>6
  <2>3. \A i \in dur' : i <= tx.off /\ i <= tx.off + 1
    BY <2>1, <2>2
  <2>4. CASE tx'.off = tx.off
    BY <2>1, <2>2, <2>3, <2>4
  <2>5. CASE tx'.off = tx.off + 1
    BY <2>1, <2>2, <2>3, <2>5
  <2> QED
    BY <1>7, <2>4, <2>5
<1> USE <1>5 DEF Appended
<1>9. TypeOK'
  BY <1>1, <1>6, <1>7, CommitAssumption DEF IInv, TypeOK
<1>10. OffsetInv'
  <2>1. KeptIn(log', (dur \cup dirty) \cap 1 .. tx.off, tx.entries)
    BY <1>1 DEF IInv, OffsetInv, InTx
  <2>2. (dur \cup dirty) \cap 1 .. tx.off \subseteq (dur' \cup dirty') \cap 1 .. tx'.off
    BY <1>6, <1>7
  <2>3. KeptIn(log', (dur' \cup dirty') \cap 1 .. tx'.off, tx'.entries)
    BY <1>7, <2>1, <2>2 DEF KeptIn
  <2>4. tx'.off + 4 <= MaxLog
    BY <1>1, <1>6, <1>7, CommitAssumption DEF Room
  <2> QED
    BY <1>1, <1>8, <2>3, <2>4 DEF OffsetInv, Pending
<1>11. HeaderInv' /\ RecordInv' /\ SlotInv'
  BY <1>1 DEF HeaderInv, RecordInv, SlotInv, Indexed, Synced1, Jnled, Synced2
<1>12. MemInv'
  BY <1>1 DEF MemInv, Persisting, Kept
<1>13. CalmInv'
  BY <1>1 DEF CalmInv
<1> QED
  BY <1>9, <1>10, <1>11, <1>12, <1>13 DEF IInv

LEMMA AppendFailsInv ==
    ASSUME IInv, Assumed, AppendFails
    PROVE  IInv'
<1>1. /\ pc \in Appending /\ pc' = "open" /\ mem' = mem /\ acked' = acked
      /\ maybe' = maybe /\ crashes' = crashes /\ faults < MaxFaults
      /\ faults' = faults + 1 /\ tx' = NoTx /\ PutAt(tx.off + 1, Bad)
  BY DEF AppendFails, CommitFails, Fault, ghosts, Appending
<1>2. Bad \in Blob /\ Bad.kind = "bad"
  BY BlobTypes, KindFacts
<1>3. Allowed' = Allowed
  BY <1>1 DEF Allowed
<1>4. Appended(Bad)
  BY <1>1, <1>2, <1>3, AppendStep
<1> USE <1>4 DEF Appended
<1>5. NoTx \in [entries : Snapshots, off : Nat, h : HeaderOrBad]
  BY BlobTypes DEF NoTx, HeaderOrBad
<1>6. TypeOK'
  BY <1>1, <1>5, CommitAssumption DEF IInv, TypeOK, PCs
<1>7. MemInv'
  BY <1>1 DEF MemInv, Persisting, Kept
<1>8. CalmInv'
  BY <1>1 DEF CalmInv
<1> QED
  BY <1>1, <1>6, <1>7, <1>8, IdleInv DEF IInv

LEMMA AppendDirInv ==
    ASSUME IInv, Assumed, NEW t \in Times, AppendDir(t)
    PROVE  IInv'
<1> DEFINE d == Dir(tx.entries, t)
<1>1. /\ pc = "tx" /\ pc' = "idx" /\ mem' = mem /\ acked' = acked /\ maybe' = maybe
      /\ crashes' = crashes /\ faults' = faults /\ PutAt(tx.off + 1, d)
      /\ tx' = [tx EXCEPT !.off = @ + 1]
  BY DEF AppendDir, CommitAppend, ghosts, budgets
<1>2. tx \in [entries : Snapshots, off : Nat, h : HeaderOrBad]
  BY DEF IInv, TypeOK
<1>3. d \in DirRec /\ d \in Blob /\ d.kind = "dir" /\ d.entries = tx.entries
  BY <1>2, BlobTypes DEF Dir
<1>4. Allowed' = Allowed
  BY <1>1 DEF Allowed
<1> HIDE DEF d
<1>5. Appended(d)
  BY <1>1, <1>3, <1>4, AppendStep DEF Appending
<1> USE <1>5 DEF Appended
<1>6. /\ tx' \in [entries : Snapshots, off : Nat, h : HeaderOrBad]
      /\ tx'.entries = tx.entries /\ tx'.off = tx.off + 1
  BY <1>1, <1>2
<1>7. TypeOK'
  BY <1>1, <1>6 DEF IInv, TypeOK, PCs
<1>8. OffsetInv'
  <2>1. KeptIn(log', (dur \cup dirty) \cap 1 .. tx.off, tx.entries)
    BY <1>1 DEF IInv, OffsetInv, InTx
  <2>2. (dur \cup dirty) \cap 1 .. tx.off \subseteq (dur' \cup dirty') \cap 1 .. tx'.off
    BY <1>6
  <2>3. KeptIn(log', (dur' \cup dirty') \cap 1 .. tx'.off, tx'.entries)
    BY <1>6, <2>1, <2>2 DEF KeptIn
  <2>4. tx'.off + 3 <= MaxLog
    <3>1. tx.off + 4 <= MaxLog
      BY <1>1 DEF IInv, OffsetInv, Pending
    <3> QED
      BY <1>6, <3>1, CommitAssumption
  <2>5. /\ Len(log') = tx'.off
        /\ \A i \in dur' : i <= tx'.off
    <3>1. \A i \in 1 .. tx.off : i <= tx.off + 1
      OBVIOUS
    <3> QED
      BY <1>6, <3>1
  <2> QED
    BY <1>1, <2>3, <2>4, <2>5 DEF OffsetInv, Pending
<1>9. HeaderInv'
  BY <1>1, <1>3, <1>6 DEF HeaderInv, Indexed, Synced1, Jnled, Synced2
<1>10. RecordInv' /\ SlotInv'
  BY <1>1 DEF RecordInv, SlotInv, Synced2
<1>11. MemInv'
  BY <1>1 DEF MemInv, Persisting, Kept
<1>12. CalmInv'
  BY <1>1 DEF CalmInv
<1> QED
  BY <1>7, <1>8, <1>9, <1>10, <1>11, <1>12 DEF IInv

LEMMA AppendIdxInv ==
    ASSUME IInv, Assumed, AppendIdx
    PROVE  IInv'
<1> DEFINE g == NextGen(mem.header)
           d == log[tx.off]
           x == Idx(tx.off, d, g)
           h == [kind |-> "hdr", dirOff |-> tx.off, dirCrc |-> d,
                 idxOff |-> tx.off + 1, idxCrc |-> x, gen |-> g]
<1>1. /\ pc = "idx" /\ pc' = "sync1" /\ mem' = mem /\ acked' = acked /\ maybe' = maybe
      /\ crashes' = crashes /\ faults' = faults /\ PutAt(tx.off + 1, x)
      /\ tx' = [tx EXCEPT !.off = @ + 1, !.h = h]
  BY DEF AppendIdx, CommitAppend, ghosts, budgets, Assumed
<1>2. tx \in [entries : Snapshots, off : Nat, h : HeaderOrBad]
  BY DEF IInv, TypeOK
<1>3. d \in DirRec /\ d.entries = tx.entries /\ tx.off \in dirty
  BY <1>1 DEF IInv, HeaderInv
<1>4. g \in 0 .. MaxGen
  <2>1. mem.header \in Header
    BY <1>1 DEF IInv, TypeOK, MemInv, HeaderOrBad
  <2> QED
    BY <2>1, FormatAssumption DEF NextGen, Header, HeaderOf
<1> HIDE DEF g, d
<1>5. /\ x \in IdxRec /\ x \in Blob /\ x.kind = "idx"
      /\ x.dirOff = tx.off /\ x.dirCrc = d /\ x.gen = g
  BY <1>2, <1>3, <1>4, BlobTypes DEF Idx
<1>6. Allowed' = Allowed
  BY <1>1 DEF Allowed
<1> HIDE DEF x
<1>7. Appended(x)
  BY <1>1, <1>5, <1>6, AppendStep DEF Appending
<1> USE <1>7 DEF Appended
<1>8. h \in Header
  BY <1>3, <1>4, <1>5 DEF Header, HeaderOf
<1>9. /\ h.dirOff = tx.off /\ h.dirCrc = d /\ h.idxOff = tx.off + 1
      /\ h.idxCrc = x /\ h.gen = g
  OBVIOUS
<1> HIDE DEF h
<1>10. /\ tx' \in [entries : Snapshots, off : Nat, h : HeaderOrBad]
       /\ tx'.entries = tx.entries /\ tx'.off = tx.off + 1 /\ tx'.h = h
  <2>1. h \in HeaderOrBad /\ tx.off + 1 \in Nat
    BY <1>8 DEF HeaderOrBad
  <2>2. tx' = [entries |-> tx.entries, off |-> tx.off + 1, h |-> h]
    BY <1>1, <1>2
  <2> QED
    BY <1>2, <2>1, <2>2
<1>11. TypeOK'
  BY <1>1, <1>10 DEF IInv, TypeOK, PCs
<1>12. OffsetInv'
  <2>1. KeptIn(log', (dur \cup dirty) \cap 1 .. tx.off, tx.entries)
    BY <1>1 DEF IInv, OffsetInv, InTx
  <2>2. (dur \cup dirty) \cap 1 .. tx.off \subseteq (dur' \cup dirty') \cap 1 .. tx'.off
    BY <1>10
  <2>3. KeptIn(log', (dur' \cup dirty') \cap 1 .. tx'.off, tx'.entries)
    BY <1>10, <2>1, <2>2 DEF KeptIn
  <2>4. tx'.off + 2 <= MaxLog
    <3>1. tx.off + 3 <= MaxLog
      BY <1>1 DEF IInv, OffsetInv, Pending
    <3> QED
      BY <1>10, <3>1, CommitAssumption
  <2>5. /\ Len(log') = tx'.off
        /\ \A i \in dur' : i <= tx'.off
    <3>1. \A i \in 1 .. tx.off : i <= tx.off + 1
      OBVIOUS
    <3> QED
      BY <1>10, <3>1
  <2> QED
    BY <1>1, <2>3, <2>4, <2>5 DEF OffsetInv, Pending
<1>13. HeaderInv'
  <2>1. tx.off \in 1 .. tx.off
    <3>1. Len(log) = tx.off /\ DOMAIN log = 1 .. Len(log)
      BY <1>1 DEF IInv, OffsetInv, TypeOK, InTx
    <3>2. tx.off # 0
      BY <1>1, <3>1 DEF IInv, Recoverable, Calm, Covered, Fallback, PrimaryGood,
                        TailGood, Good, GoodIn, TypeOK
    <3> QED
      BY <3>2
  <2>2. log'[tx.off] = d
    BY <2>1 DEF d
  <2>3. GoodIn(log', dur' \cup dirty', h)
    BY <1>3, <1>5, <1>8, <1>9, <2>2, KindFacts DEF GoodIn
  <2>4. h.dirOff # 0 /\ h.idxOff # 0
    BY <1>9, <2>1
  <2> QED
    BY <1>1, <1>3, <1>8, <1>9, <1>10, <2>3, <2>4
    DEF HeaderInv, Indexed, Synced1, Jnled, Synced2
<1>14. RecordInv' /\ SlotInv'
  BY <1>1 DEF RecordInv, SlotInv, Synced2
<1>15. MemInv'
  BY <1>1 DEF MemInv, Persisting, Kept
<1>16. CalmInv'
  BY <1>1 DEF CalmInv
<1> QED
  BY <1>11, <1>12, <1>13, <1>14, <1>15, <1>16 DEF IInv

\* What holds after a header record is appended, whichever of the two.
LEMMA AppendRecord ==
    ASSUME IInv, Assumed, NEW t \in Times, NEW k \in {"jnl", "bkp"},
           pc \in {"jnl", "bkp"}, PutAt(tx.off + 1, HeaderRecord(k, t, tx.h)),
           tx' = [tx EXCEPT !.off = @ + 1], mem' = mem,
           acked' = acked, maybe' = maybe \cup {tx.entries}
    PROVE  /\ Appended(HeaderRecord(k, t, tx.h))
           /\ tx' \in [entries : Snapshots, off : Nat, h : HeaderOrBad]
           /\ tx'.entries = tx.entries /\ tx'.off = tx.off + 1 /\ tx'.h = tx.h
           /\ tx'.h \in Header /\ tx'.h.dirCrc.entries = tx'.entries
           /\ tx'.h.dirOff # 0 /\ tx'.h.idxOff # 0
           /\ GoodIn(log', dur', tx'.h) /\ GoodIn(log', dur' \cup dirty', tx'.h)
           /\ KeptIn(log', dur', tx'.entries)
           /\ KeptIn(log', (dur' \cup dirty') \cap 1 .. tx'.off, tx'.entries)
           /\ Len(log') = tx'.off /\ \A i \in dur' : i <= tx'.off
<1> DEFINE r == HeaderRecord(k, t, tx.h)
<1>1. tx \in [entries : Snapshots, off : Nat, h : HeaderOrBad]
  BY DEF IInv, TypeOK
<1>2. /\ tx.h \in Header /\ tx.h.dirCrc.entries = tx.entries
      /\ tx.h.dirOff # 0 /\ tx.h.idxOff # 0
      /\ Good(tx.h) /\ Kept(tx.entries)
  BY DEF IInv, HeaderInv, Indexed, Synced1, Jnled
<1>3. r \in Blob /\ r.hdr = tx.h
  BY <1>2, BlobTypes DEF HeaderRecord
<1>4. Allowed' = Allowed \cup {tx.entries}
  BY DEF Allowed
<1> HIDE DEF r
<1>5. Appended(r)
  BY <1>2, <1>3, <1>4, AppendStep DEF Appending, r
<1>6. /\ tx' \in [entries : Snapshots, off : Nat, h : HeaderOrBad]
      /\ tx'.entries = tx.entries /\ tx'.off = tx.off + 1 /\ tx'.h = tx.h
  BY <1>1
<1>7. GoodIn(log', dur', tx.h) /\ KeptIn(log', dur', tx.entries)
  BY <1>2, <1>5 DEF Appended
<1>8. GoodIn(log', dur' \cup dirty', tx.h)
  BY <1>7 DEF GoodIn
<1>9. KeptIn(log', (dur' \cup dirty') \cap 1 .. tx'.off, tx.entries)
  <2>1. dur' \subseteq (dur' \cup dirty') \cap 1 .. tx'.off
    BY <1>5, <1>6 DEF Appended
  <2> QED
    BY <1>7, <2>1 DEF KeptIn
<1>10. Len(log') = tx'.off /\ \A i \in dur' : i <= tx'.off
  <2>1. /\ Len(log') = tx.off + 1 /\ tx.off \in Nat
        /\ dur' = dur /\ dur \subseteq 1 .. tx.off
    BY <1>5 DEF Appended
  <2>2. \A i \in 1 .. tx.off : i <= tx.off + 1
    BY <2>1
  <2> QED
    BY <1>6, <2>1, <2>2
<1> QED
  BY <1>2, <1>5, <1>6, <1>7, <1>8, <1>9, <1>10 DEF r

LEMMA AppendJnlInv ==
    ASSUME IInv, Assumed, NEW t \in Times, AppendJnl(t)
    PROVE  IInv'
<1> DEFINE r == HeaderRecord("jnl", t, tx.h)
<1>1. /\ pc = "jnl" /\ pc' = "bkp" /\ mem' = mem /\ acked' = acked
      /\ maybe' = maybe \cup {tx.entries}
      /\ crashes' = crashes /\ faults' = faults /\ PutAt(tx.off + 1, r)
      /\ tx' = [tx EXCEPT !.off = @ + 1]
  BY DEF AppendJnl, CommitAppend, budgets
<1>2. r.kind = "jnl" /\ r.hdr = tx.h
  BY DEF HeaderRecord
<1>3. /\ Appended(r)
      /\ tx' \in [entries : Snapshots, off : Nat, h : HeaderOrBad]
      /\ tx'.entries = tx.entries /\ tx'.off = tx.off + 1 /\ tx'.h = tx.h
      /\ tx'.h \in Header /\ tx'.h.dirCrc.entries = tx'.entries
      /\ tx'.h.dirOff # 0 /\ tx'.h.idxOff # 0
      /\ GoodIn(log', dur', tx'.h) /\ GoodIn(log', dur' \cup dirty', tx'.h)
      /\ KeptIn(log', dur', tx'.entries)
      /\ KeptIn(log', (dur' \cup dirty') \cap 1 .. tx'.off, tx'.entries)
      /\ Len(log') = tx'.off /\ \A i \in dur' : i <= tx'.off
  BY <1>1, AppendRecord
<1> HIDE DEF r
<1> USE <1>3 DEF Appended
<1>4. maybe' \subseteq Snapshots
  BY <1>1 DEF IInv, TypeOK
<1>5. TypeOK'
  BY <1>1, <1>4 DEF IInv, TypeOK, PCs
<1>6. OffsetInv'
  <2>1. tx'.off + 1 <= MaxLog
    <3>1. tx.off + 2 <= MaxLog
      BY <1>1 DEF IInv, OffsetInv, Pending
    <3> QED
      BY <3>1, CommitAssumption
  <2> QED
    BY <1>1, <2>1 DEF OffsetInv, Pending
<1>7. HeaderInv'
  BY <1>1 DEF HeaderInv, Good, Kept
<1>8. RecordInv' /\ SlotInv'
  BY <1>1, <1>2 DEF RecordInv, SlotInv, Synced2
<1>9. MemInv'
  BY <1>1 DEF MemInv, Persisting, Kept
<1>10. CalmInv'
  BY <1>1 DEF CalmInv
<1> QED
  BY <1>5, <1>6, <1>7, <1>8, <1>9, <1>10 DEF IInv

LEMMA AppendBkpInv ==
    ASSUME IInv, Assumed, NEW t \in Times, AppendBkp(t)
    PROVE  IInv'
<1> DEFINE r == HeaderRecord("bkp", t, tx.h)
<1>1. /\ pc = "bkp" /\ pc' = "sync2" /\ mem' = mem /\ acked' = acked
      /\ maybe' = maybe
      /\ crashes' = crashes /\ faults' = faults /\ PutAt(tx.off + 1, r)
      /\ tx' = [tx EXCEPT !.off = @ + 1]
  BY DEF AppendBkp, CommitAppend, budgets, ghosts, Assumed
<1>2. r.kind = "bkp" /\ r.hdr = tx.h
  BY DEF HeaderRecord
<1>3. maybe' = maybe \cup {tx.entries}
  BY <1>1 DEF IInv, HeaderInv, Jnled
<1>4. /\ Appended(r)
      /\ tx' \in [entries : Snapshots, off : Nat, h : HeaderOrBad]
      /\ tx'.entries = tx.entries /\ tx'.off = tx.off + 1 /\ tx'.h = tx.h
      /\ tx'.h \in Header /\ tx'.h.dirCrc.entries = tx'.entries
      /\ tx'.h.dirOff # 0 /\ tx'.h.idxOff # 0
      /\ GoodIn(log', dur', tx'.h) /\ GoodIn(log', dur' \cup dirty', tx'.h)
      /\ KeptIn(log', dur', tx'.entries)
      /\ KeptIn(log', (dur' \cup dirty') \cap 1 .. tx'.off, tx'.entries)
      /\ Len(log') = tx'.off /\ \A i \in dur' : i <= tx'.off
  BY <1>1, <1>3, AppendRecord
<1> HIDE DEF r
<1> USE <1>4 DEF Appended
<1>5. TypeOK'
  BY <1>1 DEF IInv, TypeOK, PCs
<1>6. OffsetInv'
  BY <1>1 DEF OffsetInv, Pending
<1>7. HeaderInv'
  BY <1>1, <1>3 DEF HeaderInv, Good, Kept
<1>8. RecordInv'
  <2>1. tx.off \in dirty /\ log[tx.off].kind = "jnl" /\ log[tx.off].hdr = tx.h
    BY <1>1 DEF IInv, RecordInv
  <2>2. tx.off >= 1 /\ log'[tx.off] = log[tx.off]
    <3>1. tx.off # 0
      BY <1>1 DEF IInv, OffsetInv, TypeOK, Recoverable, Calm, Covered, Fallback,
                  PrimaryGood, TailGood, Good, GoodIn, InTx, Indexed, Synced1, Jnled
    <3> QED
      BY <3>1
  <2>3. tx'.off - 1 = tx.off /\ tx'.off \in dirty' /\ tx.off \in dirty'
    BY <2>1
  <2> QED
    BY <1>1, <1>2, <2>1, <2>2, <2>3 DEF RecordInv, Synced2
<1>9. SlotInv'
  BY <1>1 DEF SlotInv
<1>10. MemInv'
  BY <1>1 DEF MemInv, Persisting, Kept
<1>11. CalmInv'
  BY <1>1 DEF CalmInv
<1> QED
  BY <1>5, <1>6, <1>7, <1>8, <1>9, <1>10, <1>11 DEF IInv

----------------------------------------------------------------------------
(* Steps that leave the storage alone.                                     *)

LEMMA BeginInv ==
    ASSUME IInv, Assumed, Begin
    PROVE  IInv'
<1>1. /\ pc = "open" /\ pc' = "tx" /\ mem' = mem /\ acked' = acked /\ maybe' = maybe
      /\ crashes' = crashes /\ faults' = faults /\ UNCHANGED storage
      /\ log' = log /\ hdr' = hdr /\ dur' = dur /\ disk' = disk /\ dirty' = dirty
      /\ Room(Len(log))
      /\ tx' = [entries |-> mem.entries, off |-> Len(log), h |-> Bad]
  BY DEF Begin, storage, ghosts, budgets
<1>2. Allowed' = Allowed
  BY <1>1 DEF Allowed
<1>3. RecordsGood' /\ SlotsGenuine' /\ Recoverable' /\ (Calm => Calm')
  BY <1>1, <1>2, FrameKeeps DEF IInv
<1>4. /\ tx' \in [entries : Snapshots, off : Nat, h : HeaderOrBad]
      /\ tx'.off = Len(log) /\ tx'.entries = mem.entries
      /\ Len(log) \in Nat /\ dur \subseteq 1 .. Len(log)
  BY <1>1 DEF IInv, TypeOK, HeaderOrBad
<1>5. TypeOK'
  BY <1>1, <1>4 DEF IInv, TypeOK, PCs
<1>6. AllowedKept'
  BY <1>1, <1>2 DEF IInv, AllowedKept, Kept
<1>7. Kept(mem.entries) /\ mem.header # Bad
  BY <1>1 DEF IInv, MemInv
<1>8. OffsetInv'
  <2>1. dur' \subseteq (dur' \cup dirty') \cap 1 .. tx'.off
    BY <1>1, <1>4
  <2>2. KeptIn(log', (dur' \cup dirty') \cap 1 .. tx'.off, tx'.entries)
    BY <1>1, <1>4, <1>7, <2>1 DEF Kept, KeptIn
  <2>3. tx'.off + 4 <= MaxLog
    BY <1>1, <1>4, CommitAssumption DEF Room
  <2>4. /\ tx'.off <= Len(log') /\ Len(log') <= tx'.off + 1
        /\ \A i \in dur' : i <= tx'.off
    BY <1>1, <1>4
  <2> QED
    BY <1>1, <2>2, <2>3, <2>4 DEF OffsetInv, Pending
<1>9. HeaderInv' /\ RecordInv' /\ SlotInv'
  BY <1>1 DEF HeaderInv, RecordInv, SlotInv, Indexed, Synced1, Jnled, Synced2
<1>10. MemInv'
  BY <1>1, <1>7 DEF MemInv, Persisting, Kept
<1>11. CalmInv'
  BY <1>1, <1>3 DEF IInv, CalmInv
<1> QED
  BY <1>3, <1>5, <1>6, <1>8, <1>9, <1>10, <1>11 DEF IInv

\* An operation of the transaction that appends nothing.
LEMMA TxEditInv ==
    ASSUME IInv, Assumed, pc = "tx",
           UNCHANGED <<storage, pc, mem, ghosts, budgets>>,
           tx' \in [entries : Snapshots, off : Nat, h : HeaderOrBad],
           tx'.off = tx.off,
           \A p \in Paths : tx'.entries[p] # NoEntry =>
                /\ tx.entries[p] # NoEntry
                /\ tx'.entries[p].chunk = tx.entries[p].chunk
                /\ tx'.entries[p].crc = tx.entries[p].crc
    PROVE  IInv'
<1>1. /\ pc' = "tx" /\ mem' = mem /\ acked' = acked /\ maybe' = maybe
      /\ crashes' = crashes /\ faults' = faults /\ UNCHANGED storage
      /\ log' = log /\ hdr' = hdr /\ dur' = dur /\ disk' = disk /\ dirty' = dirty
  BY DEF storage, ghosts, budgets
<1>2. Allowed' = Allowed
  BY <1>1 DEF Allowed
<1>3. RecordsGood' /\ SlotsGenuine' /\ Recoverable' /\ (Calm => Calm')
  BY <1>1, <1>2, FrameKeeps DEF IInv
<1>4. TypeOK'
  BY <1>1 DEF IInv, TypeOK
<1>5. AllowedKept'
  BY <1>1, <1>2 DEF IInv, AllowedKept, Kept
<1>6. OffsetInv'
  <2>1. KeptIn(log, (dur \cup dirty) \cap 1 .. tx.off, tx.entries)
    BY <1>1 DEF IInv, OffsetInv, InTx
  <2>2. KeptIn(log', (dur' \cup dirty') \cap 1 .. tx'.off, tx'.entries)
    BY <1>1, <2>1 DEF KeptIn
  <2> QED
    BY <1>1, <2>2 DEF IInv, OffsetInv, InTx
<1>7. HeaderInv' /\ RecordInv' /\ SlotInv'
  BY <1>1 DEF HeaderInv, RecordInv, SlotInv, Indexed, Synced1, Jnled, Synced2
<1>8. MemInv'
  BY <1>1 DEF IInv, MemInv, Persisting, Kept
<1>9. CalmInv'
  BY <1>1, <1>3 DEF IInv, CalmInv
<1> QED
  BY <1>3, <1>4, <1>5, <1>6, <1>7, <1>8, <1>9 DEF IInv

LEMMA TxRemoveInv ==
    ASSUME IInv, Assumed, NEW p \in Paths, TxRemove(p)
    PROVE  IInv'
<1>1. tx \in [entries : Snapshots, off : Nat, h : HeaderOrBad]
  BY DEF IInv, TypeOK
<1>2. tx' = [tx EXCEPT !.entries = [tx.entries EXCEPT ![p] = NoEntry]]
  BY <1>1 DEF TxRemove
<1>3. [tx.entries EXCEPT ![p] = NoEntry] \in Snapshots
  BY <1>1 DEF Snapshots
<1>4. /\ tx' \in [entries : Snapshots, off : Nat, h : HeaderOrBad]
      /\ tx'.off = tx.off
      /\ tx'.entries = [tx.entries EXCEPT ![p] = NoEntry]
  BY <1>1, <1>2, <1>3
<1>5. \A q \in Paths : tx'.entries[q] = IF q = p THEN NoEntry ELSE tx.entries[q]
  BY <1>1, <1>4 DEF Snapshots
<1> QED
  BY <1>4, <1>5, TxEditInv DEF TxRemove

LEMMA TxSetMetaInv ==
    ASSUME IInv, Assumed, NEW p \in Paths, NEW m \in Metas, TxSetMeta(p, m)
    PROVE  IInv'
<1> DEFINE e == [tx.entries[p] EXCEPT !.meta = m]
<1>1. tx \in [entries : Snapshots, off : Nat, h : HeaderOrBad]
  BY DEF IInv, TypeOK
<1>2. tx.entries[p] \in Entry
  BY <1>1 DEF TxSetMeta, Snapshots
<1>3. e \in Entry /\ e.chunk = tx.entries[p].chunk /\ e.crc = tx.entries[p].crc
  BY <1>2 DEF Entry
<1>4. tx' = [tx EXCEPT !.entries = [tx.entries EXCEPT ![p] = e]]
  BY <1>1 DEF TxSetMeta
<1> HIDE DEF e
<1>5. [tx.entries EXCEPT ![p] = e] \in Snapshots
  BY <1>1, <1>3 DEF Snapshots
<1>6. /\ tx' \in [entries : Snapshots, off : Nat, h : HeaderOrBad]
      /\ tx'.off = tx.off
      /\ tx'.entries = [tx.entries EXCEPT ![p] = e]
  BY <1>1, <1>4, <1>5
<1>7. \A q \in Paths : tx'.entries[q] = IF q = p THEN e ELSE tx.entries[q]
  BY <1>1, <1>6 DEF Snapshots
<1> QED
  BY <1>3, <1>6, <1>7, TxEditInv DEF TxSetMeta

LEMMA RollbackInv ==
    ASSUME IInv, Assumed, Rollback
    PROVE  IInv'
<1>1. /\ pc = "tx" /\ pc' = "open" /\ mem' = mem /\ acked' = acked /\ maybe' = maybe
      /\ crashes' = crashes /\ faults' = faults /\ UNCHANGED storage
      /\ log' = log /\ hdr' = hdr /\ dur' = dur /\ disk' = disk /\ dirty' = dirty
      /\ tx' = NoTx
  BY DEF Rollback, storage, ghosts, budgets
<1>2. Allowed' = Allowed
  BY <1>1 DEF Allowed
<1>3. RecordsGood' /\ SlotsGenuine' /\ Recoverable' /\ (Calm => Calm')
  BY <1>1, <1>2, FrameKeeps DEF IInv
<1>4. NoTx \in [entries : Snapshots, off : Nat, h : HeaderOrBad]
  BY BlobTypes DEF NoTx, HeaderOrBad
<1>5. TypeOK'
  BY <1>1, <1>4 DEF IInv, TypeOK, PCs
<1>6. AllowedKept'
  BY <1>1, <1>2 DEF IInv, AllowedKept, Kept
<1>7. MemInv'
  BY <1>1 DEF IInv, MemInv, Persisting, Kept
<1>8. CalmInv'
  BY <1>1, <1>3 DEF IInv, CalmInv
<1> QED
  BY <1>1, <1>3, <1>5, <1>6, <1>7, <1>8, IdleInv DEF IInv

LEMMA CloseInv ==
    ASSUME IInv, Assumed, Close
    PROVE  IInv'
<1>1. /\ pc = "open" /\ pc' = "down" /\ mem' = NoMem /\ acked' = acked
      /\ maybe' = maybe /\ tx' = tx
      /\ crashes' = crashes /\ faults' = faults /\ UNCHANGED storage
      /\ log' = log /\ hdr' = hdr /\ dur' = dur /\ disk' = disk /\ dirty' = dirty
  BY DEF Close, storage, ghosts, budgets
<1>2. Allowed' = Allowed
  BY <1>1 DEF Allowed
<1>3. RecordsGood' /\ SlotsGenuine' /\ Recoverable' /\ (SlotsClean => SlotsClean')
  BY <1>1, <1>2, FrameKeeps DEF IInv
<1>4. NoMem \in [header : HeaderOrBad, entries : Snapshots] /\ NoMem.header = Bad
  BY BlobTypes DEF NoMem, HeaderOrBad
<1>5. TypeOK'
  BY <1>1, <1>4 DEF IInv, TypeOK, PCs
<1>6. AllowedKept'
  BY <1>1, <1>2 DEF IInv, AllowedKept, Kept
<1>7. MemInv'
  BY <1>1 DEF MemInv, Persisting
<1>8. CalmInv'
  BY <1>1, <1>3 DEF IInv, CalmInv, Calm
<1> QED
  BY <1>1, <1>3, <1>5, <1>6, <1>7, <1>8, IdleInv DEF IInv

LEMMA PublishInv ==
    ASSUME IInv, Assumed, Publish
    PROVE  IInv'
<1>1. /\ pc = "publish" /\ pc' = "open"
      /\ mem' = [header |-> tx.h, entries |-> tx.entries]
      /\ acked' = tx.entries /\ maybe' = {} /\ tx' = NoTx
      /\ crashes' = crashes /\ faults' = faults /\ UNCHANGED storage
      /\ log' = log /\ hdr' = hdr /\ dur' = dur /\ disk' = disk /\ dirty' = dirty
  BY DEF Publish, storage, ghosts, budgets
<1>2. Allowed' = {tx.entries}
  BY <1>1 DEF Allowed
<1>3. /\ tx.h \in Header /\ tx.h.dirCrc.entries = tx.entries
      /\ Good(tx.h) /\ Kept(tx.entries) /\ SlotsClean /\ hdr["primary"] = tx.h
  BY <1>1 DEF IInv, HeaderInv, SlotInv, Indexed, Synced1, Jnled, Synced2
<1>4. RecordsGood' /\ SlotsGenuine'
  BY <1>1 DEF IInv, RecordsGood, IsRec, Good, SlotsGenuine, SlotValues
<1>5. Calm'
  BY <1>1, <1>2, <1>3 DEF Calm, SlotsClean, PrimaryGood, Good
<1>6. NoTx \in [entries : Snapshots, off : Nat, h : HeaderOrBad]
  BY BlobTypes DEF NoTx, HeaderOrBad
<1>7. /\ mem' \in [header : HeaderOrBad, entries : Snapshots]
      /\ mem'.header = tx.h /\ mem'.entries = tx.entries
  BY <1>1, <1>3 DEF IInv, TypeOK, HeaderOrBad
<1>9. TypeOK'
  BY <1>1, <1>6, <1>7 DEF IInv, TypeOK, PCs
<1>10. AllowedKept'
  BY <1>1, <1>2, <1>3 DEF AllowedKept, Kept
<1>11. MemInv'
  BY <1>1, <1>3, <1>7, KindFacts DEF MemInv, Persisting, Kept
<1>12. CalmInv'
  BY <1>1, <1>5 DEF CalmInv
<1> QED
  BY <1>1, <1>4, <1>5, <1>9, <1>10, <1>11, <1>12, IdleInv DEF IInv, Recoverable

----------------------------------------------------------------------------
(* Steps of the commit that write or sync the header slots.                *)

\* Once the records are durable the tail is good and the header to be written
\* is loadable and allowed.
LEMMA CommitTail ==
    ASSUME IInv, Assumed, pc \in Synced2
    PROVE  /\ TailGood
           /\ tx.h \in Header /\ Good(tx.h) /\ tx.h.dirCrc.entries \in Allowed
<1>1. /\ tx.h \in Header /\ Good(tx.h) /\ tx.h.dirCrc.entries = tx.entries
      /\ tx.entries \in maybe
  BY DEF IInv, HeaderInv, Indexed, Synced1, Jnled
<1>2. tx.entries \in Allowed
  BY <1>1 DEF Allowed
<1>3. /\ tx.off - 1 \in dur /\ tx.off \in dur
      /\ log[tx.off - 1].kind = "jnl" /\ log[tx.off - 1].hdr = tx.h
      /\ log[tx.off].kind = "bkp" /\ log[tx.off].hdr = tx.h
  BY DEF IInv, RecordInv
<1>4. /\ Len(log) = tx.off /\ tx.off \in Nat /\ DOMAIN log = 1 .. tx.off
  <2>1. pc \in InTx /\ pc # "tx"
    BY DEF InTx, Indexed, Synced1, Jnled, Synced2
  <2>2. Len(log) = tx.off
    BY <2>1 DEF IInv, OffsetInv
  <2> QED
    BY <2>2 DEF IInv, TypeOK
<1>5. Window \in Nat /\ Window >= 2
  BY FormatAssumption, CommitAssumption DEF Assumed
<1> DEFINE j == tx.off - 1
<1>6. j + 1 = tx.off /\ j > Len(log) - Window
  BY <1>4, <1>5
<1>7. \A i \in DOMAIN log : i >= j => i = j \/ i = tx.off
  BY <1>4
<1>8. \A i \in DOMAIN log : i >= j => log[i].hdr.dirCrc.entries \in Allowed
  BY <1>1, <1>2, <1>3, <1>7
<1> QED
  BY <1>1, <1>2, <1>3, <1>6, <1>8 DEF TailGood

\* What such a step keeps of the transaction.
LEMMA CommitFrame ==
    ASSUME IInv, pc \in Synced2, pc' \in Synced2,
           log' = log, dur \subseteq dur', dur' \subseteq 1 .. Len(log),
           mem' = mem, tx' = tx, acked' = acked, maybe' = maybe
    PROVE  AllowedKept' /\ OffsetInv' /\ HeaderInv' /\ RecordInv' /\ MemInv'
<1>1. Stable
  BY DEF Stable
<1>2. /\ \A h : Good(h) => GoodIn(log', dur', h)
      /\ \A es : Kept(es) => KeptIn(log', dur', es)
  BY <1>1, StableKeeps
<1>3. AllowedKept'
  BY <1>2 DEF IInv, AllowedKept, Kept, Allowed
<1>4. pc \in Indexed /\ pc \in Synced1 /\ pc \in Jnled /\ pc \in InTx /\ pc # "tx"
  BY DEF InTx, Indexed, Synced1, Jnled, Synced2
<1>5. /\ tx.h \in Header /\ tx.h.dirCrc.entries = tx.entries
      /\ tx.h.dirOff # 0 /\ tx.h.idxOff # 0
      /\ Good(tx.h) /\ Kept(tx.entries) /\ tx.entries \in maybe
  BY <1>4 DEF IInv, HeaderInv
<1>6. Len(log) = tx.off /\ tx.off \in Nat
  BY <1>4 DEF IInv, OffsetInv, TypeOK
<1>7. OffsetInv'
  <2>1. dur' \subseteq (dur' \cup dirty') \cap 1 .. tx.off
    BY <1>6
  <2>2. KeptIn(log', (dur' \cup dirty') \cap 1 .. tx.off, tx.entries)
    BY <1>2, <1>5, <2>1 DEF KeptIn
  <2>3. pc' \notin DOMAIN Pending
    BY DEF Pending, Synced2
  <2>4. tx.off <= Len(log) /\ Len(log) <= tx.off + 1 /\ \A i \in dur' : i <= tx.off
    BY <1>6
  <2> QED
    BY <1>6, <2>2, <2>3, <2>4 DEF OffsetInv
<1>8. HeaderInv'
  <2>1. GoodIn(log', dur' \cup dirty', tx.h)
    BY <1>2, <1>5 DEF GoodIn
  <2>2. pc' # "idx"
    BY DEF Synced2
  <2> QED
    BY <1>2, <1>5, <2>1, <2>2 DEF HeaderInv, Good, Kept
<1>9. RecordInv'
  BY DEF IInv, RecordInv, Synced2
<1>10. MemInv'
  BY <1>2, <1>4 DEF IInv, MemInv, Persisting, Kept, Synced2
<1> QED
  BY <1>3, <1>7, <1>8, <1>9, <1>10

\* If the records may go out of reach, nothing fails.
LEMMA FaultReach ==
    ASSUME Assumed, Fault, TypeOK
    PROVE  Window >= MaxLog
BY CommitAssumption DEF Assumed, Fault, TypeOK

LEMMA WriteBackupInv ==
    ASSUME IInv, Assumed, WriteBackup
    PROVE  IInv'
<1>1. /\ pc = "bak" /\ pc' = "sync3" /\ mem' = mem /\ tx' = tx
      /\ acked' = acked /\ maybe' = maybe /\ UNCHANGED ghosts
      /\ crashes' = crashes /\ faults' = faults /\ PutSlot("backup", tx.h)
  BY DEF WriteBackup, ghosts, budgets, Assumed
<1>2. /\ TailGood
      /\ tx.h \in Header /\ Good(tx.h) /\ tx.h.dirCrc.entries \in Allowed
  BY <1>1, CommitTail DEF Synced2
<1>3. /\ "backup" \in Slots /\ "primary" \in Slots \ {"backup"}
      /\ hdr["backup"] \in SlotValue /\ hdr \in [Slots -> SlotValue]
  BY DEF Slots, IInv, TypeOK
<1>4. tx.h \in Tears(hdr["backup"], tx.h)
  BY <1>2, <1>3, TearsSelf
<1>5. /\ hdr' \in [Slots -> SlotValue]
      /\ disk' \in [Slots -> SUBSET SlotValue]
      /\ log' = log /\ dur' = dur /\ dirty' = dirty \cup {0}
      /\ hdr'["backup"] = tx.h
      /\ RecordsGood' /\ SlotsGenuine' /\ TailGood'
      /\ \A r \in Slots : SafeSlot(r) => SafeSlot(r)'
      /\ hdr'["primary"] = hdr["primary"] /\ disk'["primary"] = disk["primary"]
  BY <1>1, <1>2, <1>3, <1>4, PutSlotKeeps DEF IInv
<1>6. TypeOK'
  BY <1>1, <1>5 DEF IInv, TypeOK, PCs
<1>7. Recoverable'
  <2>1. PrimaryGood => PrimaryGood'
    BY <1>1, <1>5 DEF PrimaryGood, Good, Allowed
  <2>2. CASE Calm \/ Covered
    <3>1. disk["primary"] = {hdr["primary"]} /\ PrimaryGood
      BY <2>2 DEF Calm, Covered, SlotsClean, Slots
    <3> QED
      BY <1>5, <2>1, <3>1 DEF Recoverable, Covered
  <2>3. CASE Fallback
    BY <1>5, <2>3 DEF Recoverable, Fallback, Slots
  <2> QED
    BY <2>2, <2>3 DEF IInv, Recoverable
<1>8. AllowedKept' /\ OffsetInv' /\ HeaderInv' /\ RecordInv' /\ MemInv'
  <2>1. pc \in Synced2 /\ pc' \in Synced2 /\ dur' \subseteq 1 .. Len(log)
    BY <1>1, <1>5 DEF Synced2, IInv, TypeOK
  <2> QED
    BY <1>1, <1>5, <2>1, CommitFrame
<1>9. SlotInv' /\ CalmInv'
  BY <1>1, <1>5 DEF SlotInv, CalmInv
<1> QED
  BY <1>5, <1>6, <1>7, <1>8, <1>9 DEF IInv

\* A primary that is good and not in flight is safe to tear.
LEMMA PrimSafe ==
    ASSUME IInv, Assumed, pc = "prim"
    PROVE  Fallback
<1>1. /\ TailGood
      /\ tx.h \in Header /\ Good(tx.h) /\ tx.h.dirCrc.entries \in Allowed
  BY CommitTail DEF Synced2
<1>2. SlotValues("backup") = {tx.h}
  BY DEF IInv, SlotInv
<1>3. SafeSlot("backup")
  BY <1>1, <1>2 DEF SafeSlot, Good, GoodIn
<1>4. CASE Calm \/ Covered
  <2>1. SlotValues("primary") = {hdr["primary"]} /\ PrimaryGood
    BY <1>4 DEF Calm, Covered, SlotsClean, Slots, SlotValues
  <2>2. SafeSlot("primary")
    BY <2>1 DEF SafeSlot, PrimaryGood, Good, GoodIn
  <2> QED
    BY <1>1, <1>3, <2>2 DEF Fallback
<1> QED
  BY <1>4 DEF IInv, Recoverable

LEMMA WritePrimaryInv ==
    ASSUME IInv, Assumed, WritePrimary
    PROVE  IInv'
<1>1. /\ pc = "prim" /\ pc' = "sync4" /\ mem' = mem /\ tx' = tx
      /\ acked' = acked /\ maybe' = maybe /\ UNCHANGED ghosts
      /\ crashes' = crashes /\ faults' = faults /\ PutSlot("primary", tx.h)
  BY DEF WritePrimary, ghosts, budgets, Assumed
<1>2. tx.h \in Header /\ Good(tx.h) /\ tx.h.dirCrc.entries \in Allowed
  BY <1>1, CommitTail DEF Synced2
<1>3. "primary" \in Slots /\ hdr["primary"] \in SlotValue
  BY DEF Slots, IInv, TypeOK
<1>4. tx.h \in Tears(hdr["primary"], tx.h)
  BY <1>2, <1>3, TearsSelf
<1>5. /\ hdr' \in [Slots -> SlotValue]
      /\ disk' \in [Slots -> SUBSET SlotValue]
      /\ log' = log /\ dur' = dur /\ dirty' = dirty \cup {0}
      /\ hdr'["primary"] = tx.h
      /\ RecordsGood' /\ SlotsGenuine' /\ (TailGood => TailGood')
      /\ \A r \in Slots : SafeSlot(r) => SafeSlot(r)'
  BY <1>1, <1>2, <1>3, <1>4, PutSlotKeeps DEF IInv
<1>6. TypeOK'
  BY <1>1, <1>5 DEF IInv, TypeOK, PCs
<1>7. Recoverable'
  BY <1>1, <1>5, PrimSafe DEF Recoverable, Fallback, Slots
<1>8. AllowedKept' /\ OffsetInv' /\ HeaderInv' /\ RecordInv' /\ MemInv'
  <2>1. pc \in Synced2 /\ pc' \in Synced2 /\ dur' \subseteq 1 .. Len(log)
    BY <1>1, <1>5 DEF Synced2, IInv, TypeOK
  <2> QED
    BY <1>1, <1>5, <2>1, CommitFrame
<1>9. SlotInv' /\ CalmInv'
  BY <1>1, <1>5 DEF SlotInv, CalmInv
<1> QED
  BY <1>5, <1>6, <1>7, <1>8, <1>9 DEF IInv

\* A commit that fails leaves the handle as it was.
LEMMA FailInv ==
    ASSUME IInv, Assumed, pc \in InTx, pc' = "open", Fault, tx' = NoTx, mem' = mem,
           acked' = acked, maybe' = maybe, log' = log, dur' = dur,
           hdr' \in [Slots -> SlotValue],
           disk' \in [Slots -> SUBSET SlotValue],
           dirty' \subseteq 0 .. Len(log),
           RecordsGood', SlotsGenuine', Recoverable'
    PROVE  IInv'
<1>1. crashes' = crashes /\ faults < MaxFaults /\ faults' = faults + 1
  BY DEF Fault
<1>2. NoTx \in [entries : Snapshots, off : Nat, h : HeaderOrBad]
  BY BlobTypes DEF NoTx, HeaderOrBad
<1>3. faults' \in 0 .. MaxFaults
  BY <1>1, CommitAssumption DEF IInv, TypeOK
<1>4. TypeOK'
  BY <1>1, <1>2, <1>3 DEF IInv, TypeOK, PCs
<1>5. AllowedKept'
  BY DEF IInv, AllowedKept, Kept, Allowed
<1>6. MemInv'
  <2>1. mem.header # Bad /\ Kept(mem.entries)
    BY DEF IInv, MemInv, InTx, Indexed, Synced1, Jnled, Synced2
  <2> QED
    BY <2>1 DEF MemInv, Persisting, Kept
<1>7. CalmInv'
  <2>1. Window >= MaxLog
    BY FaultReach DEF IInv
  <2> QED
    BY <2>1, FormatAssumption, CommitAssumption DEF CalmInv
<1> QED
  BY <1>4, <1>5, <1>6, <1>7, IdleInv DEF IInv

LEMMA WriteBackupFailsInv ==
    ASSUME IInv, Assumed, WriteBackupFails
    PROVE  IInv'
<1>1. /\ pc = "bak" /\ pc' = "open" /\ mem' = mem /\ tx' = NoTx
      /\ acked' = acked /\ maybe' = maybe /\ UNCHANGED ghosts /\ Fault
  BY DEF WriteBackupFails, CommitFails, ghosts
<1>2. PICK w \in Tears(hdr["backup"], tx.h) : PutSlot("backup", w)
  BY DEF WriteBackupFails, CommitFails
<1>3. /\ TailGood
      /\ tx.h \in Header /\ Good(tx.h) /\ tx.h.dirCrc.entries \in Allowed
  BY <1>1, CommitTail DEF Synced2
<1>4. "backup" \in Slots /\ "primary" \in Slots \ {"backup"}
  BY DEF Slots
<1>5. /\ hdr' \in [Slots -> SlotValue]
      /\ disk' \in [Slots -> SUBSET SlotValue]
      /\ log' = log /\ dur' = dur /\ dirty' = dirty \cup {0}
      /\ RecordsGood' /\ SlotsGenuine' /\ TailGood'
      /\ \A r \in Slots : SafeSlot(r) => SafeSlot(r)'
      /\ hdr'["primary"] = hdr["primary"] /\ disk'["primary"] = disk["primary"]
  BY <1>1, <1>2, <1>3, <1>4, PutSlotKeeps DEF IInv
<1>6. Recoverable'
  <2>1. PrimaryGood => PrimaryGood'
    BY <1>1, <1>5 DEF PrimaryGood, Good, Allowed
  <2>2. CASE Calm \/ Covered
    <3>1. disk["primary"] = {hdr["primary"]} /\ PrimaryGood
      BY <2>2 DEF Calm, Covered, SlotsClean, Slots
    <3> QED
      BY <1>5, <2>1, <3>1 DEF Recoverable, Covered
  <2>3. CASE Fallback
    BY <1>5, <2>3 DEF Recoverable, Fallback, Slots
  <2> QED
    BY <2>2, <2>3 DEF IInv, Recoverable
<1>7. pc \in InTx /\ dirty' \subseteq 0 .. Len(log)
  BY <1>1, <1>5 DEF InTx, Indexed, Synced1, Jnled, Synced2, IInv, TypeOK
<1> QED
  BY <1>1, <1>5, <1>6, <1>7, FailInv

LEMMA WritePrimaryFailsInv ==
    ASSUME IInv, Assumed, WritePrimaryFails
    PROVE  IInv'
<1>1. /\ pc = "prim" /\ pc' = "open" /\ mem' = mem /\ tx' = NoTx
      /\ acked' = acked /\ maybe' = maybe /\ UNCHANGED ghosts /\ Fault
  BY DEF WritePrimaryFails, CommitFails, ghosts
<1>2. PICK w \in Tears(hdr["primary"], tx.h) : PutSlot("primary", w)
  BY DEF WritePrimaryFails, CommitFails
<1>3. tx.h \in Header /\ Good(tx.h) /\ tx.h.dirCrc.entries \in Allowed
  BY <1>1, CommitTail DEF Synced2
<1>4. "primary" \in Slots
  BY DEF Slots
<1>5. /\ hdr' \in [Slots -> SlotValue]
      /\ disk' \in [Slots -> SUBSET SlotValue]
      /\ log' = log /\ dur' = dur /\ dirty' = dirty \cup {0}
      /\ RecordsGood' /\ SlotsGenuine' /\ (TailGood => TailGood')
      /\ \A r \in Slots : SafeSlot(r) => SafeSlot(r)'
  BY <1>1, <1>2, <1>3, <1>4, PutSlotKeeps DEF IInv
<1>6. Recoverable'
  BY <1>1, <1>5, PrimSafe DEF Recoverable, Fallback, Slots
<1>7. pc \in InTx /\ dirty' \subseteq 0 .. Len(log)
  BY <1>1, <1>5 DEF InTx, Indexed, Synced1, Jnled, Synced2, IInv, TypeOK
<1> QED
  BY <1>1, <1>5, <1>6, <1>7, FailInv

LEMMA SyncFailsInv ==
    ASSUME IInv, Assumed, SyncFails
    PROVE  IInv'
<1>1. /\ pc \in {"sync1", "sync2", "sync3", "sync4"} /\ pc' = "open" /\ mem' = mem
      /\ tx' = NoTx /\ acked' = acked /\ maybe' = maybe /\ Fault /\ FlushFail
  BY DEF SyncFails, CommitFails, ghosts, AfterSync
<1>2. /\ UNCHANGED <<log, hdr, dur, disk>> /\ dirty' \in {dirty, {}}
  BY <1>1 DEF FlushFail
<1>3. RecordsGood' /\ SlotsGenuine' /\ Recoverable'
  BY <1>1, <1>2, FrameKeeps DEF IInv, Allowed
<1>4. pc \in InTx /\ dirty' \subseteq 0 .. Len(log)
  BY <1>1, <1>2 DEF InTx, Indexed, Synced1, Jnled, Synced2, IInv, TypeOK
<1> QED
  BY <1>1, <1>2, <1>3, <1>4, FailInv DEF IInv, TypeOK

LEMMA SyncInv ==
    ASSUME IInv, Assumed, Sync
    PROVE  IInv'
<1>1. /\ pc \in {"sync1", "sync2", "sync3", "sync4"} /\ pc' = AfterSync[pc]
      /\ mem' = mem /\ tx' = tx /\ acked' = acked /\ maybe' = maybe
      /\ crashes' = crashes /\ faults' = faults /\ Flush
  BY DEF Sync, ghosts, budgets, AfterSync
<1>2. Allowed' = Allowed
  BY <1>1 DEF Allowed
<1>3. /\ disk' \in [Slots -> SUBSET SlotValue]
      /\ log' = log /\ hdr' = hdr /\ dirty' = {}
      /\ dur' = dur \cup (dirty \ {0}) /\ dur' \subseteq 1 .. Len(log)
      /\ Stable /\ (0 \in dirty => SlotsClean')
      /\ RecordsGood' /\ SlotsGenuine' /\ Recoverable' /\ (Calm => Calm')
  BY <1>1, <1>2, FlushKeeps DEF IInv
<1>4. /\ \A h : Good(h) => GoodIn(log', dur', h)
      /\ \A es : Kept(es) => KeptIn(log', dur', es)
  BY <1>3, StableKeeps
<1>5. pc' \in {"jnl", "bak", "prim", "publish"}
  BY <1>1 DEF AfterSync
<1>6. TypeOK'
  BY <1>1, <1>3, <1>5 DEF IInv, TypeOK, PCs
<1>7. AllowedKept'
  BY <1>2, <1>4 DEF IInv, AllowedKept, Kept
<1>8. pc \in InTx /\ pc # "tx" /\ pc \in Indexed
  BY <1>1 DEF InTx, Indexed, Synced1, Jnled, Synced2
<1>9. /\ Len(log) = tx.off /\ tx.off \in Nat
      /\ KeptIn(log, (dur \cup dirty) \cap 1 .. tx.off, tx.entries)
  BY <1>8 DEF IInv, OffsetInv, TypeOK
<1>10. (dur \cup dirty) \cap 1 .. tx.off \subseteq dur'
  BY <1>3
<1>11. KeptIn(log', dur', tx'.entries)
  BY <1>1, <1>3, <1>9, <1>10 DEF KeptIn
<1>12. KeptIn(log', (dur' \cup dirty') \cap 1 .. tx'.off, tx'.entries)
  <2>1. dur' \subseteq (dur' \cup dirty') \cap 1 .. tx'.off
    BY <1>1, <1>3, <1>9
  <2> QED
    BY <1>11, <2>1 DEF KeptIn
<1>13. /\ tx.h \in Header /\ tx.h.dirCrc.entries = tx.entries
       /\ GoodIn(log, dur \cup dirty, tx.h)
       /\ tx.h.dirOff # 0 /\ tx.h.idxOff # 0
  BY <1>8 DEF IInv, HeaderInv
<1>14. GoodIn(log', dur', tx'.h) /\ GoodIn(log', dur' \cup dirty', tx'.h)
  <2>1. \A i \in dur \cup dirty : i # 0 => i \in dur'
    BY <1>3
  <2> QED
    BY <1>1, <1>3, <1>13, <2>1 DEF GoodIn
<1>15. OffsetInv'
  <2>1. /\ tx'.off <= Len(log') /\ Len(log') <= tx'.off + 1
        /\ Len(log') = tx'.off /\ \A i \in dur' : i <= tx'.off
    BY <1>1, <1>3, <1>9
  <2>2. pc' \in DOMAIN Pending => pc = "sync1" /\ pc' = "jnl"
    BY <1>1 DEF AfterSync, Pending
  <2>3. pc = "sync1" => tx.off + 2 <= MaxLog
    BY DEF IInv, OffsetInv, Pending
  <2>4. pc' \in DOMAIN Pending => tx'.off + Pending[pc'] <= MaxLog
    BY <1>1, <2>2, <2>3 DEF Pending
  <2> QED
    BY <1>12, <2>1, <2>4 DEF OffsetInv
<1>16. HeaderInv'
  <2>1. pc' # "idx"
    BY <1>5
  <2>2. pc' \in Jnled => tx'.entries \in maybe'
    BY <1>1 DEF IInv, HeaderInv, Jnled, Synced2, AfterSync
  <2> QED
    BY <1>1, <1>11, <1>13, <1>14, <2>1, <2>2 DEF HeaderInv, Good, Kept
<1>17. RecordInv'
  <2>1. CASE pc = "sync1"
    BY <1>1, <2>1 DEF RecordInv, AfterSync, Synced2
  <2>2. CASE pc # "sync1"
    <3>1. /\ tx.off - 1 \in dur \cup dirty /\ tx.off \in dur \cup dirty
          /\ tx.off - 1 >= 1
          /\ log[tx.off - 1].kind = "jnl" /\ log[tx.off - 1].hdr = tx.h
          /\ log[tx.off].kind = "bkp" /\ log[tx.off].hdr = tx.h
      BY <1>1, <2>2 DEF IInv, RecordInv, Synced2
    <3>2. tx.off - 1 # 0 /\ tx.off # 0
      BY <1>9, <3>1
    <3>3. tx.off - 1 \in dur' /\ tx.off \in dur'
      BY <1>3, <3>1, <3>2
    <3> QED
      BY <1>1, <1>3, <1>5, <3>1, <3>3 DEF RecordInv
  <2> QED
    BY <2>1, <2>2
<1>18. SlotInv'
  <2>1. CASE pc = "sync3"
    <3>1. SlotsClean' /\ hdr'["backup"] = tx'.h /\ pc' = "prim"
      BY <1>1, <1>3, <2>1 DEF IInv, SlotInv, AfterSync
    <3> QED
      BY <3>1 DEF SlotInv, SlotsClean, SlotValues, Slots
  <2>2. CASE pc = "sync4"
    <3>1. SlotsClean' /\ hdr'["primary"] = tx'.h /\ pc' = "publish"
      BY <1>1, <1>3, <2>2 DEF IInv, SlotInv, AfterSync
    <3> QED
      BY <3>1 DEF SlotInv
  <2>3. CASE pc \in {"sync1", "sync2"}
    BY <1>1, <2>3 DEF SlotInv, AfterSync
  <2> QED
    BY <1>1, <2>1, <2>2, <2>3
<1>19. MemInv'
  BY <1>1, <1>4, <1>5 DEF IInv, MemInv, Persisting, Kept
<1>20. CalmInv'
  <2>1. pc' \in {"jnl", "bak"} => pc \in {"sync1", "sync2"}
    BY <1>1 DEF AfterSync
  <2> QED
    BY <1>3, <1>5, <2>1 DEF IInv, CalmInv
<1> QED
  BY <1>3, <1>6, <1>7, <1>15, <1>16, <1>17, <1>18, <1>19, <1>20 DEF IInv

----------------------------------------------------------------------------
(* Open and the header it writes back.                                     *)

\* What Open hands over, whichever the source.
LEMMA OpenedFacts ==
    ASSUME IInv, Assumed, NEW src, Opened(src)
    PROVE  /\ pc = "down" /\ UNCHANGED storage
           /\ log' = log /\ hdr' = hdr /\ dur' = dur /\ disk' = disk /\ dirty' = dirty
           /\ tx' = tx /\ crashes' = crashes /\ faults' = faults
           /\ mem' \in [header : HeaderOrBad, entries : Snapshots]
           /\ mem'.header \in Header /\ mem'.entries = mem'.header.dirCrc.entries
           /\ Good(mem'.header) /\ mem'.entries \in Allowed /\ Kept(mem'.entries)
           /\ src \in {"primary", "backup", "tail"}
           /\ src = "primary" => mem'.header = hdr["primary"]
           /\ src # "primary" => Fallback
<1>1. /\ pc = "down" /\ UNCHANGED storage /\ tx' = tx
      /\ crashes' = crashes /\ faults' = faults
  BY DEF Opened, budgets
<1>2. PICK o \in OpenFrom(log, hdr) :
        /\ o.src = src
        /\ mem' = [header |-> o.header, entries |-> o.header.dirCrc.entries]
  BY DEF Opened
<1>3. /\ o.header \in Header
      /\ Good(o.header)
      /\ o.header.dirCrc.entries \in Allowed
      /\ o.src \in {"primary", "backup", "tail"}
      /\ o.src = "primary" => o.header = hdr["primary"]
      /\ o.src # "primary" => Fallback
  BY <1>2, OpenFinds DEF IInv
<1>4. o.header.dirCrc.entries \in Snapshots
  BY <1>3 DEF Header, HeaderOf, DirRec
<1>5. Kept(o.header.dirCrc.entries)
  BY <1>3 DEF IInv, AllowedKept
<1>6. mem'.header = o.header /\ mem'.entries = o.header.dirCrc.entries
  BY <1>2
<1>7. mem' \in [header : HeaderOrBad, entries : Snapshots]
  BY <1>2, <1>3, <1>4 DEF HeaderOrBad
<1> QED
  BY <1>1, <1>2, <1>3, <1>5, <1>6, <1>7 DEF storage

\* A state in which only the opened snapshot is left and the primary holds it.
LEMMA SettledCalm ==
    ASSUME TypeOK, RecordsGood, NEW h, hdr'["primary"] = h, SlotsClean',
           acked' = h.dirCrc.entries, maybe' = {}, GoodIn(log', dur', h)
    PROVE  Calm' /\ Allowed' = {h.dirCrc.entries}
<1>1. Allowed' = {h.dirCrc.entries}
  BY DEF Allowed
<1> QED
  BY <1>1 DEF Calm, PrimaryGood, Good

LEMMA OpenPrimaryInv ==
    ASSUME IInv, Assumed, OpenPrimary
    PROVE  IInv'
<1>1. /\ pc = "down" /\ UNCHANGED storage
      /\ log' = log /\ hdr' = hdr /\ dur' = dur /\ disk' = disk /\ dirty' = dirty
      /\ tx' = tx /\ crashes' = crashes /\ faults' = faults
      /\ mem' \in [header : HeaderOrBad, entries : Snapshots]
      /\ mem'.header \in Header /\ mem'.entries = mem'.header.dirCrc.entries
      /\ Good(mem'.header) /\ mem'.entries \in Allowed /\ Kept(mem'.entries)
      /\ mem'.header = hdr["primary"]
  BY OpenedFacts DEF OpenPrimary
<1>2. pc' = "open"
  BY DEF OpenPrimary
<1>3. MemInv'
  BY <1>1, <1>2, KindFacts DEF MemInv, Persisting, Kept
<1>4. CASE SlotsClean
  <2>1. acked' = mem'.entries /\ maybe' = {}
    BY <1>4 DEF OpenPrimary, Settle
  <2>2. SlotsClean' /\ GoodIn(log', dur', mem'.header)
    BY <1>1, <1>4 DEF SlotsClean, Good
  <2>3. Calm' /\ Allowed' = {mem'.entries}
    BY <1>1, <2>1, <2>2, SettledCalm DEF IInv
  <2>4. RecordsGood' /\ SlotsGenuine'
    BY <1>1 DEF IInv, RecordsGood, IsRec, Good, SlotsGenuine, SlotValues
  <2>5. TypeOK'
    BY <1>1, <1>2, <2>1 DEF IInv, TypeOK, PCs
  <2>6. AllowedKept'
    BY <1>1, <2>3 DEF AllowedKept, Kept
  <2>7. CalmInv'
    BY <1>2, <2>3 DEF CalmInv
  <2> QED
    BY <1>2, <1>3, <2>3, <2>4, <2>5, <2>6, <2>7, IdleInv DEF IInv, Recoverable
<1>5. CASE ~SlotsClean
  <2>1. acked' = acked /\ maybe' = maybe
    BY <1>5 DEF OpenPrimary, ghosts
  <2>2. Allowed' = Allowed
    BY <2>1 DEF Allowed
  <2>3. RecordsGood' /\ SlotsGenuine' /\ Recoverable'
    BY <1>1, <2>2, FrameKeeps DEF IInv
  <2>4. TypeOK'
    BY <1>1, <1>2, <2>1 DEF IInv, TypeOK, PCs
  <2>5. AllowedKept'
    BY <1>1, <2>2 DEF IInv, AllowedKept, Kept
  <2>6. CalmInv'
    BY <1>1, <1>2, <1>5 DEF IInv, CalmInv
  <2> QED
    BY <1>2, <1>3, <2>3, <2>4, <2>5, <2>6, IdleInv DEF IInv
<1> QED
  BY <1>4, <1>5

LEMMA OpenRecoveredInv ==
    ASSUME IInv, Assumed, OpenRecovered
    PROVE  IInv'
<1>1. /\ pc = "down" /\ UNCHANGED storage
      /\ log' = log /\ hdr' = hdr /\ dur' = dur /\ disk' = disk /\ dirty' = dirty
      /\ tx' = tx /\ crashes' = crashes /\ faults' = faults
      /\ mem' \in [header : HeaderOrBad, entries : Snapshots]
      /\ mem'.header \in Header /\ mem'.entries = mem'.header.dirCrc.entries
      /\ Good(mem'.header) /\ mem'.entries \in Allowed /\ Kept(mem'.entries)
      /\ Fallback
  BY OpenedFacts DEF OpenRecovered
<1>2. pc' = "pprim" /\ acked' = acked /\ maybe' = maybe
  BY DEF OpenRecovered, ghosts
<1>3. Allowed' = Allowed
  BY <1>2 DEF Allowed
<1>4. RecordsGood' /\ SlotsGenuine' /\ Recoverable' /\ Fallback'
  BY <1>1, <1>3, FrameKeeps DEF IInv
<1>5. TypeOK'
  BY <1>1, <1>2 DEF IInv, TypeOK, PCs
<1>6. AllowedKept'
  BY <1>1, <1>3 DEF IInv, AllowedKept, Kept
<1>7. MemInv'
  BY <1>1, <1>2, <1>3, <1>4, KindFacts DEF MemInv, Kept, Good
<1>8. CalmInv'
  BY <1>2 DEF CalmInv
<1> QED
  BY <1>2, <1>4, <1>5, <1>6, <1>7, <1>8, IdleInv DEF IInv, Persisting

\* With the tail in reach Open never scans for directories.
LEMMA NoScan ==
    ASSUME IInv, Assumed
    PROVE  ~OpenScan
<1> SUFFICES ASSUME OpenScan PROVE FALSE
  OBVIOUS
<1>1. Opened("scan")
  BY DEF OpenScan
<1> QED
  BY <1>1, OpenedFacts

LEMMA PersistSlotInv ==
    ASSUME IInv, Assumed, NEW at, NEW s \in Slots, NEW next, PersistSlot(at, s, next),
           at \in Persisting, next \in {"pbak", "psync"},
           at = "pprim" => s = "primary", at # "pprim" => at = "pbak" /\ s = "backup"
    PROVE  IInv'
<1>1. /\ pc = at /\ pc' = next /\ mem' = mem /\ tx' = tx
      /\ acked' = acked /\ maybe' = maybe /\ UNCHANGED ghosts
  BY DEF PersistSlot, ghosts
<1>2. Allowed' = Allowed
  BY <1>1 DEF Allowed
<1>3. /\ Fallback /\ mem.header \in Header /\ Good(mem.header)
      /\ mem.entries = mem.header.dirCrc.entries /\ mem.entries \in Allowed
      /\ Kept(mem.entries)
  BY <1>1 DEF IInv, MemInv, TypeOK, HeaderOrBad, Persisting
<1>4. mem.header \in Tears(hdr[s], mem.header)
  BY <1>3, TearsSelf DEF IInv, TypeOK
<1>5. PICK w \in Tears(hdr[s], mem.header) :
        /\ PutSlot(s, w)
        /\ \/ w = mem.header /\ crashes' = crashes /\ faults' = faults
           \/ Fault
  BY <1>4 DEF PersistSlot, budgets
<1>6. /\ hdr' \in [Slots -> SlotValue]
      /\ disk' \in [Slots -> SUBSET SlotValue]
      /\ log' = log /\ dur' = dur /\ dirty' = dirty \cup {0}
      /\ hdr'[s] = w
      /\ RecordsGood' /\ SlotsGenuine' /\ (TailGood => TailGood')
      /\ \A r \in Slots : SafeSlot(r) => SafeSlot(r)'
      /\ \A r \in Slots \ {s} : hdr'[r] = hdr[r] /\ disk'[r] = disk[r]
  BY <1>1, <1>3, <1>5, PutSlotKeeps DEF IInv
<1>7. crashes' \in 0 .. MaxCrashes /\ faults' \in 0 .. MaxFaults
  BY <1>5, CommitAssumption DEF Fault, IInv, TypeOK
<1>8. TypeOK'
  <2>1. dirty' \subseteq 0 .. Len(log')
    BY <1>6 DEF IInv, TypeOK
  <2> QED
    BY <1>1, <1>6, <1>7, <2>1 DEF IInv, TypeOK, PCs
<1>9. Fallback'
  BY <1>3, <1>6 DEF Fallback, Slots
<1>10. AllowedKept'
  BY <1>2, <1>6 DEF IInv, AllowedKept, Kept
<1>11. MemInv'
  BY <1>1, <1>2, <1>3, <1>6, <1>9, KindFacts DEF MemInv, Persisting, Kept, Good
<1>12. CalmInv'
  <2>1. CASE Window >= MaxLog
    BY <2>1, FormatAssumption, CommitAssumption DEF CalmInv
  <2>2. CASE Window < MaxLog
    <3>1. w = mem.header
      <4>1. ~Fault
        BY <2>2, FaultReach, FormatAssumption, CommitAssumption DEF IInv
      <4> QED
        BY <1>5, <4>1
    <3>2. hdr'["primary"] = mem.header
      <4>1. CASE s = "primary"
        BY <1>6, <3>1, <4>1
      <4>2. CASE s # "primary"
        <5>1. pc = "pbak" /\ "primary" \in Slots \ {s}
          BY <1>1, <4>2 DEF Slots
        <5>2. hdr["primary"] = mem.header
          BY <2>2, <5>1 DEF IInv, CalmInv
        <5> QED
          BY <1>6, <5>1, <5>2
      <4> QED
        BY <4>1, <4>2
    <3> QED
      BY <1>1, <3>2 DEF CalmInv
  <2> QED
    BY <2>1, <2>2, FormatAssumption, CommitAssumption
<1> QED
  BY <1>1, <1>6, <1>8, <1>9, <1>10, <1>11, <1>12, IdleInv
  DEF IInv, Recoverable, Persisting

LEMMA PersistPrimaryInv ==
    ASSUME IInv, Assumed, PersistPrimary
    PROVE  IInv'
BY PersistSlotInv DEF PersistPrimary, Persisting, Slots

LEMMA PersistBackupInv ==
    ASSUME IInv, Assumed, PersistBackup
    PROVE  IInv'
BY PersistSlotInv DEF PersistBackup, Persisting, Slots

LEMMA PersistSkipInv ==
    ASSUME IInv, Assumed, PersistSkip
    PROVE  IInv'
<1>1. /\ pc = "pprim" /\ pc' = "open" /\ mem' = mem /\ tx' = tx
      /\ acked' = acked /\ maybe' = maybe /\ UNCHANGED storage /\ Fault
      /\ log' = log /\ hdr' = hdr /\ dur' = dur /\ disk' = disk /\ dirty' = dirty
      /\ crashes' = crashes /\ faults < MaxFaults /\ faults' = faults + 1
  BY DEF PersistSkip, ghosts, storage, Fault
<1>2. Allowed' = Allowed
  BY <1>1 DEF Allowed
<1>3. RecordsGood' /\ SlotsGenuine' /\ Recoverable'
  BY <1>1, <1>2, FrameKeeps DEF IInv
<1>4. faults' \in 0 .. MaxFaults
  BY <1>1, CommitAssumption DEF IInv, TypeOK
<1>5. TypeOK'
  BY <1>1, <1>4 DEF IInv, TypeOK, PCs
<1>6. AllowedKept'
  BY <1>1, <1>2 DEF IInv, AllowedKept, Kept
<1>7. MemInv'
  BY <1>1 DEF IInv, MemInv, Persisting, Kept
<1>8. CalmInv'
  BY <1>1, FaultReach, FormatAssumption, CommitAssumption DEF IInv, CalmInv
<1> QED
  BY <1>1, <1>3, <1>5, <1>6, <1>7, <1>8, IdleInv DEF IInv

LEMMA PersistSyncInv ==
    ASSUME IInv, Assumed, PersistSync
    PROVE  IInv'
<1>1. pc = "psync" /\ pc' = "open" /\ mem' = mem /\ tx' = tx
  BY DEF PersistSync
<1>2. /\ Fallback /\ mem.header \in Header /\ Good(mem.header) /\ 0 \in dirty
      /\ mem.entries = mem.header.dirCrc.entries /\ mem.entries \in Allowed
      /\ Kept(mem.entries) /\ mem.entries \in Snapshots
  BY <1>1 DEF IInv, MemInv, TypeOK, HeaderOrBad, Persisting
<1>3. CASE Fault /\ FlushFail /\ UNCHANGED ghosts
  <2>1. /\ UNCHANGED <<log, hdr, dur, disk>> /\ dirty' \in {dirty, {}}
        /\ acked' = acked /\ maybe' = maybe
        /\ crashes' = crashes /\ faults < MaxFaults /\ faults' = faults + 1
    BY <1>3 DEF FlushFail, ghosts, Fault
  <2>2. Allowed' = Allowed
    BY <2>1 DEF Allowed
  <2>3. RecordsGood' /\ SlotsGenuine' /\ Recoverable'
    BY <2>1, <2>2, FrameKeeps DEF IInv
  <2>4. faults' \in 0 .. MaxFaults
    BY <2>1, CommitAssumption DEF IInv, TypeOK
  <2>5. TypeOK'
    BY <1>1, <2>1, <2>4 DEF IInv, TypeOK, PCs
  <2>6. AllowedKept'
    BY <2>1, <2>2 DEF IInv, AllowedKept, Kept
  <2>7. MemInv'
    BY <1>1, <1>2, <2>1, KindFacts DEF MemInv, Persisting, Kept
  <2>8. CalmInv'
    BY <1>3, FaultReach, FormatAssumption, CommitAssumption DEF IInv, CalmInv
  <2> QED
    BY <1>1, <2>3, <2>5, <2>6, <2>7, <2>8, IdleInv DEF IInv
<1>4. CASE /\ Flush
           /\ IF hdr["primary"] = mem.header THEN Settle(mem.entries)
                                              ELSE UNCHANGED ghosts
           /\ UNCHANGED budgets
  <2>1. /\ log' = log /\ hdr' = hdr /\ dirty' = {}
        /\ dur' = dur \cup (dirty \ {0})
        /\ disk' = IF 0 \in dirty THEN [s \in Slots |-> {hdr[s]}] ELSE disk
        /\ crashes' = crashes /\ faults' = faults
    BY <1>4 DEF Flush, budgets
  <2>2. /\ disk' \in [Slots -> SUBSET SlotValue] /\ SlotsClean'
        /\ dur' \subseteq 1 .. Len(log) /\ Stable
    BY <1>2, <2>1 DEF IInv, TypeOK, SlotsClean, Stable
  <2>3. /\ \A h : Good(h) => GoodIn(log', dur', h)
        /\ \A es : Kept(es) => KeptIn(log', dur', es)
    BY <2>2, StableKeeps
  <2>4. MemInv'
    BY <1>1, <1>2, <2>3, KindFacts DEF MemInv, Persisting, Kept
  <2>5. CASE hdr["primary"] = mem.header
    <3>1. acked' = mem.header.dirCrc.entries /\ maybe' = {}
      BY <1>2, <1>4, <2>5 DEF Settle
    <3>2. hdr'["primary"] = mem.header /\ GoodIn(log', dur', mem.header)
      BY <1>2, <2>1, <2>3, <2>5
    <3>3. Calm' /\ Allowed' = {mem.entries}
      BY <1>2, <2>2, <3>1, <3>2, SettledCalm DEF IInv
    <3>4. RecordsGood'
      BY <2>1, <2>3 DEF IInv, RecordsGood, IsRec, Good
    <3>5. SlotsGenuine'
      BY <2>1, <2>2 DEF IInv, SlotsGenuine, SlotValues, SlotsClean
    <3>6. TypeOK'
      BY <1>1, <1>2, <2>1, <2>2, <3>1 DEF IInv, TypeOK, PCs
    <3>7. AllowedKept'
      BY <1>2, <2>3, <3>3 DEF AllowedKept, Kept
    <3>8. CalmInv'
      BY <1>1, <3>3 DEF CalmInv
    <3> QED
      BY <1>1, <2>4, <3>3, <3>4, <3>5, <3>6, <3>7, <3>8, IdleInv DEF IInv, Recoverable
  <2>6. CASE hdr["primary"] # mem.header
    <3>1. acked' = acked /\ maybe' = maybe
      BY <1>4, <2>6 DEF ghosts
    <3>2. Allowed' = Allowed
      BY <3>1 DEF Allowed
    <3>3. RecordsGood' /\ SlotsGenuine' /\ Recoverable'
      BY <1>4, <3>2, FlushKeeps DEF IInv
    <3>4. TypeOK'
      BY <1>1, <2>1, <2>2, <3>1 DEF IInv, TypeOK, PCs
    <3>5. AllowedKept'
      BY <2>3, <3>2 DEF IInv, AllowedKept, Kept
    <3>6. CalmInv'
      BY <1>1, <2>6 DEF IInv, CalmInv
    <3> QED
      BY <1>1, <2>4, <3>3, <3>4, <3>5, <3>6, IdleInv DEF IInv
  <2> QED
    BY <2>5, <2>6
<1> QED
  BY <1>3, <1>4 DEF PersistSync

----------------------------------------------------------------------------
(* Power loss.                                                             *)

LEMMA CrashInv ==
    ASSUME IInv, Assumed, Crash
    PROVE  IInv'
<1>1. /\ crashes < MaxCrashes /\ crashes' = crashes + 1 /\ faults' = faults
      /\ disk' = [s \in Slots |-> {hdr'[s]}]
      /\ dirty' = {} /\ pc' = "down" /\ mem' = NoMem /\ tx' = NoTx
      /\ acked' = acked /\ maybe' = maybe
  BY DEF Crash, ghosts
<1>2. Allowed' = Allowed
  BY <1>1 DEF Allowed
<1>3. PICK n \in 0 .. Len(log) :
        /\ dur \subseteq 1 .. n
        /\ \E K \in SUBSET (1 .. n) :
            /\ dur \subseteq K
            /\ log' = [i \in 1 .. n |-> IF i \in K THEN log[i] ELSE Bad]
            /\ dur' = 1 .. n
  BY DEF Crash, CrashLog
<1>4. /\ log \in Seq(Blob) /\ Len(log) \in Nat /\ DOMAIN log = 1 .. Len(log)
      /\ Len(log) <= MaxLog /\ dur \subseteq 1 .. Len(log)
  BY DEF IInv, TypeOK
<1>5. n \in Nat /\ n <= Len(log) /\ 1 .. n \subseteq 1 .. Len(log)
  BY <1>4
<1>6. \A i \in 1 .. n : log'[i] \in Blob
  BY <1>3, <1>4, <1>5, BlobTypes
<1>7. log' \in Seq(Blob) /\ Len(log') = n /\ DOMAIN log' = 1 .. n
  <2>1. log' \in [1 .. n -> Blob]
    BY <1>3, <1>6
  <2> QED
    BY <1>5, <2>1
<1>8. \A i \in 1 .. n : log'[i] = log[i] \/ log'[i] = Bad
  BY <1>3
<1>9. Stable
  BY <1>3 DEF Stable
<1>10. /\ \A h : Good(h) => GoodIn(log', dur', h)
       /\ \A es : Kept(es) => KeptIn(log', dur', es)
  BY <1>9, StableKeeps
<1>11. RecordsGood'
  <2> SUFFICES ASSUME NEW i \in 1 .. n, log'[i].kind \in {"jnl", "bkp"}
               PROVE  GoodIn(log', dur', log'[i].hdr)
    BY <1>7 DEF RecordsGood, IsRec, Good
  <2>1. log'[i] = log[i]
    BY <1>8, KindFacts
  <2> QED
    BY <1>4, <1>5, <1>10, <2>1 DEF IInv, RecordsGood, IsRec
<1>12. /\ hdr' \in [Slots -> SlotValue]
       /\ \A s \in Slots : hdr'[s] \in disk[s] \/ hdr'[s] = Bad
       /\ SlotsClean => \A s \in Slots : hdr'[s] \in disk[s]
       /\ \/ \A s \in Slots : hdr'[s] \in disk[s]
          \/ \A s \in Slots : hdr'[s] = Bad
  <2>1. disk \in [Slots -> SUBSET SlotValue] /\ Bad \in SlotValue
    BY DEF IInv, TypeOK, SlotValue, HeaderOrBad
  <2>2. CASE \E a \in disk["primary"], b \in disk["backup"] :
                hdr' = [s \in Slots |-> IF s = "primary" THEN a ELSE b]
    <3>1. PICK a \in disk["primary"], b \in disk["backup"] :
                hdr' = [s \in Slots |-> IF s = "primary" THEN a ELSE b]
      BY <2>2
    <3> QED
      BY <2>1, <3>1 DEF Slots
  <2>3. CASE ~SlotsClean /\ hdr' = [s \in Slots |-> Bad]
    BY <2>1, <2>3
  <2> QED
    BY <2>2, <2>3 DEF Crash, CrashSlots
<1>13. disk' \in [Slots -> SUBSET SlotValue] /\ SlotsClean'
  BY <1>1, <1>12 DEF SlotsClean
<1>14. \A s \in Slots : \A v \in SlotValues(s)' : v # Bad => v \in SlotValues(s)
  BY <1>1, <1>12 DEF SlotValues
<1>15. SlotsGenuine'
  BY <1>9, <1>14 DEF IInv, SlotsGenuine, Stable
<1>16. \A s \in Slots : SafeSlot(s) => SafeSlot(s)'
  BY <1>2, <1>14 DEF SafeSlot
<1>17. TailGood => TailGood'
  <2> SUFFICES ASSUME TailGood PROVE TailGood'
    OBVIOUS
  <2>1. PICK j \in dur :
        /\ j + 1 \in dur
        /\ log[j].kind = "jnl" /\ log[j + 1].kind = "bkp"
        /\ j > Len(log) - Window
        /\ \A i \in DOMAIN log :
            i >= j /\ IsRec(i) => log[i].hdr.dirCrc.entries \in Allowed
    BY DEF TailGood
  <2>2. /\ j \in dur' /\ j + 1 \in dur'
        /\ log'[j] = log[j] /\ log'[j + 1] = log[j + 1]
    BY <1>9, <2>1 DEF Stable
  <2>3. j > Len(log') - Window
    BY <1>4, <1>5, <1>7, <2>1, FormatAssumption
  <2>4. \A i \in DOMAIN log' : i >= j /\ log'[i].kind \in {"jnl", "bkp"} =>
            log'[i].hdr.dirCrc.entries \in Allowed'
    <3> SUFFICES ASSUME NEW i \in 1 .. n, i >= j, log'[i].kind \in {"jnl", "bkp"}
                 PROVE  log'[i].hdr.dirCrc.entries \in Allowed'
      BY <1>7
    <3>1. log'[i] = log[i]
      BY <1>8, KindFacts
    <3> QED
      BY <1>2, <1>4, <1>5, <2>1, <3>1 DEF IsRec
  <2> QED
    BY <2>1, <2>2, <2>3, <2>4 DEF TailGood, IsRec
<1>18. Recoverable'
  <2>1. ASSUME PrimaryGood, hdr'["primary"] = hdr["primary"]
        PROVE  Calm'
    BY <1>2, <1>10, <1>13, <2>1 DEF Calm, PrimaryGood, Good
  <2>2. CASE Calm
    <3>1. hdr'["primary"] = hdr["primary"]
      BY <1>12, <2>2 DEF Calm, SlotsClean, Slots
    <3> QED
      BY <2>1, <2>2, <3>1 DEF Calm, Recoverable
  <2>3. CASE Covered
    <3>1. CASE hdr'["primary"] = hdr["primary"]
      BY <2>1, <2>3, <3>1 DEF Covered, Recoverable
    <3>2. CASE hdr'["primary"] # hdr["primary"]
      <4>1. \A s \in Slots : hdr'[s] = Bad
        BY <1>12, <2>3, <3>2 DEF Covered, Slots
      <4>2. \A s \in Slots : SafeSlot(s)'
        BY <1>1, <4>1 DEF SafeSlot, SlotValues
      <4> QED
        BY <1>17, <2>3, <4>2 DEF Covered, Fallback, Recoverable, Slots
    <3> QED
      BY <3>1, <3>2
  <2>4. CASE Fallback
    BY <1>16, <1>17, <2>4 DEF Fallback, Recoverable, Slots
  <2> QED
    BY <2>2, <2>3, <2>4 DEF IInv, Recoverable
<1>19. TypeOK'
  <2>1. /\ NoTx \in [entries : Snapshots, off : Nat, h : HeaderOrBad]
        /\ NoMem \in [header : HeaderOrBad, entries : Snapshots]
    BY BlobTypes DEF NoTx, NoMem, HeaderOrBad
  <2>2. crashes' \in 0 .. MaxCrashes
    BY <1>1, CommitAssumption DEF IInv, TypeOK
  <2>3. Len(log') <= MaxLog
    BY <1>4, <1>5, <1>7, CommitAssumption
  <2> QED
    BY <1>1, <1>3, <1>7, <1>12, <1>13, <2>1, <2>2, <2>3 DEF IInv, TypeOK, PCs
<1>20. AllowedKept'
  BY <1>2, <1>10 DEF IInv, AllowedKept, Kept
<1>21. MemInv' /\ CalmInv'
  BY <1>1, <1>13 DEF MemInv, CalmInv, Persisting
<1> QED
  BY <1>1, <1>11, <1>15, <1>18, <1>19, <1>20, <1>21, IdleInv DEF IInv

----------------------------------------------------------------------------
(* The invariant.                                                          *)

LEMMA InitInv ==
    ASSUME Init, Assumed
    PROVE  IInv
<1>1. PICK t \in Times :
        LET d == Dir(Empty, t)
            x == Idx(1, d, 1)
            h == CreatedHeader(d, x)
        IN  /\ log = <<d, x, HeaderRecord("jnl", t, h), HeaderRecord("bkp", t, h)>>
            /\ hdr = [s \in Slots |-> h]
            /\ disk = [s \in Slots |-> {h}]
  BY DEF Init, Assumed
<1> DEFINE d == Dir(Empty, t)
           x == Idx(1, d, 1)
           h == CreatedHeader(d, x)
           j == HeaderRecord("jnl", t, h)
           b == HeaderRecord("bkp", t, h)
<1>2. /\ log = <<d, x, j, b>>
      /\ hdr = [s \in Slots |-> h] /\ disk = [s \in Slots |-> {h}]
  BY <1>1
<1>3. /\ dur = 1 .. 4 /\ dirty = {} /\ pc = "down" /\ mem = NoMem /\ tx = NoTx
      /\ acked = Empty /\ maybe = {} /\ crashes = 0 /\ faults = 0
  BY DEF Init, Assumed
<1>4. Allowed = {Empty}
  BY <1>3 DEF Allowed
<1>5. d \in DirRec /\ d.entries = Empty
  BY BlobTypes DEF Dir
<1> HIDE DEF d
<1>6. /\ x \in IdxRec /\ x.dirOff = 1 /\ x.dirCrc = d /\ x.gen = 1
  <2>1. 1 \in 0 .. MaxGen /\ 1 \in Nat
    BY FormatAssumption
  <2> QED
    BY <1>5, <2>1, BlobTypes DEF Idx
<1> HIDE DEF x
<1>7. /\ h \in Header /\ h.dirOff = 1 /\ h.dirCrc = d /\ h.idxOff = 2
      /\ h.idxCrc = x /\ h.gen = 1 /\ h # Bad /\ h.kind = "hdr"
  <2>1. 1 \in 0 .. MaxGen
    BY FormatAssumption
  <2>2. h \in Header
    BY <1>5, <1>6, <2>1 DEF CreatedHeader, Header, HeaderOf
  <2> QED
    BY <2>2, KindFacts DEF CreatedHeader
<1> HIDE DEF h
<1>8. j \in HdrRec /\ b \in HdrRec /\ j.hdr = h /\ b.hdr = h
      /\ j.kind = "jnl" /\ b.kind = "bkp"
  BY <1>7, BlobTypes DEF HeaderRecord
<1> HIDE DEF j, b
<1>9. /\ log \in Seq(Blob) /\ Len(log) = 4 /\ DOMAIN log = 1 .. 4
      /\ log[1] = d /\ log[2] = x /\ log[3] = j /\ log[4] = b
  BY <1>2, <1>5, <1>6, <1>8, BlobTypes
<1>10. GoodIn(log, dur, h)
  BY <1>3, <1>6, <1>7, <1>9 DEF GoodIn
<1>11. \A i \in 1 .. 4 : IsRec(i) => log[i].hdr = h
  <2>1. \A i \in 1 .. 4 : i = 1 \/ i = 2 \/ i = 3 \/ i = 4
    OBVIOUS
  <2>2. d.kind = "dir" /\ x.kind = "idx"
    BY <1>5, <1>6, KindFacts
  <2> QED
    BY <1>8, <1>9, <2>1, <2>2 DEF IsRec
<1>12. RecordsGood
  BY <1>9, <1>10, <1>11 DEF RecordsGood, Good
<1>13. \A s \in Slots : SlotValues(s) = {h}
  BY <1>2 DEF SlotValues
<1>14. SlotsGenuine
  BY <1>3, <1>7, <1>13 DEF SlotsGenuine
<1>15. Calm
  <2>1. hdr["primary"] = h
    BY <1>2 DEF Slots
  <2> QED
    BY <1>2, <1>4, <1>5, <1>7, <1>10, <2>1 DEF Calm, SlotsClean, PrimaryGood, Good
<1>16. TypeOK
  <2>1. /\ NoTx \in [entries : Snapshots, off : Nat, h : HeaderOrBad]
        /\ NoMem \in [header : HeaderOrBad, entries : Snapshots]
    BY BlobTypes DEF NoTx, NoMem, HeaderOrBad
  <2>2. /\ hdr \in [Slots -> SlotValue]
        /\ disk \in [Slots -> SUBSET SlotValue]
    BY <1>2, <1>7 DEF SlotValue, HeaderOrBad
  <2>3. 0 \in 0 .. MaxCrashes /\ 0 \in 0 .. MaxFaults /\ Len(log) <= MaxLog
    BY <1>9, CommitAssumption
  <2>4. acked \in Snapshots
    BY <1>3, BlobTypes
  <2> QED
    BY <1>3, <1>9, <2>1, <2>2, <2>3, <2>4 DEF TypeOK, PCs
<1>17. AllowedKept
  BY <1>4 DEF AllowedKept, Kept, KeptIn, Empty
<1>18. OffsetInv /\ HeaderInv /\ RecordInv /\ SlotInv
  BY <1>3 DEF OffsetInv, HeaderInv, RecordInv, SlotInv, InTx, Indexed, Synced1, Jnled,
              Synced2, Pending
<1>19. MemInv /\ CalmInv
  BY <1>3, <1>15 DEF MemInv, CalmInv, Persisting, Calm
<1> QED
  BY <1>12, <1>14, <1>15, <1>16, <1>17, <1>18, <1>19 DEF IInv, Recoverable

LEMMA StutterInv ==
    ASSUME IInv, UNCHANGED vars
    PROVE  IInv'
<1>1. /\ log' = log /\ hdr' = hdr /\ dur' = dur /\ disk' = disk /\ dirty' = dirty
      /\ pc' = pc /\ mem' = mem /\ tx' = tx /\ acked' = acked /\ maybe' = maybe
      /\ crashes' = crashes /\ faults' = faults
  BY DEF vars
<1>2. Allowed' = Allowed
  BY <1>1 DEF Allowed
<1>3. RecordsGood' /\ SlotsGenuine' /\ Recoverable' /\ (Calm => Calm') /\ (Fallback => Fallback')
      /\ (SlotsClean => SlotsClean')
  BY <1>1, <1>2, FrameKeeps DEF IInv
<1>4. TypeOK'
  BY <1>1 DEF IInv, TypeOK
<1>5. AllowedKept'
  BY <1>1, <1>2 DEF IInv, AllowedKept, Kept
<1>6. OffsetInv'
  BY <1>1 DEF IInv, OffsetInv
<1>7. HeaderInv'
  BY <1>1 DEF IInv, HeaderInv, Good, Kept
<1>8. RecordInv'
  BY <1>1 DEF IInv, RecordInv
<1>9. SlotInv'
  BY <1>1, <1>3 DEF IInv, SlotInv, SlotValues
<1>10. MemInv'
  BY <1>1, <1>2, <1>3 DEF IInv, MemInv, Good, Kept
<1>11. CalmInv'
  BY <1>1, <1>3 DEF IInv, CalmInv
<1> QED
  BY <1>3, <1>4, <1>5, <1>6, <1>7, <1>8, <1>9, <1>10, <1>11 DEF IInv

LEMMA NextInv ==
    ASSUME IInv, Assumed, [Next]_vars
    PROVE  IInv'
<1>1. CASE Begin
  BY <1>1, BeginInv
<1>2. CASE TxStep
  BY <1>2, TxPutInv, TxPutFailInv, TxRemoveInv, TxSetMetaInv, RollbackInv DEF TxStep
<1>3. CASE CommitStep
  BY <1>3, AppendDirInv, AppendIdxInv, AppendJnlInv, AppendBkpInv, WriteBackupInv,
     WritePrimaryInv, SyncInv, PublishInv DEF CommitStep
<1>4. CASE FailStep
  BY <1>4, AppendFailsInv, WriteBackupFailsInv, WritePrimaryFailsInv, SyncFailsInv
  DEF FailStep
<1>5. CASE OpenStep
  BY <1>5, OpenPrimaryInv, OpenRecoveredInv, NoScan, PersistPrimaryInv,
     PersistBackupInv, PersistSyncInv, PersistSkipInv DEF OpenStep
<1>6. CASE Close
  BY <1>6, CloseInv
<1>7. CASE Crash
  BY <1>7, CrashInv
<1>8. CASE UNCHANGED vars
  BY <1>8, StutterInv
<1> QED
  BY <1>1, <1>2, <1>3, <1>4, <1>5, <1>6, <1>7, <1>8 DEF Next

\* The invariant holds in every reachable state.
THEOREM Invariance == Assumed => (Spec => []IInv)
<1> SUFFICES ASSUME Assumed PROVE Spec => []IInv
  OBVIOUS
<1>1. Init => IInv
  BY InitInv
<1>2. IInv /\ [Next]_vars => IInv'
  BY NextInv
<1> QED
  BY <1>1, <1>2, PTL DEF Spec

----------------------------------------------------------------------------
(* What follows from it.                                                   *)

LEMMA KeptReadable ==
    ASSUME TypeOK, NEW es, Kept(es)
    PROVE  \A p \in Paths : Readable(log, es[p])
<1>1. dur \subseteq DOMAIN log
  BY DEF TypeOK
<1> QED
  BY <1>1 DEF Kept, KeptIn, Readable

\* Crash safety of Tx.Commit and Open for any number of paths, values, blobs,
\* crashes and faults: Open of a closed container always succeeds, and finds the
\* last acknowledged snapshot or one of a commit in doubt since, all its chunks
\* intact.
THEOREM CrashSafe == Assumed => (Spec => []SnapshotSurvives)
<1> SUFFICES ASSUME Assumed PROVE Spec => []SnapshotSurvives
  OBVIOUS
<1>1. Spec => []IInv
  BY Invariance
<1>2. ASSUME IInv PROVE SnapshotSurvives
  <2>1. OpenFrom(log, hdr) # {}
    BY <1>2, OpenFinds DEF IInv
  <2>2. ASSUME NEW o \in OpenFrom(log, hdr)
        PROVE  /\ o.header.dirCrc.entries \in Allowed
               /\ \A p \in Paths : Readable(log, o.header.dirCrc.entries[p])
    <3>1. o.header.dirCrc.entries \in Allowed
      BY <1>2, OpenFinds DEF IInv
    <3> QED
      BY <1>2, <3>1, KeptReadable DEF IInv, AllowedKept
  <2> QED
    BY <2>1, <2>2 DEF SnapshotSurvives
<1> QED
  BY <1>1, <1>2, PTL

\* What an open handle shows stays readable whatever later transactions write,
\* whether they commit, fail or are rolled back.
THEOREM HandlesStayReadable == Assumed => (Spec => []HandleReadable)
<1> SUFFICES ASSUME Assumed PROVE Spec => []HandleReadable
  OBVIOUS
<1>1. Spec => []IInv
  BY Invariance
<1>2. ASSUME IInv PROVE HandleReadable
  <2> SUFFICES ASSUME pc # "down"
               PROVE  \A p \in Paths : Readable(log, mem.entries[p])
    BY DEF HandleReadable
  <2>1. Kept(mem.entries)
    BY <1>2 DEF IInv, MemInv
  <2> QED
    BY <1>2, <2>1, KeptReadable DEF IInv
<1> QED
  BY <1>1, <1>2, PTL

----------------------------------------------------------------------------
(* Refinement.                                                             *)

\* A step that leaves the ghosts, the handle and its being open alone.
LEMMA Invisible ==
    ASSUME acked' = acked, maybe' = maybe, mem' = mem, pc # "down", pc' # "down"
    PROVE  UNCHANGED Abstract!vars
BY DEF Abstract!vars

LEMMA TxRefines ==
    ASSUME Begin \/ TxStep \/ FailStep
    PROVE  UNCHANGED Abstract!vars
<1>1. acked' = acked /\ maybe' = maybe /\ mem' = mem
  BY DEF Begin, TxStep, TxPut, TxPutFail, TxRemove, TxSetMeta, Rollback, FailStep,
         AppendFails, WriteBackupFails, WritePrimaryFails, SyncFails, CommitFails, ghosts
<1>2. pc # "down" /\ pc' # "down"
  BY DEF Begin, TxStep, TxPut, TxPutFail, TxRemove, TxSetMeta, Rollback, FailStep,
         AppendFails, WriteBackupFails, WritePrimaryFails, SyncFails, CommitFails,
         AfterSync
<1> QED
  BY <1>1, <1>2, Invisible

LEMMA CommitRefines ==
    ASSUME IInv, Assumed, CommitStep
    PROVE  Abstract!Next \/ UNCHANGED Abstract!vars
<1>1. CASE \E t \in Times : AppendDir(t) \/ AppendBkp(t)
  <2>1. acked' = acked /\ maybe' = maybe /\ mem' = mem /\ pc # "down" /\ pc' # "down"
    BY <1>1 DEF AppendDir, AppendBkp, CommitAppend, ghosts
  <2> QED
    BY <2>1, Invisible
<1>2. CASE AppendIdx
  <2>1. acked' = acked /\ maybe' = maybe /\ mem' = mem /\ pc # "down" /\ pc' # "down"
    BY <1>2 DEF AppendIdx, CommitAppend, ghosts
  <2> QED
    BY <2>1, Invisible
<1>3. CASE \E t \in Times : AppendJnl(t)
  <2>1. /\ pc = "jnl" /\ pc' = "bkp" /\ mem' = mem /\ acked' = acked
        /\ maybe' = maybe \cup {tx.entries}
    BY <1>3 DEF AppendJnl, CommitAppend
  <2>2. tx.entries \in Snapshots
    BY DEF IInv, TypeOK
  <2>3. Abstract!Attempt
    BY <2>1, <2>2 DEF Abstract!Attempt
  <2> QED
    BY <2>3 DEF Abstract!Next
<1>4. CASE WriteBackup \/ WritePrimary
  <2>1. acked' = acked /\ maybe' = maybe /\ mem' = mem /\ pc # "down" /\ pc' # "down"
    BY <1>4 DEF WriteBackup, WritePrimary, ghosts
  <2> QED
    BY <2>1, Invisible
<1>5. CASE Sync
  <2>1. acked' = acked /\ maybe' = maybe /\ mem' = mem /\ pc # "down" /\ pc' # "down"
    BY <1>5 DEF Sync, ghosts, AfterSync
  <2> QED
    BY <2>1, Invisible
<1>6. CASE Publish
  <2>1. /\ pc = "publish" /\ pc' = "open" /\ mem'.entries = tx.entries
        /\ acked' = tx.entries /\ maybe' = {}
    BY <1>6 DEF Publish
  <2>2. tx.entries \in maybe
    BY <2>1 DEF IInv, HeaderInv, Jnled, Synced2
  <2>3. Abstract!Commit
    BY <2>1, <2>2 DEF Abstract!Commit
  <2> QED
    BY <2>3 DEF Abstract!Next
<1> QED
  BY <1>1, <1>2, <1>3, <1>4, <1>5, <1>6 DEF CommitStep

LEMMA OpenRefines ==
    ASSUME IInv, Assumed, OpenStep
    PROVE  Abstract!Next \/ UNCHANGED Abstract!vars
<1>1. CASE OpenPrimary
  <2>1. pc = "down" /\ mem'.entries \in Allowed
    BY <1>1, OpenedFacts DEF OpenPrimary
  <2>2. pc' = "open" /\ (\/ acked' = mem'.entries /\ maybe' = {}
                         \/ acked' = acked /\ maybe' = maybe)
    BY <1>1 DEF OpenPrimary, Settle, ghosts
  <2>3. Abstract!Open
    BY <2>1, <2>2 DEF Abstract!Open, Allowed
  <2> QED
    BY <2>3 DEF Abstract!Next
<1>2. CASE OpenRecovered
  <2>1. pc = "down" /\ mem'.entries \in Allowed
    BY <1>2, OpenedFacts DEF OpenRecovered
  <2>2. pc' = "pprim" /\ acked' = acked /\ maybe' = maybe
    BY <1>2 DEF OpenRecovered, ghosts
  <2>3. Abstract!Open
    BY <2>1, <2>2 DEF Abstract!Open, Allowed
  <2> QED
    BY <2>3 DEF Abstract!Next
<1>3. CASE OpenScan
  BY <1>3, NoScan
<1>4. CASE PersistPrimary \/ PersistBackup \/ PersistSkip
  <2>1. acked' = acked /\ maybe' = maybe /\ mem' = mem /\ pc # "down" /\ pc' # "down"
    BY <1>4 DEF PersistPrimary, PersistBackup, PersistSkip, PersistSlot, ghosts
  <2> QED
    BY <2>1, Invisible
<1>5. CASE PersistSync
  <2>1. pc = "psync" /\ pc' = "open" /\ mem' = mem
    BY <1>5 DEF PersistSync
  <2>2. mem.entries \in Allowed
    BY <2>1 DEF IInv, MemInv, Persisting
  <2>3. CASE acked' = mem.entries /\ maybe' = {}
    <3>1. Abstract!Settle
      BY <2>1, <2>2, <2>3 DEF Abstract!Settle, Allowed
    <3> QED
      BY <3>1 DEF Abstract!Next
  <2>4. CASE acked' = acked /\ maybe' = maybe
    BY <2>1, <2>4, Invisible
  <2> QED
    BY <1>5, <2>3, <2>4 DEF PersistSync, Settle, ghosts
<1> QED
  BY <1>1, <1>2, <1>3, <1>4, <1>5 DEF OpenStep

\* The container implements atomic snapshots: every write, fsync, failure and
\* power loss of the detailed specification is a step of AtomicSnapshots or
\* invisible, so a handle's view changes only when its own commit returns nil,
\* and the durable snapshot only to one that was committed or in doubt.
THEOREM Refinement == Assumed => (Spec => ImplementsAtomicSnapshots)
<1> SUFFICES ASSUME Assumed PROVE Spec => ImplementsAtomicSnapshots
  OBVIOUS
<1>1. Init => Abstract!Init
  BY DEF Init, Abstract!Init
<1>2. ASSUME IInv, [Next]_vars
      PROVE  [Abstract!Next]_(Abstract!vars)
  <2>1. CASE Begin \/ TxStep \/ FailStep
    BY <2>1, TxRefines
  <2>2. CASE CommitStep
    BY <1>2, <2>2, CommitRefines
  <2>3. CASE OpenStep
    BY <1>2, <2>3, OpenRefines
  <2>4. CASE Close \/ Crash
    <3>1. acked' = acked /\ maybe' = maybe /\ pc' = "down"
      BY <2>4 DEF Close, Crash, ghosts
    <3>2. Abstract!Shut
      BY <3>1 DEF Abstract!Shut
    <3> QED
      BY <3>2 DEF Abstract!Next
  <2>5. CASE UNCHANGED vars
    BY <2>5 DEF vars, Abstract!vars
  <2> QED
    BY <1>2, <2>1, <2>2, <2>3, <2>4, <2>5 DEF Next
<1>3. Spec => []IInv
  BY Invariance
<1> QED
  BY <1>1, <1>2, <1>3, PTL DEF Spec, ImplementsAtomicSnapshots, Abstract!Spec
============================================================================
