------------------------ MODULE RecoveryDamage_proofs -----------------------
(***************************************************************************)
(* Proof of DamageLosesNothing: killed processes, failing calls and damage *)
(* in any order and number lose no commit that returned nil, as long as    *)
(* each damage leaves what Open needs.                                     *)
(***************************************************************************)
EXTENDS RecoveryDamage_inv, ContainerCommitOpens_proofs

----------------------------------------------------------------------------
(* What Open makes of the file.                                            *)

\* What the tail, the slots and the records are told by.
Shape == FileTypes /\ FirstDirectory

\* The parts of Undamaged that are about the file.
FileUndamaged ==
    /\ RecordsWhole
    /\ SlotsShow
    /\ RecordsSince
    /\ HeaderLeft

\* Those that are about the process.
AtWork ==
    /\ WritesBehind
    /\ CommitMade
    /\ CommitSlots
    /\ Recovered

\* The invariant in two parts: what it says of the file and of who is at work.
LEMMA UndamagedSplit == Undamaged <=> FileUndamaged /\ AtWork
BY DEF Undamaged, FileUndamaged, AtWork

\* The same of the states of a step.
LEMMA UndamagedSplitPrime == Undamaged' <=> FileUndamaged' /\ AtWork'
BY DEF Undamaged, FileUndamaged, AtWork

\* No directory exceeds the cap.
LEMMA NoneTooLarge ==
    ASSUME TailInReach, NEW d
    PROVE  ~TooLarge(d)
<1>1. Live(d.entries) \subseteq Paths
  BY DEF Live
<1>2. /\ Cardinality(Live(d.entries)) <= Cardinality(Paths)
      /\ Cardinality(Paths) \in Nat /\ Cardinality(Live(d.entries)) \in Nat
  BY <1>1, FS_Subset, FS_CardinalityType DEF TailInReach
<1> QED
  BY <1>2, FormatAssumption DEF TooLarge, TailInReach

\* A header that can be loaded is whole, and the other way round.
LEMMA WholeLoadable ==
    ASSUME TailInReach, NEW h
    PROVE  Loadable(log, h) <=> Whole(h)
BY NoneTooLarge DEF Loadable, DirOK, IdxOK, Whole, GoodIn

\* A header record is one by type.
LEMMA RecordTypes ==
    ASSUME FileTypes, NEW i \in HeaderRecords(log)
    PROVE  /\ i \in 1 .. Len(log) /\ Len(log) \in Nat
           /\ log[i] \in HdrRec /\ log[i].hdr \in Header /\ log[i].ts \in Nat
<1>1. i \in DOMAIN log /\ log[i] \in Blob /\ log[i].kind \in {"jnl", "bkp"}
  BY DEF FileTypes, HeaderRecords
<1>2. log[i] \in HdrRec
  BY <1>1, KindFacts DEF Blob
<1>3. log[i].hdr \in Header /\ log[i].ts \in Times
  BY <1>2 DEF HdrRec
<1>4. DOMAIN log = 1 .. Len(log) /\ Len(log) \in Nat
  BY DEF FileTypes
<1>5. Times \subseteq Nat
  BY FormatAssumption
<1> HIDE DEF FileTypes
<1> QED
  BY <1>1, <1>2, <1>3, <1>4, <1>5

\* The tail scan finds the last record of each kind.
LEMMA TailFindsNewest ==
    ASSUME FileTypes, TailInReach, RecordsWhole, NEW k \in {"jnl", "bkp"}
    PROVE  recoverHeaderByMagic(log, k) = {log[i] : i \in Newest(k)}
<1>1. ASSUME NEW i \in DOMAIN log, log[i].kind = k
      PROVE  i > Len(log) - Window /\ DirOK(log, log[i].hdr)
  <2>1. i \in HeaderRecords(log)
    BY <1>1 DEF HeaderRecords
  <2>2. Whole(log[i].hdr)
    BY <2>1 DEF RecordsWhole
  <2>3. i \in 1 .. Len(log) /\ Len(log) \in Nat /\ Len(log) <= MaxLog
    BY <2>1, RecordTypes DEF FileTypes
  <2>4. i > Len(log) - Window
    BY <2>3, FormatAssumption, CommitAssumption DEF TailInReach
  <2> QED
    BY <2>2, <2>4, NoneTooLarge DEF Whole, GoodIn, DirOK
<1>2. TailPositions(log, k) = {i \in DOMAIN log : log[i].kind = k}
  BY <1>1 DEF TailPositions
<1> QED
  BY <1>2 DEF recoverHeaderByMagic, Newest

\* There is at most one last record.
LEMMA NewestFacts ==
    ASSUME FileTypes, NEW k \in {"jnl", "bkp"}
    PROVE  /\ \A i \in Newest(k) : i \in HeaderRecords(log) /\ log[i].kind = k
           /\ \A i, j \in Newest(k) : i = j
           /\ \A i \in DOMAIN log : log[i].kind = k =>
                 \E b \in Newest(k) : i <= b
<1> DEFINE S == {i \in DOMAIN log : log[i].kind = k}
<1>1. DOMAIN log = 1 .. Len(log) /\ Len(log) \in Nat /\ S \subseteq 1 .. Len(log)
  BY DEF FileTypes
<1>2. Newest(k) = Last(S)
  BY DEF Newest
<1>3. \A i \in Newest(k) : i \in S /\ \A j \in S : j <= i
  BY <1>2 DEF Last
<1>4. \A i \in S : Newest(k) # {}
  <2> HIDE DEF S
  <2> QED
    BY <1>1, <1>2, LastExists
<1>5. \A i \in Newest(k) : i \in HeaderRecords(log) /\ log[i].kind = k
  BY <1>3 DEF HeaderRecords
<1>6. \A i, j \in Newest(k) : i = j
  <2> HIDE DEF S
  <2> SUFFICES ASSUME NEW i \in Newest(k), NEW j \in Newest(k) PROVE i = j
    OBVIOUS
  <2>1. i \in 1 .. Len(log) /\ j \in 1 .. Len(log) /\ i <= j /\ j <= i
    BY <1>1, <1>3
  <2> QED
    BY <1>1, <2>1
<1> QED
  BY <1>3, <1>4, <1>5, <1>6

\* What the tail recovers may be shown.
LEMMA TailRecoversShown ==
    ASSUME FileTypes, TailInReach, RecordsWhole, TailShows
    PROVE  /\ recoverBestHeader(log) # {}
           /\ \A h \in recoverBestHeader(log) : Shows(h) /\ Whole(h)
<1>1. PICK b \in Newest("bkp") :
        /\ Shows(log[b].hdr)
        /\ \A j \in Newest("jnl") : Shows(log[j].hdr) \/ log[j].ts <= log[b].ts
  BY DEF TailShows
<1> DEFINE js == recoverHeaderByMagic(log, "jnl")
           bs == recoverHeaderByMagic(log, "bkp")
<1>2. bs = {log[b]} /\ b \in HeaderRecords(log)
  BY <1>1, TailFindsNewest, NewestFacts
<1>3. \A x \in js : \E j \in Newest("jnl") :
          j \in HeaderRecords(log) /\ x = log[j] /\ js = {x}
  BY TailFindsNewest, NewestFacts
<1>4. \A i \in HeaderRecords(log) : log[i].ts \in Nat /\ Whole(log[i].hdr)
  BY RecordTypes DEF RecordsWhole
<1>5. recoverBestHeader(log) =
        {x.hdr : x \in {y \in bs : \A j \in js : y.ts >= j.ts}}
          \cup {j.hdr : j \in {x \in js : \A y \in bs : y.ts < x.ts}}
  BY DEF recoverBestHeader
<1> HIDE DEF js, bs
<1>6. CASE js = {}
  BY <1>1, <1>2, <1>4, <1>5, <1>6
<1>7. CASE js # {}
  <2>1. PICK j \in Newest("jnl") : j \in HeaderRecords(log) /\ js = {log[j]}
    BY <1>3, <1>7
  <2>2. log[j].ts \in Nat /\ log[b].ts \in Nat
    BY <1>2, <1>4, <2>1
  <2>3. CASE log[b].ts >= log[j].ts
    <3>1. recoverBestHeader(log) = {log[b].hdr}
      BY <1>2, <1>5, <2>1, <2>2, <2>3
    <3> QED
      BY <1>1, <1>2, <1>4, <3>1
  <2>4. CASE ~(log[b].ts >= log[j].ts)
    <3>1. recoverBestHeader(log) = {log[j].hdr}
      BY <1>2, <1>5, <2>1, <2>2, <2>4
    <3>2. Shows(log[j].hdr)
      BY <1>1, <2>1, <2>2, <2>4
    <3> QED
      BY <1>4, <2>1, <3>1, <3>2
  <2> QED
    BY <2>3, <2>4
<1> QED
  BY <1>6, <1>7

\* Open never gets as far as the directory scan, and what it settles on may be
\* shown; it gives up only for an unknown feature.
LEMMA OpensShown ==
    ASSUME FileTypes, TailInReach, FileUndamaged
    PROVE  /\ OpenFrom(log, hdr) # {} \/ Refused
           /\ \A o \in OpenFrom(log, hdr) :
                /\ Shows(o.header) /\ Whole(o.header)
                /\ o.src = "backup" => o.header = hdr["backup"]
                /\ o.src = "tail" => TailShows
<1> DEFINE tails == {h \in recoverBestHeader(log) : Loadable(log, h)}
<1>1. \A s \in Slots : Loadable(log, hdr[s]) => Shows(hdr[s]) /\ Whole(hdr[s])
  BY WholeLoadable DEF FileUndamaged, SlotsShow, Loadable, Bad
<1>2. CASE Fatal(log, hdr)
  <2>1. \E s \in Slots : hdr[s].kind = "refused"
    BY <1>2, NoneTooLarge DEF Fatal, FatalPrimary, FatalBackup, Slots
  <2>2. OpenFrom(log, hdr) = {}
    BY <1>2 DEF OpenFrom, Fatal
  <2> QED
    BY <1>2, <2>1, <2>2 DEF Refused
<1>3. CASE Loadable(log, hdr["primary"])
  <2>1. OpenFrom(log, hdr) = {[src |-> "primary", header |-> hdr["primary"]]}
    BY <1>3 DEF OpenFrom
  <2> QED
    BY <1>1, <1>3, <2>1 DEF Slots
<1>4. CASE ~Fatal(log, hdr) /\ ~Loadable(log, hdr["primary"]) /\ Loadable(log, hdr["backup"])
  <2>1. OpenFrom(log, hdr) = {[src |-> "backup", header |-> hdr["backup"]]}
    BY <1>4 DEF OpenFrom
  <2> QED
    BY <1>1, <1>4, <2>1 DEF Slots
<1>5. CASE ~Fatal(log, hdr) /\ ~Loadable(log, hdr["primary"]) /\ ~Loadable(log, hdr["backup"])
  <2>1. TailShows
    BY <1>5, WholeLoadable DEF FileUndamaged, HeaderLeft, Slots
  <2>2. tails # {} /\ \A h \in tails : Shows(h) /\ Whole(h)
    BY <2>1, TailRecoversShown, WholeLoadable DEF FileUndamaged
  <2>3. OpenFrom(log, hdr) = {[src |-> "tail", header |-> h] : h \in tails}
    BY <1>5, <2>2 DEF OpenFrom
  <2>4. \A o \in OpenFrom(log, hdr) : o.src = "tail" /\ o.header \in tails
    <3> HIDE DEF tails
    <3> QED
      BY <2>3
  <2>5. PICK h \in tails : TRUE
    BY <2>2
  <2>6. [src |-> "tail", header |-> h] \in OpenFrom(log, hdr)
    <3> HIDE DEF tails
    <3> QED
      BY <2>3, <2>5
  <2> HIDE DEF tails
  <2> QED
    BY <2>1, <2>2, <2>4, <2>6
<1> QED
  BY <1>2, <1>3, <1>4, <1>5

----------------------------------------------------------------------------
(* What the writes keep.                                                   *)

\* A step of ContainerCommit that acknowledges no commit: what may be shown
\* only grows.
Grows ==
    /\ committed' = committed
    /\ begun' = begun \cup maybe'
    /\ UNCHANGED damageVars

\* A step that only begins or ends commits leaves what is current current.
LEMMA GrowsFacts ==
    ASSUME Grows
    PROVE  /\ lost' = lost /\ enough' = enough
           /\ Current \subseteq Current'
           /\ \A h : Shows(h) => h.dirCrc.entries \in Current'
BY DEF Grows, damageVars, Current, Shows

\* Nothing of the file is written.
LEMMA FrameUndamaged ==
    ASSUME FileUndamaged, UNCHANGED <<log, hdr, lost>>, Current \subseteq Current'
    PROVE  FileUndamaged' /\ (TailShows => TailShows')
<1>1. /\ RecordsWhole => RecordsWhole'
      /\ \A h : Whole(h) => GoodIn(log', DOMAIN log', h)
  BY DEF RecordsWhole, HeaderRecords, Whole, GoodIn
<1>2. SlotsShow => SlotsShow'
  BY DEF SlotsShow, Shows
<1>3. RecordsSince => RecordsSince'
  BY DEF RecordsSince, HeaderRecords, Shows
<1>4. TailShows => TailShows'
  BY DEF TailShows, Newest, Last, Shows
<1>5. HeaderLeft => HeaderLeft'
  BY <1>1, <1>4 DEF HeaderLeft, Whole
<1> QED
  BY <1>1, <1>2, <1>3, <1>4, <1>5 DEF FileUndamaged

\* Behind position n there is nothing, or what a failed write has left.
EndsAt(n) ==
    /\ Len(log) <= n + 1
    /\ Len(log) = n + 1 => log[Len(log)] = Bad

\* The same of the file after a step.
EndsNext(n) ==
    /\ Len(log') <= n + 1
    /\ Len(log') = n + 1 => log'[Len(log')] = Bad

\* WriteAt behind all that is not Bad.
LEMMA PutAtShape ==
    ASSUME FileTypes, NEW n \in Nat, n >= 1, n <= Len(log), EndsAt(n),
           NEW b \in Blob, PutAt(n + 1, b)
    PROVE  /\ Len(log) \in Nat /\ DOMAIN log = 1 .. Len(log)
           /\ Len(log') = n + 1 /\ DOMAIN log' = 1 .. (n + 1)
           /\ log'[n + 1] = b
           /\ \A i \in 1 .. n : i \in DOMAIN log /\ i \in DOMAIN log' /\ log'[i] = log[i]
           /\ \A i \in DOMAIN log : i \notin 1 .. n => log[i] = Bad
           /\ hdr' = hdr
<1>1. log \in Seq(Blob) /\ Len(log) \in Nat /\ DOMAIN log = 1 .. Len(log)
  BY DEF FileTypes
<1>a. DOMAIN log = 1 .. Len(log) /\ Len(log) \in Nat
  BY <1>1
<1>b. Len(log) = n \/ Len(log) = n + 1
  <2> DEFINE m == Len(log)
  <2>1. m \in Nat /\ n <= m /\ m <= n + 1
    BY <1>a, Zenon DEF EndsAt
  <2> HIDE DEF m
  <2>2. m = n \/ m = n + 1
    BY <2>1
  <2> QED
    BY <2>2 DEF m
<1>c. n + 1 \in DOMAIN log <=> Len(log) = n + 1
  <2> DEFINE m == Len(log)
  <2>1. DOMAIN log = 1 .. m /\ m \in Nat /\ (m = n \/ m = n + 1)
    BY <1>a, <1>b
  <2> HIDE DEF m
  <2>2. n + 1 \in 1 .. m <=> m = n + 1
    BY <2>1
  <2> QED
    BY <2>1, <2>2 DEF m
<1>2. hdr' = hdr
  BY DEF PutAt
<1>3. CASE n + 1 \in DOMAIN log
  <2>0. log' = [log EXCEPT ![n + 1] = b]
    BY <1>3 DEF PutAt
  <2>1. log' = [log EXCEPT ![n + 1] = b] /\ Len(log) = n + 1
    BY <1>3, <1>c, <2>0
  <2>2. log' \in Seq(Blob) /\ Len(log') = Len(log) /\ DOMAIN log' = DOMAIN log
    BY <1>1, <1>3, <2>1, ExceptSeq
  <2>3. log[n + 1] = Bad
    BY <2>1 DEF EndsAt
  <2> QED
    BY <1>1, <1>2, <1>3, <2>1, <2>2, <2>3
<1>4. CASE n + 1 \notin DOMAIN log
  <2>0. log' = Append(log, b)
    BY <1>4 DEF PutAt
  <2>1. log' = Append(log, b) /\ Len(log) = n
    BY <1>4, <1>b, <1>c, <2>0
  <2>2. /\ log' \in Seq(Blob) /\ Len(log') = Len(log) + 1 /\ DOMAIN log' = 1 .. Len(log')
        /\ \A i \in 1 .. Len(log) : log'[i] = log[i]
        /\ log'[Len(log) + 1] = b
    BY <1>1, <2>1, AppendProperties
  <2> QED
    BY <1>1, <1>2, <2>1, <2>2
<1> QED
  BY <1>3, <1>4

\* What a step that only appends does to the log.
Extends(n) ==
    /\ n \in Nat
    /\ DOMAIN log' = 1 .. (n + 1)
    /\ \A i \in 1 .. n : i \in DOMAIN log /\ log'[i] = log[i]
    /\ \A i \in DOMAIN log : i \notin 1 .. n => log[i] = Bad

\* A header that was whole is whole still.
LEMMA ExtendsKeepsWhole ==
    ASSUME NEW n, Extends(n), NEW h \in Header, Whole(h)
    PROVE  GoodIn(log', DOMAIN log', h)
<1>1. h.dirCrc \in DirRec /\ h.idxCrc \in IdxRec
  BY DEF Header, HeaderOf
<1>2. h.dirCrc # Bad /\ h.idxCrc # Bad
  BY <1>1, KindFacts
<1>3. h.dirOff \in 1 .. n /\ h.idxOff \in 1 .. n
  BY <1>2 DEF Whole, GoodIn, Extends
<1>4. 1 .. n \subseteq DOMAIN log'
  BY DEF Extends
<1> QED
  BY <1>3, <1>4 DEF Whole, GoodIn, Extends

\* A record that is not the one just written was there before.
LEMMA ExtendsRecords ==
    ASSUME NEW n, Extends(n), NEW k \in {"jnl", "bkp"}
    PROVE  {i \in DOMAIN log' : log'[i].kind = k} \ {n + 1} = {i \in DOMAIN log : log[i].kind = k}
<1>1. Bad.kind # k
  BY KindFacts
<1>2. DOMAIN log' \ {n + 1} = 1 .. n /\ n + 1 \notin 1 .. n
  BY DEF Extends
<1> QED
  BY <1>1, <1>2 DEF Extends

\* An append keeps what Open needs, if a header record that is appended is whole
\* and may be shown, and a BKP1 follows its JNL1.
LEMMA AppendUndamaged ==
    ASSUME FileTypes, FileUndamaged, Current \subseteq Current', lost' = lost,
           NEW n \in Nat, n >= 1, n <= Len(log), EndsAt(n),
           NEW b \in Blob, PutAt(n + 1, b),
           b.kind \in {"jnl", "bkp"} => Whole(b.hdr) /\ b.hdr.dirCrc.entries \in Current',
           b.kind = "bkp" => log[n].kind = "jnl" /\ log[n].hdr.dirCrc.entries \in Current'
    PROVE  FileUndamaged' /\ (TailShows => TailShows')
<1>1. /\ Len(log) \in Nat /\ DOMAIN log = 1 .. Len(log)
      /\ Len(log') = n + 1 /\ DOMAIN log' = 1 .. (n + 1)
      /\ log'[n + 1] = b
      /\ \A i \in 1 .. n : i \in DOMAIN log /\ i \in DOMAIN log' /\ log'[i] = log[i]
      /\ \A i \in DOMAIN log : i \notin 1 .. n => log[i] = Bad
      /\ hdr' = hdr
  BY PutAtShape
<1>2. Extends(n)
  BY <1>1 DEF Extends
<1>3. \A i \in HeaderRecords(log') :
        \/ i = n + 1 /\ b.kind \in {"jnl", "bkp"} /\ log'[i] = b
        \/ i \in HeaderRecords(log) /\ i \in 1 .. n /\ log'[i] = log[i]
  <2> SUFFICES ASSUME NEW i \in HeaderRecords(log'), i # n + 1
               PROVE  i \in HeaderRecords(log) /\ i \in 1 .. n /\ log'[i] = log[i]
    BY <1>1 DEF HeaderRecords
  <2>1. i \in 1 .. n
    BY <1>1 DEF HeaderRecords
  <2> QED
    BY <1>1, <2>1 DEF HeaderRecords
<1>4. b.kind \in {"jnl", "bkp"} => b.hdr \in Header
  <2>1. b.kind \in {"jnl", "bkp"} => b \in HdrRec
    BY KindFacts DEF Blob
  <2> QED
    BY <2>1 DEF HdrRec
<1>5. RecordsWhole'
  <2>1. \A i \in HeaderRecords(log) : log[i].hdr \in Header /\ Whole(log[i].hdr)
    BY RecordTypes DEF FileUndamaged, RecordsWhole
  <2>2. \A h \in Header : Whole(h) => GoodIn(log', DOMAIN log', h)
    BY <1>2, ExtendsKeepsWhole
  <2>3. \A i \in HeaderRecords(log') : log'[i].hdr \in Header /\ Whole(log'[i].hdr)
    BY <1>3, <1>4, <2>1
  <2>4. \A i \in HeaderRecords(log') : GoodIn(log', DOMAIN log', log'[i].hdr)
    BY <2>2, <2>3
  <2> QED
    BY <2>4 DEF RecordsWhole, Whole
<1>6. SlotsShow'
  BY <1>1 DEF FileUndamaged, SlotsShow, Shows
<1>7. RecordsSince'
  <2>1. PICK m \in Nat :
        /\ \A i \in HeaderRecords(log) : i > m => Shows(log[i].hdr)
        /\ \A k \in {"jnl", "bkp"} \ lost : \E i \in DOMAIN log : i > m /\ log[i].kind = k
    BY DEF FileUndamaged, RecordsSince
  <2>2. \A i \in HeaderRecords(log') : i > m => log'[i].hdr.dirCrc.entries \in Current'
    BY <1>3, <2>1 DEF Shows
  <2>3. ASSUME NEW k \in {"jnl", "bkp"} \ lost
        PROVE  \E i \in DOMAIN log' : i > m /\ log'[i].kind = k
    <3>1. PICK i \in DOMAIN log : i > m /\ log[i].kind = k
      BY <2>1, <2>3
    <3>2. i \in 1 .. n
      BY <1>1, <3>1, KindFacts
    <3> QED
      BY <1>1, <3>1, <3>2
  <2> QED
    BY <2>2, <2>3 DEF RecordsSince, Shows
<1>8. TailShows => TailShows'
  <2> SUFFICES ASSUME TailShows PROVE TailShows'
    OBVIOUS
  <2>1. PICK c \in Newest("bkp") :
        /\ Shows(log[c].hdr)
        /\ \A j \in Newest("jnl") : Shows(log[j].hdr) \/ log[j].ts <= log[c].ts
    BY DEF TailShows
  <2> DEFINE Of(k) == {i \in DOMAIN log : log[i].kind = k}
             OfNext(k) == {i \in DOMAIN log' : log'[i].kind = k}
  <2>2. \A k \in {"jnl", "bkp"} : OfNext(k) \ {n + 1} = Of(k)
    BY <1>2, ExtendsRecords
  <2>3. \A k \in {"jnl", "bkp"} : (n + 1 \in OfNext(k) <=> b.kind = k) /\ Of(k) \subseteq 1 .. n
    <3> SUFFICES ASSUME NEW k \in {"jnl", "bkp"}
                 PROVE  (n + 1 \in OfNext(k) <=> b.kind = k) /\ Of(k) \subseteq 1 .. n
      OBVIOUS
    <3>0. DOMAIN log' = 1 .. (n + 1) /\ n + 1 \in 1 .. (n + 1)
      BY <1>1
    <3>1. n + 1 \in DOMAIN log'
      BY <3>0
    <3>2. n + 1 \in OfNext(k) <=> b.kind = k
      BY <1>1, <3>1
    <3>3. Bad.kind # k
      BY KindFacts
    <3>4. \A i \in Of(k) : i \in 1 .. n
      BY <1>1, <3>3
    <3> QED
      BY <3>2, <3>4
  <2>4. /\ \A k : Newest(k) = Last(Of(k))
        /\ \A i \in 1 .. n : log'[i] = log[i]
    BY <1>1 DEF Newest
  <2>5. \A k \in {"jnl", "bkp"} : b.kind # k => OfNext(k) = Of(k)
    BY <2>2, <2>3
  <2>6. \A k \in {"jnl", "bkp"} : b.kind = k => Last(OfNext(k)) = {n + 1}
    <3> SUFFICES ASSUME NEW k \in {"jnl", "bkp"}, b.kind = k
                 PROVE  Last(OfNext(k)) = {n + 1}
      OBVIOUS
    <3>1. n + 1 \in OfNext(k) /\ \A i \in OfNext(k) : i \in 1 .. n \/ i = n + 1
      BY <2>2, <2>3
    <3> HIDE DEF Of, OfNext
    <3> QED
      BY <3>1 DEF Last
  <2>7. TailShows' <=>
          \E d \in Last(OfNext("bkp")) :
             /\ log'[d].hdr.dirCrc.entries \in Current'
             /\ \A j \in Last(OfNext("jnl")) :
                  log'[j].hdr.dirCrc.entries \in Current' \/ log'[j].ts <= log'[d].ts
    BY DEF TailShows, Newest, Shows
  <2>8. c \in 1 .. n /\ \A j \in Newest("jnl") : j \in 1 .. n
    BY <2>3, <2>4 DEF Last
  <2> HIDE DEF Of, OfNext
  <2>9. CASE b.kind = "bkp"
    <3>1. n \in Of("jnl")
      BY <1>1, <2>9 DEF Of
    <3>2. \A j \in Last(Of("jnl")) : j = n
      BY <2>3, <3>1 DEF Last
    <3>3. Last(OfNext("bkp")) = {n + 1} /\ Last(OfNext("jnl")) = Last(Of("jnl"))
      BY <2>5, <2>6, <2>9
    <3>4. log'[n] = log[n] /\ log'[n + 1] = b
      BY <1>1
    <3> QED
      BY <2>7, <2>9, <3>2, <3>3, <3>4
  <2>10. CASE b.kind = "jnl"
    <3>1. Last(OfNext("jnl")) = {n + 1} /\ Last(OfNext("bkp")) = Newest("bkp")
      BY <2>4, <2>5, <2>6, <2>10
    <3>2. log'[c] = log[c] /\ log'[n + 1] = b
      BY <1>1, <2>8
    <3> QED
      BY <2>1, <2>7, <2>10, <3>1, <3>2 DEF Shows
  <2>11. CASE b.kind \notin {"jnl", "bkp"}
    <3>1. Last(OfNext("jnl")) = Newest("jnl") /\ Last(OfNext("bkp")) = Newest("bkp")
      BY <2>4, <2>5, <2>11
    <3>2. log'[c] = log[c] /\ \A j \in Newest("jnl") : log'[j] = log[j]
      BY <1>1, <2>8
    <3> QED
      BY <2>1, <2>7, <3>1, <3>2 DEF Shows
  <2> QED
    BY <2>9, <2>10, <2>11
<1>9. HeaderLeft'
  <2>1. \A s \in Slots : Whole(hdr[s]) => hdr[s] \in Header
    BY KindFacts DEF Whole, GoodIn, FileTypes, SlotValue, HeaderOrBad
  <2>2. \A s \in Slots : Whole(hdr[s]) => GoodIn(log', DOMAIN log', hdr[s])
    BY <1>2, <2>1, ExtendsKeepsWhole
  <2> QED
    BY <1>1, <1>8, <2>2 DEF FileUndamaged, HeaderLeft, Whole
<1> QED
  BY <1>5, <1>6, <1>7, <1>8, <1>9 DEF FileUndamaged

\* An overwritten slot, torn or not, has the directory of the old header or that
\* of the new one.
LEMMA TearsDirectory ==
    ASSUME NEW a \in SlotValue, NEW b \in SlotValue, NEW w \in Tears(a, b), w # Bad
    PROVE  \E x \in {a, b} : x # Bad /\ w.dirCrc = x.dirCrc
BY KindFacts DEF Tears, Mix, SlotValue, HeaderOrBad

\* A header slot is overwritten by a header that may be shown, while the tail or
\* the other slot has a copy.
LEMMA SlotUndamaged ==
    ASSUME FileTypes, FileUndamaged, Current \subseteq Current', lost' = lost,
           NEW s \in Slots, NEW h \in Header, Shows(h),
           NEW w \in Tears(hdr[s], h), PutSlot(s, w),
           TailShows \/ \E r \in Slots : (r # s \/ w = hdr[r]) /\ Whole(hdr[r])
    PROVE  FileUndamaged' /\ (TailShows => TailShows')
<1>1. log' = log /\ hdr' = [hdr EXCEPT ![s] = w] /\ hdr \in [Slots -> SlotValue]
  BY DEF PutSlot, FileTypes
<1>2. hdr'[s] = w /\ \A r \in Slots \ {s} : hdr'[r] = hdr[r]
  BY <1>1
<1>3. RecordsWhole' /\ \A x : Whole(x) => GoodIn(log', DOMAIN log', x)
  BY <1>1 DEF FileUndamaged, RecordsWhole, HeaderRecords, Whole, GoodIn
<1>4. SlotsShow'
  <2>1. w # Bad => w.dirCrc.entries \in Current'
    <3> SUFFICES ASSUME w # Bad PROVE w.dirCrc.entries \in Current'
      OBVIOUS
    <3>1. hdr[s] \in SlotValue /\ h \in SlotValue
      BY <1>1 DEF HeaderOrBad, SlotValue
    <3>2. PICK x \in {hdr[s], h} : x # Bad /\ w.dirCrc = x.dirCrc
      BY <3>1, TearsDirectory
    <3>3. Shows(x)
      BY <3>2 DEF FileUndamaged, SlotsShow
    <3> QED
      BY <3>2, <3>3 DEF Shows
  <2>2. \A r \in Slots \ {s} : hdr'[r] # Bad => hdr'[r].dirCrc.entries \in Current'
    BY <1>2 DEF FileUndamaged, SlotsShow, Shows
  <2> QED
    BY <1>2, <2>1, <2>2 DEF SlotsShow, Shows
<1>5. RecordsSince'
  BY <1>1 DEF FileUndamaged, RecordsSince, HeaderRecords, Shows
<1>6. TailShows => TailShows'
  BY <1>1 DEF TailShows, Newest, Last, Shows
<1>7. HeaderLeft'
  BY <1>2, <1>3, <1>6 DEF HeaderLeft, Whole
<1> QED
  BY <1>3, <1>4, <1>5, <1>6, <1>7 DEF FileUndamaged

----------------------------------------------------------------------------
(* Steps that write nothing.                                               *)

\* Outside of transactions and of Open nothing is claimed of the process.
LEMMA IdleAtWork ==
    ASSUME pc' \in {"open", "down"}
    PROVE  AtWork'
BY DEF AtWork, WritesBehind, CommitMade, CommitSlots, Recovered, InTx, Indexed, Synced1,
       Jnled, Synced2, Persisting

\* While the transaction is being filled only its place in the file matters.
LEMMA FillingAtWork ==
    ASSUME pc' = "tx", EndsNext(tx'.off)
    PROVE  AtWork'
BY DEF AtWork, WritesBehind, CommitMade, CommitSlots, Recovered, InTx, Indexed, Synced1,
       Jnled, Synced2, Persisting, EndsNext

\* In a transaction, where its next blob goes.
LEMMA TxEnds ==
    ASSUME AtWork, pc \in InTx
    PROVE  EndsAt(tx.off) /\ (pc # "tx" => Len(log) = tx.off)
BY DEF AtWork, WritesBehind, EndsAt

\* Commit's header is copied in the records it has written.
LEMMA CommitTailShows ==
    ASSUME FileTypes, AtWork, pc \in {"sync2"} \cup Synced2
    PROVE  TailShows /\ Whole(tx.h) /\ Shows(tx.h)
<1>1. pc \in InTx \ {"tx"} /\ pc \in Indexed /\ pc \in Jnled
  BY DEF InTx, Indexed, Synced1, Jnled, Synced2
<1>2. /\ Len(log) = tx.off
      /\ Whole(tx.h) /\ tx.h.dirCrc.entries = tx.entries /\ tx.entries \in begun
      /\ tx.off - 1 >= 1
      /\ log[tx.off - 1].kind = "jnl" /\ log[tx.off - 1].hdr = tx.h
      /\ log[tx.off].kind = "bkp" /\ log[tx.off].hdr = tx.h
  BY <1>1 DEF AtWork, WritesBehind, CommitMade
<1>3. Shows(tx.h)
  BY <1>2 DEF Shows, Current
<1> DEFINE m == tx.off
<1>4. Len(log) \in Nat /\ DOMAIN log = 1 .. Len(log)
  BY DEF FileTypes
<1>5. m \in Nat /\ DOMAIN log = 1 .. m /\ m - 1 >= 1
  BY <1>2, <1>4
<1> HIDE DEF m
<1>6. m \in DOMAIN log /\ m - 1 \in DOMAIN log /\ \A i \in DOMAIN log : i <= m
  BY <1>5
<1>7. log[m].kind = "bkp" /\ log[m - 1].kind = "jnl"
  BY <1>2 DEF m
<1>8. m \in Newest("bkp")
  BY <1>6, <1>7 DEF Newest, Last
<1>9. \A j \in Newest("jnl") : j = m - 1
  <2> SUFFICES ASSUME NEW j \in Newest("jnl") PROVE j = m - 1
    OBVIOUS
  <2>1. j \in DOMAIN log /\ log[j].kind = "jnl" /\ m - 1 <= j
    BY <1>6, <1>7 DEF Newest, Last
  <2>2. j # m
    BY <1>7, <2>1
  <2> QED
    BY <1>5, <2>1, <2>2
<1>10. log[m].hdr = tx.h /\ log[m - 1].hdr = tx.h
  BY <1>2 DEF m
<1>11. TailShows
  BY <1>3, <1>8, <1>9, <1>10 DEF TailShows
<1> QED
  BY <1>2, <1>3, <1>11

\* Begin, Remove, SetMeta, Rollback and Close.
LEMMA QuietUndamaged ==
    ASSUME Founded, Undamaged, Grows,
           \/ Begin
           \/ \E p \in Paths : TxRemove(p)
           \/ \E p \in Paths, m \in Metas : TxSetMeta(p, m)
           \/ Rollback
           \/ Close
    PROVE  Undamaged'
<1>1. UNCHANGED <<log, hdr, lost>> /\ Current \subseteq Current'
  BY GrowsFacts DEF Begin, TxRemove, TxSetMeta, Rollback, Close, storage
<1>2. FileUndamaged'
  BY <1>1, FrameUndamaged, UndamagedSplit
<1>3. AtWork'
  <2>1. CASE Begin
    <3>1. pc' = "tx" /\ tx'.off = Len(log) /\ log' = log /\ Len(log) \in Nat
      BY <1>1, <2>1 DEF Begin, Founded, TypeOK
    <3>2. EndsNext(tx'.off)
      BY <3>1 DEF EndsNext
    <3> QED
      BY <3>1, <3>2, FillingAtWork
  <2>2. CASE \/ \E p \in Paths : TxRemove(p)
             \/ \E p \in Paths, m \in Metas : TxSetMeta(p, m)
    <3>1. pc = "tx" /\ pc' = "tx" /\ tx'.off = tx.off
      BY <2>2 DEF TxRemove, TxSetMeta, Founded, TypeOK
    <3>2. EndsAt(tx.off)
      BY <3>1, TxEnds, UndamagedSplit DEF InTx
    <3>3. EndsNext(tx'.off)
      BY <1>1, <3>1, <3>2 DEF EndsAt, EndsNext
    <3> QED
      BY <3>1, <3>3, FillingAtWork
  <2>3. CASE Rollback \/ Close
    BY <2>3, IdleAtWork DEF Rollback, Close
  <2> QED
    BY <2>1, <2>2, <2>3
<1> QED
  BY <1>2, <1>3, UndamagedSplitPrime

\* Commit is past its index, and keeps its records.
LEMMA CommitStays ==
    ASSUME AtWork, Grows, log' = log, tx' = tx,
           pc \in Indexed, pc' \in Synced1 \ {"bkp", "sync2"},
           pc' \in Synced2 => pc \in {"sync2"} \cup Synced2
    PROVE  WritesBehind' /\ CommitMade' /\ Recovered'
<1>1. /\ pc \in InTx \ {"tx", "idx"}
      /\ pc' \in InTx \ {"tx", "idx", "bkp", "sync2"}
      /\ pc' \in Jnled => pc' \in Synced2 /\ pc \in Jnled
      /\ pc' \notin Persisting
  BY DEF InTx, Indexed, Synced1, Jnled, Synced2, Persisting
<1>2. WritesBehind'
  BY <1>1 DEF AtWork, WritesBehind
<1>3. CommitMade'
  <2>1. Whole(tx.h) => Whole(tx.h)'
    BY DEF Whole, GoodIn
  <2>2. begun \subseteq begun'
    BY DEF Grows
  <2> QED
    BY <1>1, <2>1, <2>2 DEF AtWork, CommitMade
<1>4. Recovered'
  BY <1>1 DEF Recovered
<1> QED
  BY <1>2, <1>3, <1>4

\* The fsyncs of Commit, and their failing.
LEMMA SyncUndamaged ==
    ASSUME Founded, Undamaged, Grows, Sync \/ SyncFails
    PROVE  Undamaged'
<1>1. UNCHANGED <<log, hdr, lost>> /\ Current \subseteq Current'
  BY GrowsFacts DEF Sync, SyncFails, CommitFails, Flush, FlushFail
<1>2. FileUndamaged'
  BY <1>1, FrameUndamaged, UndamagedSplit
<1>3. CASE SyncFails
  <2>1. AtWork'
    BY <1>3, IdleAtWork DEF SyncFails, CommitFails
  <2> QED
    BY <1>2, <2>1, UndamagedSplitPrime
<1>4. CASE Sync
  <2>1. /\ \/ pc = "sync1" /\ pc' = "jnl"
           \/ pc = "sync2" /\ pc' = "bak"
           \/ pc = "sync3" /\ pc' = "prim"
           \/ pc = "sync4" /\ pc' = "publish"
        /\ tx' = tx
    BY <1>4 DEF Sync, AfterSync
  <2>2. /\ pc \in Indexed /\ pc' \in Synced1 \ {"bkp", "sync2"}
        /\ pc' \in Synced2 => pc \in {"sync2"} \cup Synced2
    BY <2>1 DEF Indexed, Synced1, Jnled, Synced2
  <2>3. WritesBehind' /\ CommitMade' /\ Recovered'
    BY <1>1, <2>1, <2>2, CommitStays, UndamagedSplit
  <2>4. CommitSlots'
    BY <1>1, <2>1, UndamagedSplit DEF AtWork, CommitSlots
  <2> QED
    BY <1>2, <2>3, <2>4, UndamagedSplitPrime DEF AtWork
<1> QED
  BY <1>3, <1>4

\* Open, and what follows the header it writes back.
LEMMA OpensUndamaged ==
    ASSUME TailInReach, Founded, Undamaged, Grows,
           OpenPrimary \/ OpenRecovered \/ OpenScan \/ PersistSync \/ PersistSkip
    PROVE  Undamaged'
<1>1. UNCHANGED <<log, hdr, lost>> /\ Current \subseteq Current'
  BY GrowsFacts DEF OpenPrimary, OpenRecovered, OpenScan, Opened, PersistSync, PersistSkip,
                    Flush, FlushFail, storage
<1>2. FileUndamaged' /\ (TailShows => TailShows')
  BY <1>1, FrameUndamaged, UndamagedSplit
<1>3. CASE OpenPrimary \/ OpenScan \/ PersistSync \/ PersistSkip
  <2>1. AtWork'
    BY <1>3, IdleAtWork DEF OpenPrimary, OpenScan, PersistSync, PersistSkip
  <2> QED
    BY <1>2, <2>1, UndamagedSplitPrime
<1>4. CASE OpenRecovered
  <2>1. PICK o \in OpenFrom(log, hdr) :
          o.src \in {"backup", "tail"} /\ mem'.header = o.header
    BY <1>4 DEF OpenRecovered, Opened
  <2>2. /\ Shows(o.header) /\ Whole(o.header)
        /\ o.header = hdr["backup"] \/ TailShows
    BY <2>1, OpensShown, UndamagedSplit, TypesSplit DEF Founded
  <2>3. Recovered'
    <3>1. Whole(mem.header)' /\ Shows(mem.header)'
      BY <1>1, <2>1, <2>2 DEF Whole, GoodIn, Shows
    <3>2. (hdr["backup"] = mem.header)' \/ TailShows'
      BY <1>1, <1>2, <2>1, <2>2
    <3> QED
      BY <3>1, <3>2 DEF Recovered
  <2>4. WritesBehind' /\ CommitMade' /\ CommitSlots'
    BY <1>4 DEF OpenRecovered, WritesBehind, CommitMade, CommitSlots, InTx, Indexed, Synced1,
                Jnled, Synced2
  <2> QED
    BY <1>2, <2>3, <2>4, UndamagedSplitPrime DEF AtWork
<1> QED
  BY <1>3, <1>4

\* Commit returns nil: of the header records, its own two and any later ones
\* show its snapshot.
LEMMA PublishUndamaged ==
    ASSUME Founded, Undamaged, Publish, committed' = tx.entries, begun' = {}, lost' = lost
    PROVE  Undamaged'
<1>1. /\ pc = "publish" /\ pc' = "open" /\ log' = log /\ hdr' = hdr
  BY DEF Publish, storage
<1>2. AtWork /\ FileUndamaged /\ FileTypes /\ pc \in {"sync2"} \cup Synced2
  BY <1>1, UndamagedSplit, TypesSplit DEF Founded, Synced2
<1>3. Whole(tx.h)
  BY <1>2, CommitTailShows
<1>4. Current' = {tx.entries}
  BY DEF Current
<1>5. /\ Len(log) = tx.off /\ tx.h.dirCrc.entries = tx.entries
      /\ tx.off - 1 >= 1
      /\ log[tx.off - 1].kind = "jnl" /\ log[tx.off - 1].hdr = tx.h
      /\ log[tx.off].kind = "bkp" /\ log[tx.off].hdr = tx.h
      /\ hdr["backup"] = tx.h /\ hdr["primary"] = tx.h
  BY <1>1, <1>2 DEF AtWork, WritesBehind, CommitMade, CommitSlots, InTx, Indexed, Synced1,
                    Jnled, Synced2
<1>6. RecordsWhole'
  BY <1>1, <1>2 DEF FileUndamaged, RecordsWhole, HeaderRecords, Whole, GoodIn
<1>7. SlotsShow'
  BY <1>1, <1>4, <1>5 DEF SlotsShow, Shows, Slots
<1>8. RecordsSince'
  <2> DEFINE m == tx.off
  <2>1. Len(log) \in Nat /\ DOMAIN log = 1 .. Len(log)
    BY <1>2 DEF FileTypes
  <2>2. m \in Nat /\ DOMAIN log = 1 .. m /\ m - 1 >= 1
    BY <1>5, <2>1
  <2>3. /\ log[m - 1].kind = "jnl" /\ log[m - 1].hdr = tx.h
        /\ log[m].kind = "bkp" /\ log[m].hdr = tx.h
    BY <1>5
  <2> HIDE DEF m
  <2>4. m - 2 \in Nat /\ \A i \in DOMAIN log : i > m - 2 => i = m - 1 \/ i = m
    BY <2>2
  <2>5. m \in DOMAIN log /\ m > m - 2 /\ m - 1 \in DOMAIN log /\ m - 1 > m - 2
    BY <2>2
  <2>6. \A i \in HeaderRecords(log) : i > m - 2 => log[i].hdr.dirCrc.entries \in Current'
    BY <1>4, <1>5, <2>3, <2>4 DEF HeaderRecords
  <2>7. \A k \in {"jnl", "bkp"} \ lost : \E i \in DOMAIN log : i > m - 2 /\ log[i].kind = k
    BY <2>3, <2>5
  <2> QED
    BY <1>1, <2>4, <2>6, <2>7 DEF RecordsSince, Shows
<1>9. HeaderLeft'
  BY <1>1, <1>3, <1>5 DEF HeaderLeft, Whole, GoodIn, Slots
<1>10. AtWork'
  BY <1>1, IdleAtWork
<1> QED
  BY <1>6, <1>7, <1>8, <1>9, <1>10, UndamagedSplitPrime DEF FileUndamaged

----------------------------------------------------------------------------
(* Appends.                                                                *)

\* Where the transaction appends its next blob.
LEMMA AppendPlace ==
    ASSUME Founded, Undamaged, Grows, pc \in Appending
    PROVE  /\ FileTypes /\ FileUndamaged /\ AtWork
           /\ Current \subseteq Current' /\ lost' = lost
           /\ tx.off \in Nat /\ tx.off >= 1 /\ tx.off <= Len(log)
           /\ EndsAt(tx.off) /\ (pc # "tx" => Len(log) = tx.off)
           /\ tx.off \in DOMAIN log
<1>1. pc \in InTx
  BY DEF Appending, InTx, Indexed, Synced1, Jnled
<1>2. /\ FileTypes /\ FileUndamaged /\ AtWork
      /\ Current \subseteq Current' /\ lost' = lost
      /\ tx.off \in Nat /\ tx.off >= 1 /\ tx.off <= Len(log) /\ Len(log) \in Nat
  BY AppendsWithin, GrowsFacts, UndamagedSplit, TypesSplit DEF Founded
<1>3. EndsAt(tx.off) /\ (pc # "tx" => Len(log) = tx.off)
  BY <1>1, <1>2, TxEnds
<1>4. tx.off \in DOMAIN log
  <2>1. DOMAIN log = 1 .. Len(log)
    BY <1>2 DEF FileTypes
  <2> HIDE DEF FileTypes
  <2> QED
    BY <1>2, <2>1
<1> QED
  BY <1>2, <1>3, <1>4

\* The file behind the new blob.
LEMMA AppendEnds ==
    ASSUME FileTypes, NEW n \in Nat, n >= 1, n <= Len(log), EndsAt(n),
           NEW b \in Blob, PutAt(n + 1, b)
    PROVE  /\ Len(log') = n + 1 /\ log'[n + 1] = b /\ log'[n] = log[n]
           /\ n + 1 \in DOMAIN log' /\ n \in DOMAIN log'
           /\ \A m : m = n + 1 => EndsNext(m)
           /\ b = Bad => EndsNext(n)
<1>1. /\ Len(log') = n + 1 /\ DOMAIN log' = 1 .. (n + 1) /\ log'[n + 1] = b
      /\ \A i \in 1 .. n : log'[i] = log[i]
  BY PutAtShape
<1>2. n \in 1 .. n /\ n \in 1 .. (n + 1) /\ n + 1 \in 1 .. (n + 1)
  OBVIOUS
<1>3. \A m : m = n + 1 => EndsNext(m)
  BY <1>1 DEF EndsNext
<1>4. b = Bad => EndsNext(n)
  BY <1>1 DEF EndsNext
<1> QED
  BY <1>1, <1>2, <1>3, <1>4

\* A blob that is no header record.
LEMMA PlainAppend ==
    ASSUME Founded, Undamaged, Grows, pc \in Appending,
           NEW b \in Blob, b.kind \notin {"jnl", "bkp"}, PutAt(tx.off + 1, b)
    PROVE  FileUndamaged'
BY AppendPlace, AppendUndamaged

\* Add, Upsert, Replace, whether they fail or not, and an append that fails.
LEMMA PutsUndamaged ==
    ASSUME Founded, Undamaged, Grows,
           \/ \E p \in Paths, v \in Vals, m \in Metas : TxPut(p, v, m)
           \/ \E v \in Vals : TxPutFail(v)
           \/ AppendFails
    PROVE  Undamaged'
<1>1. \A v \in Vals : Chunk(v) \in Blob /\ Chunk(v).kind \notin {"jnl", "bkp"}
  BY BlobTypes DEF Chunk
<1>2. Bad \in Blob /\ Bad.kind \notin {"jnl", "bkp"}
  BY BlobTypes, KindFacts
<1>3. ASSUME pc \in Appending
      PROVE  /\ \A b \in Blob : b.kind \notin {"jnl", "bkp"} /\ PutAt(tx.off + 1, b) =>
                  FileUndamaged' /\ \A m : m = tx.off + 1 => EndsNext(m)
             /\ PutAt(tx.off + 1, Bad) => EndsNext(tx.off)
  <2>1. /\ FileTypes /\ tx.off \in Nat /\ tx.off >= 1 /\ tx.off <= Len(log) /\ EndsAt(tx.off)
    BY <1>3, AppendPlace
  <2> QED
    BY <1>2, <1>3, <2>1, PlainAppend, AppendEnds
<1>4. CASE \E p \in Paths, v \in Vals, m \in Metas : TxPut(p, v, m)
  <2>1. PICK v \in Vals :
          pc = "tx" /\ pc' = "tx" /\ PutAt(tx.off + 1, Chunk(v)) /\ tx'.off = tx.off + 1
    BY <1>4 DEF TxPut, Founded, TypeOK
  <2>2. FileUndamaged' /\ EndsNext(tx'.off)
    BY <1>1, <1>3, <2>1 DEF Appending
  <2> QED
    BY <2>1, <2>2, FillingAtWork, UndamagedSplitPrime
<1>5. CASE \E v \in Vals : TxPutFail(v)
  <2>1. PICK v \in Vals :
          /\ pc = "tx" /\ pc' = "tx"
          /\ \/ PutAt(tx.off + 1, Bad) /\ tx' = tx
             \/ PutAt(tx.off + 1, Chunk(v)) /\ tx'.off = tx.off + 1
    BY <1>5 DEF TxPutFail, Founded, TypeOK
  <2>2. FileUndamaged' /\ EndsNext(tx'.off)
    BY <1>1, <1>2, <1>3, <2>1 DEF Appending
  <2> QED
    BY <2>1, <2>2, FillingAtWork, UndamagedSplitPrime
<1>6. CASE AppendFails
  <2>1. pc \in Appending /\ pc' = "open" /\ PutAt(tx.off + 1, Bad)
    BY <1>6 DEF AppendFails, CommitFails, Appending
  <2> QED
    BY <1>2, <1>3, <2>1, IdleAtWork, UndamagedSplitPrime
<1> QED
  BY <1>4, <1>5, <1>6

\* Commit's directory.
LEMMA AppendDirUndamaged ==
    ASSUME Founded, Undamaged, Grows, NEW t \in Times, AppendDir(t)
    PROVE  Undamaged'
<1>1. /\ pc = "tx" /\ pc' = "idx" /\ PutAt(tx.off + 1, Dir(tx.entries, t))
      /\ tx'.off = tx.off + 1 /\ tx'.entries = tx.entries
  BY DEF AppendDir, CommitAppend, Founded, TypeOK
<1>2. Dir(tx.entries, t) \in Blob /\ Dir(tx.entries, t).kind = "dir"
  BY BlobTypes DEF Founded, TypeOK, Dir
<1>3. pc \in Appending
  BY <1>1 DEF Appending
<1>4. FileUndamaged'
  BY <1>1, <1>2, <1>3, PlainAppend
<1>5. Len(log') = tx.off + 1 /\ log'[tx.off + 1] = Dir(tx.entries, t) /\ EndsNext(tx'.off)
  BY <1>1, <1>2, <1>3, AppendPlace, AppendEnds
<1>6. WritesBehind'
  BY <1>1, <1>5 DEF WritesBehind, EndsNext
<1>7. CommitMade'
  BY <1>1, <1>5 DEF CommitMade, Indexed, Synced1, Jnled, Synced2, Dir
<1>8. CommitSlots' /\ Recovered'
  BY <1>1 DEF CommitSlots, Recovered, Persisting
<1> QED
  BY <1>4, <1>6, <1>7, <1>8, UndamagedSplitPrime DEF AtWork

\* Commit's index, and the header made of both.
LEMMA AppendIdxUndamaged ==
    ASSUME Founded, Undamaged, Grows, AppendIdx
    PROVE  Undamaged'
<1> DEFINE g == NextGen(mem.header)
           x == Idx(tx.off, log[tx.off], g)
           h == [kind |-> "hdr", dirOff |-> tx.off, dirCrc |-> log[tx.off],
                 idxOff |-> tx.off + 1, idxCrc |-> x, gen |-> g]
<1>1. /\ pc = "idx" /\ pc' \in {"sync1", "jnl"} /\ PutAt(tx.off + 1, x)
      /\ tx' = [tx EXCEPT !.off = @ + 1, !.h = h]
  BY DEF AppendIdx, CommitAppend
<1>2. pc \in Appending
  BY <1>1 DEF Appending
<1>3. g \in 0 .. MaxGen
  <2>1. mem.header \in Header
    BY <1>1 DEF Founded, HeadersMade
  <2> QED
    BY <2>1, FormatAssumption DEF NextGen, Header, HeaderOf
<1>4. x \in Blob /\ x.kind = "idx" /\ x.dirOff = tx.off /\ x.dirCrc = log[tx.off] /\ x.gen = g
  <2> HIDE DEF g
  <2>1. log[tx.off] \in DirRec /\ tx.off \in Nat
    BY <1>1, <1>2, AppendPlace DEF Founded, HeadersMade
  <2> QED
    BY <1>3, <2>1, BlobTypes DEF Idx
<1>5. /\ h.dirOff = tx.off /\ h.dirCrc = log[tx.off] /\ h.idxOff = tx.off + 1
      /\ h.idxCrc = x /\ h.gen = g /\ h.kind = "hdr"
  OBVIOUS
<1>6. tx'.off = tx.off + 1 /\ tx'.entries = tx.entries /\ tx'.h = h
  BY <1>1 DEF Founded, TypeOK
<1>7. log[tx.off].entries = tx.entries
  BY <1>1, UndamagedSplit DEF AtWork, CommitMade
<1> HIDE DEF g, x, h
<1>8. FileUndamaged'
  BY <1>1, <1>2, <1>4, PlainAppend
<1>9. /\ Len(log') = tx.off + 1 /\ log'[tx.off + 1] = x /\ log'[tx.off] = log[tx.off]
      /\ tx.off + 1 \in DOMAIN log' /\ tx.off \in DOMAIN log' /\ EndsNext(tx'.off)
  BY <1>1, <1>2, <1>4, <1>6, AppendPlace, AppendEnds
<1>10. WritesBehind'
  BY <1>6, <1>9 DEF WritesBehind, EndsNext
<1>11. GoodIn(log', DOMAIN log', tx'.h)
  BY <1>4, <1>5, <1>6, <1>9 DEF GoodIn
<1>12. CommitMade'
  BY <1>1, <1>5, <1>6, <1>7, <1>11 DEF CommitMade, Whole, Jnled, Synced2
<1>13. CommitSlots' /\ Recovered'
  BY <1>1 DEF CommitSlots, Recovered, Persisting
<1> QED
  BY <1>8, <1>10, <1>12, <1>13, UndamagedSplitPrime DEF AtWork

\* Commit's two header records.
LEMMA RecordsUndamaged ==
    ASSUME Founded, Undamaged, Grows, NEW t \in Times, AppendJnl(t) \/ AppendBkp(t)
    PROVE  Undamaged'
<1>1. PICK k \in {"jnl", "bkp"} :
        /\ PutAt(tx.off + 1, HeaderRecord(k, t, tx.h))
        /\ pc = k
        /\ k = "jnl" => pc' = "bkp" /\ tx.entries \in maybe'
        /\ k = "bkp" => pc' \in {"sync2", "bak"}
        /\ tx' = [tx EXCEPT !.off = @ + 1]
  BY DEF AppendJnl, AppendBkp, CommitAppend
<1> DEFINE b == HeaderRecord(k, t, tx.h)
<1>2. tx'.off = tx.off + 1 /\ tx'.entries = tx.entries /\ tx'.h = tx.h
  BY <1>1 DEF Founded, TypeOK
<1>3. pc \in Appending /\ pc \in Indexed
  BY <1>1 DEF Appending, Indexed, Synced1, Jnled
<1>4. /\ FileTypes /\ FileUndamaged /\ AtWork /\ Current \subseteq Current' /\ lost' = lost
      /\ tx.off \in Nat /\ tx.off >= 1 /\ tx.off <= Len(log) /\ EndsAt(tx.off)
      /\ tx.off \in DOMAIN log
  BY <1>3, AppendPlace
<1>5. tx.h \in Header /\ Whole(tx.h) /\ tx.h.dirCrc.entries = tx.entries
  BY <1>3, <1>4 DEF Founded, HeadersMade, AtWork, CommitMade
<1>6. b \in Blob /\ b.kind = k /\ b.hdr = tx.h
  <2>1. b \in HdrRec /\ HdrRec \subseteq Blob
    BY <1>5, BlobTypes
  <2> QED
    BY <2>1 DEF HeaderRecord
<1> HIDE DEF b
<1>7. tx.entries \in begun' /\ tx.entries \in Current'
  <2>1. CASE k = "jnl"
    BY <1>1, <2>1 DEF Grows, Current
  <2>2. CASE k = "bkp"
    BY <1>1, <1>4, <2>2 DEF Grows, Current, AtWork, CommitMade, Jnled
  <2> QED
    BY <2>1, <2>2
<1>8. k = "bkp" => log[tx.off].kind = "jnl" /\ log[tx.off].hdr = tx.h
  BY <1>1, <1>4 DEF AtWork, CommitMade
<1>9. PutAt(tx.off + 1, b)
  BY <1>1 DEF b
<1>10. FileUndamaged'
  <2>1. b.kind \in {"jnl", "bkp"} => Whole(b.hdr) /\ b.hdr.dirCrc.entries \in Current'
    BY <1>5, <1>6, <1>7
  <2>2. b.kind = "bkp" => log[tx.off].kind = "jnl" /\ log[tx.off].hdr.dirCrc.entries \in Current'
    BY <1>5, <1>6, <1>7, <1>8
  <2> QED
    BY <1>4, <1>6, <1>9, <2>1, <2>2, AppendUndamaged
<1>11. /\ Len(log') = tx.off + 1 /\ log'[tx.off + 1] = b /\ log'[tx.off] = log[tx.off]
       /\ EndsNext(tx'.off)
  BY <1>2, <1>4, <1>6, <1>9, AppendEnds
<1>12. WritesBehind'
  BY <1>2, <1>11 DEF WritesBehind, EndsNext
<1>13. GoodIn(log', DOMAIN log', tx'.h)
  <2>1. Extends(tx.off)
    BY <1>4, <1>6, <1>9, PutAtShape DEF Extends
  <2> QED
    BY <1>2, <1>5, <2>1, ExtendsKeepsWhole
<1>14. pc' # "idx" /\ pc' \notin Persisting
  BY <1>1 DEF Persisting
<1>15. CommitMade'
  <2>1. Whole(tx.h)' /\ tx'.h.dirCrc.entries = tx'.entries /\ tx'.entries \in begun'
    BY <1>2, <1>5, <1>7, <1>13 DEF Whole
  <2>2. CASE k = "jnl"
    <3>1. pc' = "bkp" /\ log'[tx'.off].kind = "jnl" /\ log'[tx'.off].hdr = tx'.h
      BY <1>1, <1>2, <1>6, <1>11, <2>2
    <3> QED
      BY <2>1, <3>1 DEF CommitMade, Synced2
  <2>3. CASE k = "bkp"
    <3>1. pc' \in {"sync2", "bak"}
      BY <1>1, <2>3
    <3>2. /\ tx'.off - 1 = tx.off /\ tx'.off - 1 >= 1
          /\ log'[tx'.off].kind = "bkp" /\ log'[tx'.off].hdr = tx'.h
      BY <1>2, <1>4, <1>6, <1>11, <2>3
    <3>3. log'[tx'.off - 1].kind = "jnl" /\ log'[tx'.off - 1].hdr = tx'.h
      BY <1>2, <1>8, <1>11, <2>3, <3>2
    <3> QED
      BY <2>1, <3>1, <3>2, <3>3 DEF CommitMade
  <2> QED
    BY <2>2, <2>3
<1>16. CommitSlots' /\ Recovered'
  BY <1>1, <1>14 DEF CommitSlots, Recovered
<1> QED
  BY <1>10, <1>12, <1>15, <1>16, UndamagedSplitPrime DEF AtWork

----------------------------------------------------------------------------
(* The header slots.                                                       *)

\* Commit writes them once its records are there.
LEMMA CommitSlotsUndamaged ==
    ASSUME Founded, Undamaged, Grows,
           WriteBackup \/ WritePrimary \/ WriteBackupFails \/ WritePrimaryFails
    PROVE  Undamaged'
<1>1. /\ pc \in {"bak", "prim"}
      /\ \/ /\ pc = "bak" /\ pc' \in {"sync3", "prim"} /\ tx' = tx
            /\ PutSlot("backup", tx.h)
         \/ /\ pc = "prim" /\ pc' \in {"sync4", "publish"} /\ tx' = tx
            /\ PutSlot("primary", tx.h)
         \/ /\ pc' = "open"
            /\ \E s \in Slots : \E w \in Tears(hdr[s], tx.h) : PutSlot(s, w)
  BY DEF WriteBackup, WritePrimary, WriteBackupFails, WritePrimaryFails, CommitFails, Slots
<1>2. pc \in {"sync2"} \cup Synced2 /\ pc \in Indexed
  BY <1>1 DEF Indexed, Synced1, Jnled, Synced2
<1>3. FileTypes /\ FileUndamaged /\ AtWork /\ tx.h \in Header
  BY <1>2, UndamagedSplit, TypesSplit DEF Founded, HeadersMade
<1>4. TailShows /\ Shows(tx.h)
  BY <1>2, <1>3, CommitTailShows
<1>5. \A s \in Slots : hdr[s] \in SlotValue
  BY <1>3 DEF FileTypes
<1>6. \A s \in Slots : tx.h \in Tears(hdr[s], tx.h)
  BY <1>3, <1>5, TearsSelf
<1>7. \A s \in Slots : \A w \in Tears(hdr[s], tx.h) : PutSlot(s, w) => FileUndamaged'
  BY <1>3, <1>4, GrowsFacts, SlotUndamaged
<1>8. FileUndamaged'
  BY <1>1, <1>6, <1>7 DEF Slots
<1>9. CASE pc' = "open"
  BY <1>8, <1>9, IdleAtWork, UndamagedSplitPrime
<1>10. CASE pc' # "open"
  <2>1. /\ tx' = tx /\ log' = log
        /\ \/ pc = "bak" /\ pc' \in {"sync3", "prim"} /\ hdr' = [hdr EXCEPT !["backup"] = tx.h]
           \/ /\ pc = "prim" /\ pc' \in {"sync4", "publish"}
              /\ hdr' = [hdr EXCEPT !["primary"] = tx.h]
    BY <1>1, <1>10 DEF PutSlot
  <2>2. /\ pc' \in Synced1 \ {"bkp", "sync2"}
        /\ pc' \in Synced2 => pc \in {"sync2"} \cup Synced2
    BY <1>2, <2>1 DEF Synced1, Jnled, Synced2
  <2>3. WritesBehind' /\ CommitMade' /\ Recovered'
    BY <1>2, <1>3, <2>1, <2>2, CommitStays
  <2>4. CommitSlots'
    <3>1. hdr \in [Slots -> SlotValue]
      BY <1>3 DEF FileTypes
    <3>2. pc = "prim" => hdr["backup"] = tx.h
      BY <1>3 DEF AtWork, CommitSlots
    <3> QED
      BY <2>1, <3>1, <3>2 DEF CommitSlots, Slots
  <2> QED
    BY <1>8, <2>3, <2>4, UndamagedSplitPrime DEF AtWork
<1> QED
  BY <1>9, <1>10

\* persistRecoveredHeader, whichever of its writes fail: what was recovered from
\* the backup slot is written over the primary first, and then over itself.
LEMMA PersistUndamaged ==
    ASSUME Founded, Undamaged, Grows, PersistPrimary \/ PersistBackup
    PROVE  Undamaged'
<1>1. /\ UNCHANGED <<mem, tx>>
      /\ \/ /\ pc = "pprim" /\ pc' = "pbak"
            /\ \/ PutSlot("primary", mem.header)
               \/ \E w \in Tears(hdr["primary"], mem.header) : PutSlot("primary", w)
         \/ /\ pc = "pbak" /\ pc' = "psync"
            /\ \/ PutSlot("backup", mem.header)
               \/ \E w \in Tears(hdr["backup"], mem.header) : PutSlot("backup", w)
  BY DEF PersistPrimary, PersistBackup, PersistSlot
<1>2. /\ FileTypes /\ FileUndamaged /\ mem.header \in Header
      /\ Whole(mem.header) /\ Shows(mem.header)
      /\ hdr["backup"] = mem.header \/ TailShows
  BY <1>1, UndamagedSplit, TypesSplit
  DEF Founded, HeadersMade, AtWork, Recovered, Persisting
<1>3. \A s \in Slots : hdr[s] \in SlotValue /\ mem.header \in Tears(hdr[s], mem.header)
  <2>1. \A s \in Slots : hdr[s] \in SlotValue
    BY <1>2 DEF FileTypes
  <2> QED
    BY <1>2, <2>1, TearsSelf
<1>4. PICK s \in Slots : \E w \in Tears(hdr[s], mem.header) :
        /\ PutSlot(s, w)
        /\ s = "primary" \/ s = "backup"
  BY <1>1, <1>3 DEF Slots
<1>5. PICK w \in Tears(hdr[s], mem.header) : PutSlot(s, w)
  BY <1>4
<1>6. s = "backup" /\ hdr["backup"] = mem.header => w = hdr["backup"]
  BY <1>5 DEF Tears
<1>7. TailShows \/ \E r \in Slots : (r # s \/ w = hdr[r]) /\ Whole(hdr[r])
  BY <1>2, <1>4, <1>6 DEF Slots
<1>8. FileUndamaged' /\ (TailShows => TailShows')
  BY <1>2, <1>5, <1>7, GrowsFacts, SlotUndamaged
<1>9. log' = log /\ hdr' = [hdr EXCEPT ![s] = w] /\ hdr \in [Slots -> SlotValue]
  BY <1>2, <1>5 DEF PutSlot, FileTypes
<1>10. hdr["backup"] = mem.header => hdr'["backup"] = mem.header
  BY <1>4, <1>6, <1>9 DEF Slots
<1>11. Recovered'
  <2>1. Whole(mem.header)' /\ Shows(mem.header)'
    BY <1>1, <1>2, <1>9, GrowsFacts DEF Whole, GoodIn, Shows
  <2> QED
    BY <1>1, <1>2, <1>8, <1>10, <2>1 DEF Recovered
<1>12. WritesBehind' /\ CommitMade' /\ CommitSlots'
  BY <1>1 DEF WritesBehind, CommitMade, CommitSlots, InTx, Indexed, Synced1, Jnled, Synced2
<1> QED
  BY <1>8, <1>11, <1>12, UndamagedSplitPrime DEF AtWork

----------------------------------------------------------------------------
(* The process is killed, and the file is damaged.                         *)

\* A kill leaves the file alone and nobody at work.
LEMMA KillKeeps ==
    ASSUME Founded, Undamaged, Kill
    PROVE  Founded' /\ Undamaged'
<1>1. /\ pc' = "down" /\ mem' = NoMem /\ tx' = NoTx
      /\ UNCHANGED <<storage, ghosts, budgets, damageVars, commitGhosts>>
  BY DEF Kill
<1>2. FileKept
  BY <1>1, SameFile, TypesSplit DEF Founded
<1>3. Founded'
  BY <1>1, <1>2, OutsideFounded, NoMemTypes DEF Founded, TypeOK, ghosts, budgets
<1>4. FileUndamaged'
  <2>1. UNCHANGED <<log, hdr, lost>> /\ Current' = Current
    BY <1>1 DEF storage, damageVars, commitGhosts, Current
  <2> QED
    BY <2>1, FrameUndamaged, UndamagedSplit
<1> QED
  BY <1>1, <1>3, <1>4, IdleAtWork, UndamagedSplitPrime

\* Where a slot or both records are left, or a BKP1 that wins, Open finds a
\* header.
LEMMA CopySuffices ==
    ASSUME FileTypes', RecordsSince', CopyLeft'
    PROVE  HeaderLeft'
<1>1. DOMAIN log' = 1 .. Len(log') /\ Len(log') \in Nat
  BY DEF FileTypes
<1>2. CASE \E s \in Slots : Loadable(log', hdr'[s])
  BY <1>2 DEF HeaderLeft, Whole, Loadable, DirOK, IdxOK, GoodIn
<1>3. CASE "bkp" \notin lost' /\ ("jnl" \notin lost' \/ ClockForward')
  <2> DEFINE Of(k) == {i \in DOMAIN log' : log'[i].kind = k}
  <2>1. PICK n \in Nat :
          /\ \A i \in HeaderRecords(log') : i > n => log'[i].hdr.dirCrc.entries \in Current'
          /\ \A k \in {"jnl", "bkp"} \ lost' : \E i \in DOMAIN log' : i > n /\ log'[i].kind = k
    BY DEF RecordsSince, Shows
  <2>2. \A k \in {"jnl", "bkp"} :
          /\ \A i \in Of(k) : i \in HeaderRecords(log') /\ i \in 1 .. Len(log')
          /\ Of(k) # {} => Last(Of(k)) # {}
    <3> SUFFICES ASSUME NEW k \in {"jnl", "bkp"}
                 PROVE  /\ \A i \in Of(k) : i \in HeaderRecords(log') /\ i \in 1 .. Len(log')
                        /\ Of(k) # {} => Last(Of(k)) # {}
      OBVIOUS
    <3>1. \A i \in Of(k) : i \in HeaderRecords(log') /\ i \in 1 .. Len(log')
      BY <1>1 DEF HeaderRecords
    <3> HIDE DEF Of
    <3> QED
      BY <1>1, <3>1, LastExists
  <2>3. TailShows' <=>
          \E d \in Last(Of("bkp")) :
             /\ log'[d].hdr.dirCrc.entries \in Current'
             /\ \A j \in Last(Of("jnl")) :
                  log'[j].hdr.dirCrc.entries \in Current' \/ log'[j].ts <= log'[d].ts
    BY DEF TailShows, Newest, Shows
  <2>4. \A k \in {"jnl", "bkp"} \ lost' : \E i \in Of(k) : i > n
    BY <2>1
  <2>5. ClockForward' =>
          \A i, j \in HeaderRecords(log') : i < j => log'[i].ts <= log'[j].ts
    BY DEF ClockForward
  <2> HIDE DEF Of
  <2>6. PICK i \in Of("bkp") : i > n
    BY <1>3, <2>4
  <2>7. PICK d \in Last(Of("bkp")) : TRUE
    BY <2>2, <2>6
  <2>8. d \in Of("bkp") /\ i <= d
    BY <2>6, <2>7 DEF Last
  <2>9. i \in Nat /\ d \in Nat /\ d > n
    BY <1>1, <2>2, <2>6, <2>8
  <2>10. d \in HeaderRecords(log') /\ log'[d].hdr.dirCrc.entries \in Current'
    BY <2>1, <2>2, <2>8, <2>9
  <2>11. ASSUME NEW j \in Last(Of("jnl"))
         PROVE  log'[j].hdr.dirCrc.entries \in Current' \/ log'[j].ts <= log'[d].ts
    <3>1. j \in Of("jnl") /\ \A m \in Of("jnl") : m <= j
      BY DEF Last
    <3>2. j \in HeaderRecords(log') /\ j \in Nat
      BY <1>1, <2>2, <3>1
    <3>3. CASE j > n
      BY <2>1, <3>2, <3>3
    <3>4. CASE ~(j > n)
      <4>1. j < d
        BY <2>9, <3>2, <3>4
      <4>2. "jnl" \in lost'
        <5> SUFFICES ASSUME "jnl" \notin lost' PROVE FALSE
          OBVIOUS
        <5>1. PICK m \in Of("jnl") : m > n
          BY <2>4
        <5>2. m <= j /\ m \in Nat
          BY <1>1, <2>2, <3>1, <5>1
        <5> QED
          BY <3>2, <3>4, <5>1, <5>2
      <4> QED
        BY <1>3, <2>5, <2>10, <3>2, <4>1, <4>2
    <3> QED
      BY <3>3, <3>4
  <2> QED
    BY <2>3, <2>7, <2>10, <2>11 DEF HeaderLeft
<1> QED
  BY <1>2, <1>3 DEF CopyLeft

\* A file at rest whose slots are as before or Bad.
LEMMA AtRestKeeps ==
    ASSUME Founded, AtRest, log' \in Seq(Blob), Len(log') = Len(log), log'[1] = log[1],
           hdr' \in [Slots -> SlotValue]
    PROVE  Founded' /\ AtWork' /\ FileTypes' /\ Current' = Current
<1>1. /\ pc = "down" /\ pc' = "down" /\ UNCHANGED <<mem, tx, ghosts, budgets, commitGhosts>>
      /\ dur' = DOMAIN log /\ disk' = [s \in Slots |-> {hdr'[s]}] /\ dirty' = {}
  BY DEF AtRest
<1>2. /\ log \in Seq(Blob) /\ Len(log) \in Nat /\ DOMAIN log = 1 .. Len(log)
      /\ Len(log) <= MaxLog
      /\ FirstDirectory
  BY DEF Founded, TypeOK
<1>3. dur' = 1 .. Len(log')
  BY <1>1, <1>2
<1>4. disk' \in [Slots -> SUBSET SlotValue]
  BY <1>1
<1>5. FileTypes'
  BY <1>1, <1>2, <1>3, <1>4 DEF FileTypes
<1>6. FirstDirectory'
  <2>1. log' = <<>> <=> log = <<>>
    BY <1>2
  <2>2. log # <<>> => 1 \in dur'
    BY <1>2, <1>3
  <2> QED
    BY <1>2, <2>1, <2>2 DEF FirstDirectory, Created
<1>7. Founded'
  BY <1>1, <1>5, <1>6, OutsideFounded DEF FileKept, Founded, TypeOK, ghosts, budgets
<1> QED
  BY <1>1, <1>5, <1>7, IdleAtWork DEF commitGhosts, Current

\* Damage of one blob: a record of each kind not damaged so far is left.
LEMMA DamageBlobKeeps ==
    ASSUME Founded, Undamaged, NEW i \in DOMAIN log, DamageBlob(i), enough'
    PROVE  Founded' /\ Undamaged'
<1>1. /\ log[i] # Bad /\ log' = [log EXCEPT ![i] = Bad] /\ hdr' = hdr
      /\ lost' = lost \cup {log[i].kind} /\ log[i].kind \notin {"dir", "idx"}
      /\ CopyLeft' /\ AtRest
  BY DEF DamageBlob, Hit
<1>2. FileTypes /\ FileUndamaged /\ log \in Seq(Blob) /\ DOMAIN log = 1 .. Len(log)
  BY UndamagedSplit, TypesSplit DEF Founded, TypeOK
<1>3. /\ log' \in Seq(Blob) /\ Len(log') = Len(log) /\ DOMAIN log' = DOMAIN log
      /\ \A j \in DOMAIN log : j # i => log'[j] = log[j]
      /\ log'[i] = Bad
  BY <1>1, <1>2, ExceptSeq, BlobTypes
<1>4. log'[1] = log[1]
  <2>1. 1 \in DOMAIN log
    BY <1>2
  <2>2. i # 1
    BY <1>1, <2>1, KindFacts DEF Founded, FirstDirectory, Created
  <2> QED
    BY <1>1, <1>2, <2>1, <2>2
<1>5. Founded' /\ AtWork' /\ FileTypes' /\ Current' = Current
  BY <1>1, <1>2, <1>3, <1>4, AtRestKeeps DEF FileTypes
<1>6. \A k \in {"jnl", "bkp"} : \A j \in DOMAIN log' : log'[j].kind = k =>
          log'[j] = log[j] /\ j \in DOMAIN log
  BY <1>3, KindFacts
<1>7. \A h \in Header : Whole(h) => GoodIn(log', DOMAIN log', h)
  <2> SUFFICES ASSUME NEW h \in Header, Whole(h) PROVE GoodIn(log', DOMAIN log', h)
    OBVIOUS
  <2>1. h.dirCrc.kind = "dir" /\ h.idxCrc.kind = "idx"
    BY KindFacts DEF Header, HeaderOf
  <2>2. h.dirOff # i /\ h.idxOff # i
    BY <1>1, <2>1 DEF Whole, GoodIn
  <2> QED
    BY <1>3, <2>2 DEF Whole, GoodIn
<1>8. \A j \in HeaderRecords(log') : j \in HeaderRecords(log) /\ log'[j] = log[j]
  BY <1>6 DEF HeaderRecords
<1>9. RecordsWhole'
  <2>1. \A j \in HeaderRecords(log) : log[j].hdr \in Header /\ Whole(log[j].hdr)
    BY <1>2, RecordTypes DEF FileUndamaged, RecordsWhole
  <2>2. \A j \in HeaderRecords(log') :
            GoodIn(log', DOMAIN log', log'[j].hdr)
    BY <1>7, <1>8, <2>1
  <2> QED
    BY <2>2 DEF RecordsWhole, Whole
<1>10. SlotsShow'
  BY <1>1, <1>2, <1>5 DEF FileUndamaged, SlotsShow, Shows
<1>11. RecordsSince'
  <2>1. PICK n \in Nat :
          /\ \A j \in HeaderRecords(log) : j > n => Shows(log[j].hdr)
          /\ \A k \in {"jnl", "bkp"} \ lost : \E j \in DOMAIN log : j > n /\ log[j].kind = k
    BY <1>2 DEF FileUndamaged, RecordsSince
  <2>2. \A j \in HeaderRecords(log') : j > n => log'[j].hdr.dirCrc.entries \in Current'
    BY <1>5, <1>8, <2>1 DEF Shows
  <2>3. \A k \in {"jnl", "bkp"} \ lost' : \E j \in DOMAIN log' : j > n /\ log'[j].kind = k
    BY <1>1, <1>3, <2>1
  <2> QED
    BY <2>2, <2>3 DEF RecordsSince, Shows
<1>12. HeaderLeft'
  BY <1>1, <1>5, <1>11, CopySuffices
<1> QED
  BY <1>5, <1>9, <1>10, <1>11, <1>12, UndamagedSplitPrime DEF FileUndamaged

\* What is hit of a header keeps its directory, if it is a header still.
LEMMA HitSlotFacts ==
    ASSUME NEW h \in SlotValue, NEW w \in HitSlot(h)
    PROVE  w \in SlotValue /\ (w # Bad => h # Bad /\ w.dirCrc = h.dirCrc)
<1>1. CASE w = Bad
  BY <1>1 DEF SlotValue, HeaderOrBad
<1>2. CASE w # Bad
  <2>1. h # Bad /\ (w = [h EXCEPT !.kind = "refused"] \/ w = [h EXCEPT !.gen = 0])
    BY <1>2 DEF HitSlot
  <2>2. h \in Header \/ h \in HdrRefused
    BY <2>1 DEF SlotValue, HeaderOrBad
  <2>3. 0 \in 0 .. MaxGen
    BY FormatAssumption
  <2>4. w \in Header \cup HdrRefused /\ w.dirCrc = h.dirCrc
    BY <2>1, <2>2, <2>3 DEF Header, HdrRefused, HeaderOf
  <2> QED
    BY <2>1, <2>4 DEF SlotValue, HeaderOrBad
<1> QED
  BY <1>1, <1>2

\* Damage of header slots: a slot or a tail record still leads to the snapshot.
LEMMA DamageSlotsKeeps ==
    ASSUME Founded, Undamaged, NEW S \in SUBSET Slots, DamageSlots(S), enough'
    PROVE  Founded' /\ Undamaged'
<1>0. PICK w \in [S -> UNION {HitSlot(hdr[s]) : s \in S}] :
          /\ \A s \in S : w[s] \in HitSlot(hdr[s])
          /\ hdr' = [s \in Slots |-> IF s \in S THEN w[s] ELSE hdr[s]]
  BY DEF DamageSlots
<1>1. /\ hdr' = [s \in Slots |-> IF s \in S THEN w[s] ELSE hdr[s]] /\ log' = log
      /\ lost' = lost /\ CopyLeft' /\ AtRest
      /\ \A s \in S : w[s] \in HitSlot(hdr[s])
  BY <1>0 DEF DamageSlots, Hit
<1>2. FileTypes /\ FileUndamaged /\ log \in Seq(Blob) /\ hdr \in [Slots -> SlotValue]
  BY UndamagedSplit, TypesSplit DEF Founded, TypeOK
<1>a. ASSUME NEW s \in Slots
      PROVE  /\ hdr'[s] \in SlotValue
             /\ hdr'[s] # Bad => hdr[s] # Bad /\ hdr'[s].dirCrc = hdr[s].dirCrc
  <2>1. hdr[s] \in SlotValue
    BY <1>2
  <2>2. CASE s \in S
    <3>1. hdr'[s] = w[s] /\ w[s] \in HitSlot(hdr[s])
      BY <1>1, <2>2
    <3> DEFINE v == hdr'[s]
    <3>2. v \in HitSlot(hdr[s])
      BY <3>1
    <3> HIDE DEF v
    <3>3. v \in SlotValue /\ (v # Bad => hdr[s] # Bad /\ v.dirCrc = hdr[s].dirCrc)
      BY <2>1, <3>2, HitSlotFacts
    <3> QED
      BY <3>3 DEF v
  <2>3. CASE s \notin S
    BY <1>1, <2>1, <2>3
  <2> QED
    BY <2>2, <2>3
<1>3. hdr' \in [Slots -> SlotValue]
  <2>1. hdr' = [s \in Slots |-> hdr'[s]]
    BY <1>1
  <2> QED
    BY <1>a, <2>1
<1>4. Founded' /\ AtWork' /\ FileTypes' /\ Current' = Current
  BY <1>1, <1>2, <1>3, AtRestKeeps
<1>5. RecordsWhole'
  BY <1>1, <1>2 DEF FileUndamaged, RecordsWhole, HeaderRecords, Whole, GoodIn
<1>6. SlotsShow'
  BY <1>2, <1>4, <1>a DEF FileUndamaged, SlotsShow, Shows
<1>7. RecordsSince'
  BY <1>1, <1>2, <1>4 DEF FileUndamaged, RecordsSince, HeaderRecords, Shows
<1>8. HeaderLeft'
  BY <1>1, <1>4, <1>7, CopySuffices
<1> QED
  BY <1>4, <1>5, <1>6, <1>7, <1>8, UndamagedSplitPrime DEF FileUndamaged

----------------------------------------------------------------------------
(* The invariant.                                                          *)

\* A container just created satisfies the invariant.
LEMMA DInitInv == DInit => DInv
<1> SUFFICES ASSUME DInit PROVE DInv
  OBVIOUS
<1>1. Founded /\ FileTypes
  BY InitFounded, TypesSplit DEF DInit, Founded
<1>2. PICK t \in Times :
        LET d == Dir(Empty, t)
            x == Idx(1, d, 1)
            h == CreatedHeader(d, x)
        IN  /\ log = <<d, x, HeaderRecord("jnl", t, h), HeaderRecord("bkp", t, h)>>
            /\ hdr = [s \in Slots |-> h]
  BY DEF DInit, Init
<1> DEFINE d == Dir(Empty, t)
           x == Idx(1, d, 1)
           h == CreatedHeader(d, x)
<1>3. /\ DOMAIN log = 1 .. 4 /\ log[1] = d /\ log[2] = x
      /\ log[3].kind = "jnl" /\ log[3].hdr = h /\ log[4].kind = "bkp" /\ log[4].hdr = h
      /\ \A s \in Slots : hdr[s] = h
  BY <1>2 DEF HeaderRecord
<1>4. d.kind = "dir" /\ d.entries = Empty /\ x.kind = "idx"
  BY DEF Dir, Idx
<1>5. Whole(h) /\ h.dirCrc.entries = Empty
  <2>1. /\ h.dirOff = 1 /\ h.dirCrc = d /\ h.idxOff = 2 /\ h.idxCrc = x /\ h.gen = 1
        /\ h.kind = "hdr"
    BY DEF CreatedHeader, Bad
  <2>2. x.dirOff = 1 /\ x.dirCrc = d /\ x.gen = 1
    BY DEF Idx
  <2> HIDE DEF h, x, d
  <2> QED
    BY <1>3, <1>4, <2>1, <2>2 DEF Whole, GoodIn
<1>6. committed = Empty /\ begun = {} /\ lost = {} /\ pc = "down" /\ crashes = 0
  BY DEF DInit, Init
<1> HIDE DEF h, x, d
<1>7. Shows(h)
  BY <1>5, <1>6 DEF Shows, Current
<1>8. \A i \in HeaderRecords(log) : log[i].hdr = h
  BY <1>3, <1>4 DEF HeaderRecords
<1>9. RecordsWhole /\ SlotsShow
  BY <1>3, <1>5, <1>7, <1>8 DEF RecordsWhole, SlotsShow
<1>10. RecordsSince
  <2>1. \A k \in {"jnl", "bkp"} \ lost : \E i \in DOMAIN log : i > 0 /\ log[i].kind = k
    BY <1>3
  <2> QED
    BY <1>7, <1>8, <2>1 DEF RecordsSince
<1>11. HeaderLeft
  BY <1>3, <1>5 DEF HeaderLeft, Slots
<1>12. AtWork
  BY <1>6 DEF AtWork, WritesBehind, CommitMade, CommitSlots, Recovered, InTx, Indexed,
              Synced1, Jnled, Synced2, Persisting
<1> QED
  BY <1>1, <1>6, <1>9, <1>10, <1>11, <1>12, UndamagedSplit DEF DInv, FileUndamaged

\* A step of ContainerCommit other than a power loss.
LEMMA StepUndamaged ==
    ASSUME TailInReach, Founded, Undamaged, Step, ~Crash
    PROVE  Founded' /\ Undamaged'
<1>1. Founded'
  BY NextFounded DEF Step
<1>2. CASE Publish
  <2>1. committed' = tx.entries /\ begun' = {} /\ lost' = lost
    BY <1>2 DEF Step, Publish, damageVars
  <2> QED
    BY <1>1, <1>2, <2>1, PublishUndamaged
<1>3. CASE ~Publish
  <2>1. ~(pc = "publish" /\ pc' = "open")
    BY <1>3 DEF Step, Next, Begin, TxStep, TxPut, TxPutFail, TxRemove, TxSetMeta, Rollback,
                CommitStep, AppendDir, AppendIdx, AppendJnl, AppendBkp, WriteBackup,
                WritePrimary, Sync, AfterSync, FailStep, AppendFails, WriteBackupFails,
                WritePrimaryFails, SyncFails, OpenStep, OpenPrimary, OpenRecovered, OpenScan,
                Opened, PersistPrimary, PersistBackup, PersistSlot, PersistSync, PersistSkip,
                Close
  <2>2. Grows
    BY <2>1 DEF Step, Grows
  <2>3. Undamaged'
    <3>1. CASE Begin \/ Close
      BY <2>2, <3>1, QuietUndamaged
    <3>2. CASE TxStep
      BY <2>2, <3>2, QuietUndamaged, PutsUndamaged DEF TxStep
    <3>3. CASE CommitStep
      BY <1>3, <2>2, <3>3, AppendDirUndamaged, AppendIdxUndamaged, RecordsUndamaged,
         CommitSlotsUndamaged, SyncUndamaged DEF CommitStep
    <3>4. CASE FailStep
      BY <2>2, <3>4, PutsUndamaged, CommitSlotsUndamaged, SyncUndamaged DEF FailStep
    <3>5. CASE OpenStep
      BY <2>2, <3>5, OpensUndamaged, PersistUndamaged DEF OpenStep
    <3> QED
      BY <3>1, <3>2, <3>3, <3>4, <3>5 DEF Step, Next
  <2> QED
    BY <1>1, <2>3
<1> QED
  BY <1>2, <1>3

\* Only a power loss counts as one.
LEMMA CrashesCount ==
    ASSUME crashes \in Nat, DNext
    PROVE  /\ crashes' \in Nat
           /\ crashes' = 0 => crashes = 0 /\ ~Crash
           /\ enough' => enough
<1>1. CASE Step
  <2>1. enough' = enough
    BY <1>1 DEF Step, damageVars
  <2>2. CASE Crash
    BY <2>1, <2>2 DEF Crash
  <2>3. CASE ~Crash
    <3>1. crashes' = crashes
      BY <1>1, <2>3
      DEF Step, Next, Begin, TxStep, TxPut, TxPutFail, TxRemove, TxSetMeta, Rollback,
          CommitStep, CommitAppend, AppendDir, AppendIdx, AppendJnl, AppendBkp, WriteBackup,
          WritePrimary, Sync, Publish, FailStep, CommitFails, AppendFails, WriteBackupFails,
          WritePrimaryFails, SyncFails, OpenStep, OpenPrimary, OpenRecovered, OpenScan,
          Opened, PersistPrimary, PersistBackup, PersistSlot, PersistSync, PersistSkip,
          Close, Fault, budgets
    <3> QED
      BY <2>1, <2>3, <3>1
  <2> QED
    BY <2>2, <2>3
<1>2. CASE Kill \/ (\E i \in DOMAIN log : DamageBlob(i))
                \/ (\E S \in SUBSET Slots \ {{}} : DamageSlots(S))
  <2>1. crashes' = crashes /\ (enough' => enough)
    <3>1. \A kinds : Hit(kinds) => (enough' => enough)
      BY Zenon DEF Hit
    <3>2. CASE Kill
      BY <3>2 DEF Kill, budgets, damageVars
    <3>3. CASE \E i \in DOMAIN log : DamageBlob(i)
      <4>1. PICK i \in DOMAIN log : Hit({log[i].kind}) /\ AtRest
        BY <3>3 DEF DamageBlob
      <4>2. crashes' = crashes
        BY <4>1 DEF AtRest, budgets
      <4> QED
        BY <3>1, <4>1, <4>2, Zenon
    <3>4. CASE \E S \in SUBSET Slots \ {{}} : DamageSlots(S)
      <4>1. Hit({}) /\ AtRest
        BY <3>4 DEF DamageSlots
      <4>2. crashes' = crashes
        BY <4>1 DEF AtRest, budgets
      <4> QED
        BY <3>1, <4>1, <4>2, Zenon
    <3> QED
      BY <1>2, <3>2, <3>3, <3>4
  <2>2. crashes' = 0 => ~Crash
    BY DEF Crash
  <2> QED
    BY <2>1, <2>2
<1> QED
  BY <1>1, <1>2 DEF DNext

\* Every step, and every stutter, keeps the invariant.
LEMMA DNextInv ==
    ASSUME TailInReach, DInv, [DNext]_dVars
    PROVE  DInv'
<1>1. CASE DNext
  <2>1. /\ crashes' \in Nat
        /\ crashes' = 0 => crashes = 0 /\ ~Crash
        /\ enough' => enough
    BY <1>1, CrashesCount DEF DInv
  <2>2. ASSUME crashes' = 0, enough'
        PROVE  Founded' /\ Undamaged'
    <3>1. Founded /\ Undamaged /\ ~Crash
      BY <2>1, <2>2 DEF DInv
    <3>2. CASE Step
      BY <3>1, <3>2, StepUndamaged
    <3>3. CASE Kill
      BY <3>1, <3>3, KillKeeps
    <3>4. CASE \E i \in DOMAIN log : DamageBlob(i)
      BY <2>2, <3>1, <3>4, DamageBlobKeeps
    <3>5. CASE \E S \in SUBSET Slots \ {{}} : DamageSlots(S)
      BY <2>2, <3>1, <3>5, DamageSlotsKeeps
    <3> QED
      BY <1>1, <3>2, <3>3, <3>4, <3>5 DEF DNext
  <2> QED
    BY <2>1, <2>2 DEF DInv
<1>2. CASE UNCHANGED dVars
  <2>1. UNCHANGED <<log, hdr, lost, enough, crashes, pc, mem, tx>> /\ UNCHANGED vars
        /\ committed' = committed /\ begun' = begun
    BY <1>2 DEF dVars, vars, damageVars, commitGhosts
  <2>2. Founded => Founded'
    BY <2>1, NextFounded
  <2>3. Undamaged => Undamaged'
    BY <2>1 DEF Undamaged, RecordsWhole, SlotsShow, RecordsSince, HeaderLeft, TailShows,
        WritesBehind, CommitMade, CommitSlots, Recovered, HeaderRecords, Whole, GoodIn, Shows,
        Current, Newest, Last
  <2> QED
    BY <2>1, <2>2, <2>3 DEF DInv
<1> QED
  BY <1>1, <1>2

\* The invariant holds in every reachable state, however often the process is
\* killed and the file is damaged.
THEOREM DInvariance == TailInReach => (DSpec => []DInv)
<1> SUFFICES ASSUME TailInReach PROVE DSpec => []DInv
  OBVIOUS
<1>1. DInit => DInv
  BY DInitInv
<1>2. DInv /\ [DNext]_dVars => DInv'
  BY DNextInv
<1> QED
  BY <1>1, <1>2, PTL DEF DSpec

\* Recovery is not a way to lose data: whatever step of Begin, Commit or Open the
\* process is killed at, whichever write or fsync fails, and whatever is damaged
\* in between, as long as no directory and no index is, and a copy of the header
\* is left, Open refuses the container for an unknown feature, which only a
\* damaged slot can ask for, or returns the snapshot of the last Commit that
\* returned nil or of one that wrote a header record since.
THEOREM DamageLosesNothingHolds == TailInReach => (DSpec => []DamageLosesNothing)
<1> SUFFICES ASSUME TailInReach PROVE DSpec => []DamageLosesNothing
  OBVIOUS
<1>1. DInv => DamageLosesNothing
  <2> SUFFICES ASSUME DInv, crashes = 0, enough
               PROVE  /\ OpenFrom(log, hdr) # {} \/ Refused
                      /\ \A o \in OpenFrom(log, hdr) :
                            o.header.dirCrc.entries \in {committed} \cup begun
    BY DEF DamageLosesNothing
  <2>1. FileTypes /\ FileUndamaged
    BY TypesSplit, UndamagedSplit DEF DInv, Founded
  <2> QED
    BY <2>1, OpensShown DEF Shows, Current
<1> QED
  BY <1>1, DInvariance, PTL

=============================================================================
