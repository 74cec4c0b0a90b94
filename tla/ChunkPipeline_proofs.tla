------------------------ MODULE ChunkPipeline_proofs ------------------------
(***************************************************************************)
(* Proofs about ChunkPipeline, for any number of workers, any chunk size,  *)
(* any payload and any limit: Inv is inductive, from it follow NothingLeft *)
(* and ChunksTile, and every step of the goroutines is a step of           *)
(* SequentialChunks or invisible to it.                                    *)
(***************************************************************************)
EXTENDS ChunkPipeline_inv, SequenceTheorems, FiniteSetTheorems, TLAPS

----------------------------------------------------------------------------
(* The arithmetic of cutting a payload into chunks.                        *)

LEMMA OffsetFacts ==
    /\ Offset(0) = 0
    /\ \A i \in Nat : Offset(i) \in Nat /\ Offset(i + 1) = Offset(i) + ChunkSize
<1>1. ChunkSize \in Nat
  BY PipelineAssumption
<1> QED
  BY <1>1 DEF Offset

\* A chunk is full, or it is what is left.
LEMMA Delivery ==
    ASSUME NEW n \in Nat, NEW off \in Nat, off < n
    PROVE  /\ Sequential!Delivered(n, off) \in 1 .. ChunkSize
           /\ off + ChunkSize <= n => Sequential!Delivered(n, off) = ChunkSize
           /\ off + ChunkSize > n => Sequential!Delivered(n, off) = n - off
<1> DEFINE S == {ChunkSize, n - off}
<1>1. ChunkSize \in Nat \ {0} /\ n - off \in Nat \ {0}
  BY PipelineAssumption
<1>2. \E m \in S : \A y \in S : m <= y
  <2>1. CASE ChunkSize <= n - off
    BY <1>1, <2>1
  <2>2. CASE n - off <= ChunkSize
    BY <1>1, <2>2
  <2> QED
    BY <1>1, <2>1, <2>2
<1>3. Sequential!Delivered(n, off) = CHOOSE m \in S : \A y \in S : m <= y
  BY DEF Sequential!Delivered, Sequential!Min
<1> HIDE DEF S
<1>4. Sequential!Delivered(n, off) \in S
      /\ \A y \in S : Sequential!Delivered(n, off) <= y
  BY <1>2, <1>3
<1> QED
  BY <1>1, <1>4 DEF S

\* A chunk that exists has its bytes within the payload, and the next one
\* starts where it ends, unless it is short: then the payload ends there.
LEMMA ChunkFacts ==
    ASSUME size \in Nat, NEW i \in Nat, Offset(i) < size
    PROVE  /\ Length(i) \in 1 .. ChunkSize /\ Offset(i) + Length(i) <= size
           /\ Length(i) = ChunkSize => Offset(i) + Length(i) = Offset(i + 1)
           /\ Length(i) < ChunkSize =>
                Offset(i) + Length(i) = size /\ Offset(i + 1) >= size
           /\ Offset(i + 1) < size => Length(i) = ChunkSize
<1>1. Offset(i) \in Nat /\ Offset(i + 1) = Offset(i) + ChunkSize
  BY OffsetFacts
<1>2. ChunkSize \in Nat \ {0}
  BY PipelineAssumption
<1> QED
  BY <1>1, <1>2, Delivery DEF Length

LEMMA CapacityFacts == Capacity \in Nat /\ Cardinality(Workers) \in Nat
<1>1. Cardinality(Workers) \in Nat
  BY PipelineAssumption, FS_CardinalityType
<1> QED
  BY <1>1 DEF Capacity

LEMMA UpTo ==
    ASSUME NEW n \in Nat
    PROVE  IsFiniteSet(1 .. n) /\ Cardinality(1 .. n) = n
<1>1. 1 \in Int /\ n \in Int
  OBVIOUS
<1>2. IsFiniteSet(1 .. n) /\ Cardinality(1 .. n) = IF 1 > n THEN 0 ELSE n - 1 + 1
  BY <1>1, FS_Interval, Zenon
<1>3. (IF 1 > n THEN 0 ELSE n - 1 + 1) = n
  OBVIOUS
<1>4. Cardinality(1 .. n) = n
  BY <1>2, <1>3
<1> QED
  BY <1>2, <1>4

----------------------------------------------------------------------------
(* The pool is as large as it need be.                                     *)

\* While the producer reads, it has no buffer: the channel and the workers
\* cannot have taken them all.
LEMMA BufferLeft ==
    ASSUME Inv, prod.pc = "read"
    PROVE  pool # {} /\ Get \in pool
<1> DEFINE InChannel == {jobs[k].buf : k \in DOMAIN jobs}
           AtWork == {work[w].job.buf : w \in {v \in Workers : Encoding(v)}}
<1>1. Capacity \in Nat /\ Cardinality(Workers) \in Nat /\ IsFiniteSet(Workers)
  BY CapacityFacts, PipelineAssumption
<1>2. Len(jobs) \in Nat /\ DOMAIN jobs = 1 .. Len(jobs) /\ Len(jobs) <= Capacity
  BY DEF Inv, Types, InputTypes
<1>3. IsFiniteSet(InChannel) /\ Cardinality(InChannel) <= Len(jobs)
  <2> DEFINE f == [k \in 1 .. Len(jobs) |-> jobs[k].buf]
  <2>1. f \in Surjection(1 .. Len(jobs), InChannel)
    BY <1>2 DEF Surjection
  <2>2. IsFiniteSet(1 .. Len(jobs)) /\ Cardinality(1 .. Len(jobs)) = Len(jobs)
    BY <1>2, UpTo
  <2> QED
    BY <2>1, <2>2, FS_Surjection
<1>4. IsFiniteSet(AtWork) /\ Cardinality(AtWork) <= Cardinality(Workers)
  <2> DEFINE E == {v \in Workers : Encoding(v)}
             g == [w \in E |-> work[w].job.buf]
  <2>1. g \in Surjection(E, AtWork)
    BY DEF Surjection
  <2>2. IsFiniteSet(E) /\ Cardinality(E) <= Cardinality(Workers)
        /\ Cardinality(E) \in Nat
    BY <1>1, FS_Subset, FS_CardinalityType
  <2>3. IsFiniteSet(AtWork) /\ Cardinality(AtWork) <= Cardinality(E)
    BY <2>1, <2>2, FS_Surjection
  <2>4. Cardinality(AtWork) \in Nat
    BY <2>3, FS_CardinalityType
  <2> QED
    BY <1>1, <2>2, <2>3, <2>4
<1>5. IsFiniteSet(InChannel \cup AtWork)
      /\ Cardinality(InChannel \cup AtWork) <= Capacity + Cardinality(Workers)
  <2>1. Cardinality(InChannel) \in Nat /\ Cardinality(AtWork) \in Nat
        /\ Cardinality(InChannel \cup AtWork) \in Nat
        /\ Cardinality(InChannel \cap AtWork) \in Nat
    BY <1>3, <1>4, FS_CardinalityType, FS_Union, FS_Intersection
  <2>2. Cardinality(InChannel \cup AtWork)
            = Cardinality(InChannel) + Cardinality(AtWork)
                - Cardinality(InChannel \cap AtWork)
    BY <1>3, <1>4, FS_Union
  <2>3. IsFiniteSet(InChannel \cup AtWork)
    BY <1>3, <1>4, FS_Union
  <2> HIDE DEF InChannel, AtWork
  <2> QED
    BY <1>1, <1>2, <1>3, <1>4, <2>1, <2>2, <2>3
<1>6. IsFiniteSet(Bufs) /\ Cardinality(Bufs) = Capacity + Cardinality(Workers) + 1
  <2>1. Capacity + Cardinality(Workers) + 1 \in Nat
    BY <1>1
  <2> QED
    BY <2>1, UpTo DEF Bufs
<1>7. Bufs \ pool \subseteq InChannel \cup AtWork
  BY DEF Inv, BuffersOK
<1>8. pool # {}
  <2> SUFFICES ASSUME pool = {} PROVE FALSE
    OBVIOUS
  <2>1. Bufs \subseteq InChannel \cup AtWork
    BY <1>7
  <2> HIDE DEF InChannel, AtWork
  <2>2. Cardinality(Bufs) <= Cardinality(InChannel \cup AtWork)
        /\ Cardinality(InChannel \cup AtWork) \in Nat
    BY <1>5, <2>1, FS_Subset, FS_CardinalityType
  <2> QED
    BY <1>1, <1>5, <1>6, <2>2
<1> QED
  BY <1>8 DEF Get

----------------------------------------------------------------------------
(* The first state.                                                        *)

LEMMA InitInv == Init => Inv
<1> SUFFICES ASSUME Init PROVE Inv
  OBVIOUS
<1> USE DEF Init
<1>1. Types
  <2>1. InputTypes
    BY PipelineAssumption, CapacityFacts DEF InputTypes
  <2>2. WorkTypes
    <3>1. bufs \in [Bufs -> Nat \cup {-1}]
      OBVIOUS
    <3>2. work \in [Workers -> WorkerSet]
      BY DEF WorkerSet
    <3>3. results \in Seq(ResultSet)
      BY EmptySeq
    <3>4. pool \subseteq Bufs
      OBVIOUS
    <3>5. closed \in BOOLEAN
      BY Zenon
    <3> QED
      BY <3>1, <3>2, <3>3, <3>4, <3>5 DEF WorkTypes
  <2>3. OutputTypes
    BY DEF OutputTypes
  <2> QED
    BY <2>1, <2>2, <2>3 DEF Types
<1>2. ProducerOK /\ JobsOK /\ WorkersOK /\ ResultsOK /\ BuffersOK
  <2>1. ProducerOK
    BY OffsetFacts DEF ProducerOK
  <2>2. JobsOK /\ WorkersOK /\ ResultsOK /\ BuffersOK
    BY DEF JobsOK, WorkersOK, ResultsOK, BuffersOK, Encoding, Sending
  <2> QED
    BY <2>1, <2>2
<1>3. InRange /\ Apart /\ Accounted
  BY DEF InRange, Apart, Accounted, Busy, Encoding, Sending, Open, Taken
<1>4. CallerOK /\ OutputOK
  BY DEF CallerOK, OutputOK, Current
<1> QED
  BY <1>1, <1>2, <1>3, <1>4 DEF Inv

----------------------------------------------------------------------------
(* The steps.  The payload never changes, and with it what is known of its *)
(* chunks.                                                                 *)

LEMMA SameChunks ==
    ASSUME UNCHANGED <<size, ending>>
    PROVE  /\ \A i : Length(i)' = Length(i)
           /\ \A i : Allowed(i)' <=> Allowed(i)
           /\ \A i : Valid(i)' <=> Valid(i)
           /\ \A r : ResultOK(r)' <=> ResultOK(r)
           /\ \A off : Sequential!ReadErr(off)' = Sequential!ReadErr(off)
           /\ \A off : Sequential!HasChunk(off)' <=> Sequential!HasChunk(off)
           /\ \A off : Sequential!AtEnd(off)' <=> Sequential!AtEnd(off)
<1>e. \A off : Sequential!ReadErr(off)' = Sequential!ReadErr(off)
  BY DEF Sequential!ReadErr
<1>1. \A i : Length(i)' = Length(i)
  BY DEF Length
<1>2. \A i : Allowed(i)' <=> Allowed(i)
  BY <1>1 DEF Allowed
<1>3. \A i : Valid(i)' <=> Valid(i)
  BY <1>2 DEF Valid, Offset, Sequential!HasChunk, Sequential!ReadErr
<1>4. \A r : ResultOK(r)' <=> ResultOK(r)
  BY <1>1, <1>3 DEF ResultOK
<1>5. \A off : Sequential!HasChunk(off)' <=> Sequential!HasChunk(off)
  BY <1>e DEF Sequential!HasChunk
<1>6. \A off : Sequential!AtEnd(off)' <=> Sequential!AtEnd(off)
  BY <1>e DEF Sequential!AtEnd
<1> QED
  BY <1>1, <1>2, <1>3, <1>4, <1>5, <1>6, <1>e

\* A step that takes no buffer out of the pool, nor fills one that a job has,
\* leaves the job as it is.
LEMMA SameJob ==
    ASSUME UNCHANGED <<size, ending>>, NEW j, JobOK(j), j.buf \notin pool', bufs'[j.buf] = bufs[j.buf]
    PROVE  JobOK(j)'
BY SameChunks DEF JobOK, Holds

\* The caller does not return before everybody else is done.
LEMMA NotYet ==
    ASSUME Inv, coll.pc = "returned"
    PROVE  prod.pc = "done" /\ jobs = <<>> /\ \A w \in Workers : work[w].pc = "done"
<1>1. Workers # {}
  BY PipelineAssumption, FS_EmptySet
<1>2. \A w \in Workers : work[w].pc = "done"
  BY DEF Inv, CallerOK, WorkersOK
<1> QED
  BY <1>1, <1>2 DEF Inv, WorkersOK

LEMMA SameOutput ==
    ASSUME UNCHANGED <<size, ending, coll, file, chunks>>, OutputOK
    PROVE  OutputOK'
BY SameChunks DEF OutputOK

\* The producer stops: at the end of the payload, at a read error, or at the
\* limit.
LEMMA StopStep ==
    ASSUME Inv, prod.pc = "read", NEW err \in {"nil", "read", "limit"}, Stop(err),
           UNCHANGED <<size, ending, jobs, work, results, closed, outputVars>>,
           err = "nil" => Sequential!AtEnd(prod.rawOff),
           err = "read" => Sequential!ReadErr(prod.rawOff) = "error",
           err = "limit" => Sequential!HasChunk(prod.rawOff) /\ ~Allowed(prod.idx)
    PROVE  Inv'
<1>0. /\ prod' = [prod EXCEPT !.pc = "exit", !.err = err]
      /\ UNCHANGED <<size, ending, jobs, work, results, closed, coll, file, chunks, result,
                     bufs, pool>>
  BY DEF Stop, outputVars
<1>1. Types'
  BY <1>0 DEF Inv, Types, InputTypes, WorkTypes, OutputTypes
<1>p. /\ prod'.pc = "exit" /\ prod'.err = err
      /\ prod'.idx = prod.idx /\ prod'.rawOff = prod.rawOff
  BY <1>0 DEF Inv, Types, InputTypes
<1>2. ProducerOK'
  <2>1. prod.rawOff = Offset(prod.idx) /\ size \in Nat
    BY DEF Inv, ProducerOK, Types, InputTypes
  <2>2. CASE err = "nil"
    <3>1. Sequential!AtEnd(Offset(prod.idx))'
      BY <1>0, <1>p, <2>1, <2>2, SameChunks
    <3> QED
      BY <1>p, <2>2, <3>1 DEF ProducerOK
  <2>3. CASE err = "read"
    <3>1. (Sequential!ReadErr(Offset(prod.idx)) = "error")'
      BY <1>0, <1>p, <2>1, <2>3, SameChunks
    <3> QED
      BY <1>p, <2>3, <3>1 DEF ProducerOK
  <2>4. CASE err = "limit"
    <3>1. (Sequential!HasChunk(Offset(prod.idx)) /\ ~Allowed(prod.idx))'
      BY <1>0, <1>p, <2>1, <2>4, SameChunks
    <3> QED
      BY <1>p, <2>4, <3>1 DEF ProducerOK
  <2> QED
    BY <2>2, <2>3, <2>4
<1>3. JobsOK'
  BY <1>0, <1>p, SameJob DEF Inv, JobsOK, JobOK, Holds, Taken
<1>4. WorkersOK'
  BY <1>0, <1>p, SameJob, SameChunks DEF Inv, WorkersOK, JobOK, Holds, Encoding, Sending
<1>5. ResultsOK'
  BY <1>0, SameChunks DEF Inv, ResultsOK
<1>6. BuffersOK'
  BY <1>0, <1>p DEF Inv, BuffersOK, Encoding
<1>7. InRange' /\ Apart' /\ Accounted'
  BY <1>0, <1>p DEF Inv, InRange, Apart, Accounted, Taken, Open, Busy, IndexAt,
     Encoding, Sending
<1>8. CallerOK'
  <2>1. coll.pc # "returned"
    BY NotYet
  <2> QED
    BY <1>0, <1>p, <2>1 DEF Inv, CallerOK, Current
<1>9. OutputOK'
  BY <1>0, SameOutput DEF Inv
<1> QED
  BY <1>1, <1>2, <1>3, <1>4, <1>5, <1>6, <1>7, <1>8, <1>9 DEF Inv

\* The producer takes a buffer and fills it.
LEMMA FillStep ==
    ASSUME Inv, prod.pc = "read", Valid(prod.idx),
           prod' = [prod EXCEPT !.pc = "send", !.buf = Get, !.n = Length(prod.idx)],
           bufs' = [bufs EXCEPT ![Get] = prod.idx],
           pool' = pool \ {Get},
           UNCHANGED <<size, ending, jobs, work, results, closed, outputVars>>
    PROVE  Inv'
<1>0. UNCHANGED <<size, ending, jobs, work, results, closed, coll, file, chunks, result>>
  BY DEF outputVars
<1>g. Get \in pool /\ Get \in Bufs /\ Get \in Nat
  <2>1. Bufs \subseteq Nat
    BY CapacityFacts DEF Bufs
  <2> QED
    BY <2>1, BufferLeft DEF Inv, Types, WorkTypes
<1>l. Length(prod.idx) \in Nat /\ prod.idx \in Nat
  BY ChunkFacts DEF Inv, Types, InputTypes, Valid, Sequential!HasChunk
<1>1. Types'
  <2>1. InputTypes'
    BY <1>0, <1>g, <1>l DEF Inv, Types, InputTypes
  <2>2. WorkTypes'
    <3>1. bufs' \in [Bufs -> Nat \cup {-1}]
      BY <1>g, <1>l DEF Inv, Types, WorkTypes
    <3> QED
      BY <1>0, <3>1 DEF Inv, Types, WorkTypes
  <2>3. OutputTypes'
    BY <1>0 DEF Inv, Types, OutputTypes
  <2> QED
    BY <2>1, <2>2, <2>3 DEF Types
<1>p. /\ prod'.pc = "send" /\ prod'.err = prod.err /\ prod'.buf = Get
      /\ prod'.n = Length(prod.idx)
      /\ prod'.idx = prod.idx /\ prod'.rawOff = prod.rawOff
  BY DEF Inv, Types, InputTypes
<1>b. bufs'[Get] = prod.idx /\ \A b \in Bufs \ {Get} : bufs'[b] = bufs[b]
  BY <1>g DEF Inv, Types, WorkTypes
<1>j. \A j : JobOK(j) => JobOK(j)'
  <2> SUFFICES ASSUME NEW j, JobOK(j) PROVE JobOK(j)'
    OBVIOUS
  <2>1. j.buf \in Bufs \ pool
    BY DEF JobOK, Holds
  <2>2. j.buf \notin pool' /\ bufs'[j.buf] = bufs[j.buf]
    BY <1>g, <1>b, <2>1
  <2> QED
    BY <1>0, <2>2, SameJob
<1>2. ProducerOK'
  <2>1. prod.rawOff = Offset(prod.idx) /\ prod.err = "nil"
    BY DEF Inv, ProducerOK
  <2>2. Valid(prod.idx)' /\ Length(prod.idx)' = Length(prod.idx)
    BY <1>0, <1>p, SameChunks
  <2>3. Holds(prod.buf, prod.idx)'
    BY <1>g, <1>b, <1>p DEF Holds
  <2>4. prod.rawOff' = Offset(prod.idx)' /\ prod.err' = "nil" /\ prod.n' = Length(prod.idx)'
    BY <1>p, <2>1, <2>2
  <2> QED
    BY <1>p, <2>2, <2>3, <2>4 DEF ProducerOK
<1>3. JobsOK'
  BY <1>0, <1>p, <1>j DEF Inv, JobsOK, Taken
<1>4. WorkersOK'
  BY <1>0, <1>p, <1>j, SameChunks DEF Inv, WorkersOK, Encoding, Sending
<1>5. ResultsOK'
  BY <1>0, SameChunks DEF Inv, ResultsOK
<1>6. BuffersOK'
  BY <1>0, <1>p DEF Inv, BuffersOK, Encoding
<1>7. InRange' /\ Apart' /\ Accounted'
  BY <1>0, <1>p DEF Inv, InRange, Apart, Accounted, Taken, Open, Busy, IndexAt,
     Encoding, Sending
<1>8. CallerOK'
  <2>1. coll.pc # "returned"
    BY NotYet
  <2> QED
    BY <1>0, <1>p, <2>1 DEF Inv, CallerOK, Current
<1>9. OutputOK'
  BY <1>0, SameOutput DEF Inv
<1> QED
  BY <1>1, <1>2, <1>3, <1>4, <1>5, <1>6, <1>7, <1>8, <1>9 DEF Inv

LEMMA ReadStep ==
    ASSUME Inv, Read
    PROVE  Inv'
<1>1. prod.pc = "read" /\ UNCHANGED <<size, ending, jobs, work, results, closed, outputVars>>
  BY DEF Read
<1>2. prod.rawOff = Offset(prod.idx) /\ prod.idx \in Nat /\ size \in Nat
  BY <1>1 DEF Inv, ProducerOK, Types, InputTypes
<1>3. Sequential!Delivered(size, prod.rawOff) = Length(prod.idx)
      /\ (Sequential!OverLimit(prod.rawOff + Length(prod.idx)) <=> ~Allowed(prod.idx))
  BY <1>2 DEF Length, Allowed
<1>4. CASE Sequential!AtEnd(prod.rawOff) /\ Stop("nil")
  BY <1>1, <1>4, StopStep
<1>5. CASE Sequential!ReadErr(prod.rawOff) = "error" /\ Stop("read")
  BY <1>1, <1>5, StopStep
<1>6. CASE Sequential!HasChunk(prod.rawOff) /\ ~Allowed(prod.idx) /\ Stop("limit")
  BY <1>1, <1>6, StopStep
<1>7. CASE /\ Sequential!HasChunk(prod.rawOff) /\ Allowed(prod.idx)
           /\ prod' = [prod EXCEPT !.pc = "send", !.buf = Get, !.n = Length(prod.idx)]
           /\ bufs' = [bufs EXCEPT ![Get] = prod.idx]
           /\ pool' = pool \ {Get}
  <2>1. Valid(prod.idx)
    BY <1>2, <1>7 DEF Valid
  <2> QED
    BY <1>1, <1>7, <2>1, FillStep
<1> QED
  BY <1>3, <1>4, <1>5, <1>6, <1>7 DEF Read

\* The producer sends the buffer and goes on behind it.
LEMMA SendStep ==
    ASSUME Inv, Send
    PROVE  Inv'
<1>i. PICK j : j = [index |-> prod.idx, rawOff |-> prod.rawOff, buf |-> prod.buf,
                   n |-> prod.n]
  OBVIOUS
<1>0. /\ prod.pc = "send" /\ Len(jobs) < Capacity
      /\ jobs' = Append(jobs, j)
      /\ prod' = [prod EXCEPT !.pc = IF prod.n < ChunkSize THEN "exit" ELSE "read",
                              !.idx = @ + 1, !.rawOff = @ + prod.n]
      /\ UNCHANGED <<size, ending, bufs, pool, work, results, closed, coll, file, chunks, result>>
  BY <1>i DEF Send, workerVars, outputVars
<1>t. /\ size \in Nat /\ prod.idx \in Nat /\ prod.rawOff \in Nat /\ prod.n \in Nat
      /\ prod.buf \in Bufs /\ jobs \in Seq(JobSet) /\ Capacity \in Nat
  BY <1>0, CapacityFacts DEF Inv, Types, InputTypes, ProducerOK, Holds
<1>s. /\ Valid(prod.idx) /\ prod.n = Length(prod.idx) /\ Holds(prod.buf, prod.idx)
      /\ prod.rawOff = Offset(prod.idx) /\ prod.err = "nil"
  BY <1>0 DEF Inv, ProducerOK
<1>j. j \in JobSet /\ JobOK(j)
  BY <1>i, <1>t, <1>s DEF JobSet, JobOK
<1>q. /\ jobs' \in Seq(JobSet) /\ Len(jobs') = Len(jobs) + 1
      /\ DOMAIN jobs = 1 .. Len(jobs) /\ DOMAIN jobs' = 1 .. Len(jobs) + 1
      /\ \A k \in 1 .. Len(jobs) : jobs'[k] = jobs[k]
      /\ jobs'[Len(jobs) + 1] = j /\ Len(jobs) \in Nat
  BY <1>0, <1>t, <1>j
<1>p. /\ prod'.pc = (IF prod.n < ChunkSize THEN "exit" ELSE "read") /\ prod'.err = "nil"
      /\ prod'.idx = prod.idx + 1 /\ prod'.rawOff = prod.rawOff + prod.n
      /\ prod' \in [pc : {"read", "send", "exit", "done"}, idx : Nat, rawOff : Nat,
                    buf : Nat, n : Nat, err : {"nil", "read", "limit"}]
  <2> DEFINE ps == [pc : {"read", "send", "exit", "done"}, idx : Nat, rawOff : Nat,
                    buf : Nat, n : Nat, err : {"nil", "read", "limit"}]
             x == IF prod.n < ChunkSize THEN "exit" ELSE "read"
             n == prod.idx + 1
             o == prod.rawOff + prod.n
  <2>1. prod \in ps
    BY DEF Inv, Types, InputTypes
  <2>2. x \in {"exit", "read"} /\ n \in Nat /\ o \in Nat
    BY <1>t
  <2>3. prod' = [prod EXCEPT !.pc = x, !.idx = n, !.rawOff = o]
    BY <1>0
  <2> HIDE DEF x, n, o
  <2>4. prod' \in ps /\ prod'.pc = x /\ prod'.idx = n /\ prod'.rawOff = o
        /\ prod'.err = prod.err
    BY <2>1, <2>2, <2>3
  <2> QED
    BY <1>s, <2>4 DEF x, n, o
<1>1. Types'
  <2>1. InputTypes'
    BY <1>0, <1>t, <1>p, <1>q DEF Inv, Types, InputTypes
  <2> QED
    BY <1>0, <2>1 DEF Inv, Types, WorkTypes, OutputTypes
<1>c. /\ prod.n \in 1 .. ChunkSize
      /\ prod.n = ChunkSize => prod.rawOff + prod.n = Offset(prod.idx + 1)
      /\ prod.n < ChunkSize => Offset(prod.idx + 1) >= size
  BY <1>t, <1>s, ChunkFacts DEF Valid, Sequential!HasChunk
\* Behind a short chunk the reader has ended, and not with another error.
<1>a. prod.n < ChunkSize => Sequential!AtEnd(Offset(prod.idx + 1))
  <2> SUFFICES ASSUME prod.n < ChunkSize PROVE Sequential!AtEnd(Offset(prod.idx + 1))
    OBVIOUS
  <2>1. /\ Offset(prod.idx) < size /\ Offset(prod.idx) \in Nat
        /\ Sequential!ReadErr(Offset(prod.idx)) # "error"
        /\ Offset(prod.idx + 1) = Offset(prod.idx) + ChunkSize
    BY <1>t, <1>s, OffsetFacts DEF Valid, Sequential!HasChunk
  <2>2. Offset(prod.idx) + ChunkSize > size
    BY <1>t, <1>s, <2>1, Delivery, PipelineAssumption DEF Length
  <2>3. ending # "error"
    BY <2>1, <2>2, PipelineAssumption, <1>t DEF Sequential!ReadErr
  <2>4. Sequential!ReadErr(Offset(prod.idx + 1)) # "error"
    BY <2>3 DEF Sequential!ReadErr
  <2> QED
    BY <1>c, <2>4 DEF Sequential!AtEnd
<1>z. ChunkSize \in Nat
  BY PipelineAssumption
<1>k. \A i : JobOK(i) => JobOK(i)'
  BY <1>0, SameJob DEF JobOK, Holds
<1>2. ProducerOK'
  <2>1. CASE prod.n < ChunkSize
    <3>1. Sequential!AtEnd(Offset(prod.idx))'
      BY <1>0, <1>a, <1>p, <2>1 DEF Sequential!AtEnd, Sequential!ReadErr, Offset
    <3> QED
      BY <1>p, <2>1, <3>1 DEF ProducerOK
  <2>2. CASE prod.n = ChunkSize
    <3>1. prod'.pc = "read" /\ prod'.rawOff = Offset(prod.idx + 1)
      BY <1>c, <1>p, <1>z, <2>2
    <3>2. (prod.rawOff = Offset(prod.idx))'
      BY <1>p, <3>1 DEF Offset
    <3> QED
      BY <1>p, <3>1, <3>2 DEF ProducerOK
  <2> QED
    BY <1>c, <1>z, <2>1, <2>2
<1>u. Taken' = Taken /\ Taken \in Int
  <2>1. prod'.idx = prod.idx + 1 /\ Len(jobs') = Len(jobs) + 1 /\ Len(jobs) \in Nat
    BY <1>p, <1>q
  <2> QED
    BY <1>t, <2>1 DEF Taken
<1>3. JobsOK'
  <2>1. \A k \in 1 .. Len(jobs) : (JobOK(jobs[k]))' /\ jobs'[k].index = Taken + k - 1
    BY <1>q, <1>k DEF Inv, JobsOK
  <2>2. JobOK(j)' /\ j.index = Taken + (Len(jobs) + 1) - 1
    BY <1>i, <1>j, <1>k, <1>t, <1>q DEF Taken
  <2>3. \A k \in 1 .. Len(jobs) + 1 : (JobOK(jobs[k]))' /\ jobs'[k].index = Taken + k - 1
    <3> SUFFICES ASSUME NEW k \in 1 .. Len(jobs) + 1
                 PROVE  (JobOK(jobs[k]))' /\ jobs'[k].index = Taken + k - 1
      OBVIOUS
    <3>1. CASE k \in 1 .. Len(jobs)
      BY <2>1, <3>1
    <3>2. CASE k = Len(jobs) + 1
      <4>1. jobs'[k] = j
        BY <1>q, <3>2
      <4> QED
        BY <2>2, <3>2, <4>1
    <3> QED
      BY <1>q, <3>1, <3>2
  <2>4. Len(jobs)' <= prod'.idx
    BY <1>p, <1>q, <1>t DEF Inv, JobsOK
  <2> QED
    BY <1>q, <1>u, <2>3, <2>4 DEF JobsOK
<1>4. WorkersOK'
  <2>1. \A w \in Workers : work[w].pc # "done"
    BY <1>0 DEF Inv, WorkersOK
  <2> QED
    BY <1>0, <1>k, <2>1, SameChunks DEF Inv, WorkersOK, Encoding, Sending
<1>5. ResultsOK'
  BY <1>0, SameChunks DEF Inv, ResultsOK
<1>6. BuffersOK'
  <2> SUFFICES ASSUME NEW b \in Bufs \ pool
               PROVE  \/ \E k \in DOMAIN jobs' : jobs'[k].buf = b
                      \/ \E w \in Workers : Encoding(w) /\ work[w].job.buf = b
    BY <1>0 DEF BuffersOK, Encoding
  <2>1. CASE prod.buf = b
    <3>1. jobs'[Len(jobs) + 1].buf = b /\ Len(jobs) + 1 \in DOMAIN jobs'
      BY <1>i, <1>q, <2>1
    <3> QED
      BY <3>1
  <2>2. CASE \E k \in DOMAIN jobs : jobs[k].buf = b
    <3>1. PICK k \in DOMAIN jobs : jobs[k].buf = b
      BY <2>2
    <3>2. k \in DOMAIN jobs' /\ jobs'[k].buf = b
      BY <1>q, <3>1
    <3> QED
      BY <3>2
  <2> QED
    BY <2>1, <2>2 DEF Inv, BuffersOK
<1>7. InRange' /\ Apart' /\ Accounted'
  BY <1>0, <1>u DEF Inv, InRange, Apart, Accounted, Open, Busy, IndexAt,
     Encoding, Sending
<1>8. CallerOK'
  <2>1. coll.pc # "returned"
    BY <1>0, NotYet
  <2> QED
    BY <1>0, <1>p, <2>1 DEF Inv, CallerOK, Current
<1>9. OutputOK'
  BY <1>0, SameOutput DEF Inv
<1> QED
  BY <1>1, <1>2, <1>3, <1>4, <1>5, <1>6, <1>7, <1>8, <1>9 DEF Inv

LEMMA ProducerExitStep ==
    ASSUME Inv, ProducerExit
    PROVE  Inv'
<1>0. /\ prod.pc = "exit" /\ prod' = [prod EXCEPT !.pc = "done"]
      /\ UNCHANGED <<size, ending, jobs, bufs, pool, work, results, closed, coll, file, chunks,
                     result>>
  BY DEF ProducerExit, workerVars, outputVars
<1>1. Types'
  BY <1>0 DEF Inv, Types, InputTypes, WorkTypes, OutputTypes
<1>p. prod'.pc = "done" /\ prod'.err = prod.err /\ prod'.idx = prod.idx
  BY <1>0 DEF Inv, Types, InputTypes
<1>k. \A i : JobOK(i) => JobOK(i)'
  BY <1>0, SameJob DEF JobOK, Holds
<1>2. ProducerOK'
  <2>1. /\ Allowed(prod.idx)' <=> Allowed(prod.idx)
        /\ Sequential!HasChunk(Offset(prod.idx))' <=> Sequential!HasChunk(Offset(prod.idx))
        /\ Sequential!AtEnd(Offset(prod.idx))' <=> Sequential!AtEnd(Offset(prod.idx))
        /\ Sequential!ReadErr(Offset(prod.idx))' = Sequential!ReadErr(Offset(prod.idx))
    BY <1>0, <1>p DEF Allowed, Length, Offset, Sequential!HasChunk, Sequential!AtEnd,
       Sequential!ReadErr
  <2>2. prod.err \in {"nil", "read", "limit"}
    BY DEF Inv, Types, InputTypes
  <2>3. CASE prod.err = "nil"
    BY <1>0, <1>p, <2>1, <2>3 DEF Inv, ProducerOK
  <2>4. CASE prod.err = "read"
    BY <1>0, <1>p, <2>1, <2>4 DEF Inv, ProducerOK
  <2>5. CASE prod.err = "limit"
    BY <1>0, <1>p, <2>1, <2>5 DEF Inv, ProducerOK
  <2> QED
    BY <2>2, <2>3, <2>4, <2>5
<1>3. JobsOK'
  BY <1>0, <1>p, <1>k DEF Inv, JobsOK, Taken
<1>4. WorkersOK'
  BY <1>0, <1>p, <1>k, SameChunks DEF Inv, WorkersOK, Encoding, Sending
<1>5. ResultsOK'
  BY <1>0, SameChunks DEF Inv, ResultsOK
<1>6. BuffersOK'
  BY <1>0, <1>p DEF Inv, BuffersOK, Encoding
<1>7. InRange' /\ Apart' /\ Accounted'
  BY <1>0, <1>p DEF Inv, InRange, Apart, Accounted, Taken, Open, Busy, IndexAt,
     Encoding, Sending
<1>8. CallerOK'
  <2>1. coll.pc # "returned"
    BY <1>0, NotYet
  <2> QED
    BY <1>0, <1>p, <2>1 DEF Inv, CallerOK, Current
<1>9. OutputOK'
  BY <1>0, SameOutput DEF Inv
<1> QED
  BY <1>1, <1>2, <1>3, <1>4, <1>5, <1>6, <1>7, <1>8, <1>9 DEF Inv

----------------------------------------------------------------------------
(* The workers.                                                            *)

\* What the producer and the caller know does not depend on the workers.
LEMMA SameProducer ==
    ASSUME UNCHANGED <<size, ending, prod>>, ProducerOK,
           prod.pc = "send" => prod.buf \notin pool' /\ bufs'[prod.buf] = bufs[prod.buf]
    PROVE  ProducerOK'
<1>1. \A i : Length(i)' = Length(i) /\ (Allowed(i)' <=> Allowed(i)) /\ (Valid(i)' <=> Valid(i))
  BY SameChunks
<1>2. CASE prod.pc = "send"
  <2>1. Holds(prod.buf, prod.idx)'
    BY <1>2 DEF ProducerOK, Holds
  <2>2. Valid(prod.idx)' /\ Length(prod.idx)' = Length(prod.idx)
    BY <1>2 DEF ProducerOK, Valid, Allowed, Length, Offset, Sequential!HasChunk,
       Sequential!ReadErr
  <2> QED
    BY <1>2, <2>1, <2>2 DEF ProducerOK
<1>3. CASE prod.pc # "send"
  <2>p. prod' = prod
    OBVIOUS
  <2>1. /\ Allowed(prod.idx)' <=> Allowed(prod.idx)
        /\ Sequential!HasChunk(Offset(prod.idx))' <=> Sequential!HasChunk(Offset(prod.idx))
        /\ Sequential!AtEnd(Offset(prod.idx))' <=> Sequential!AtEnd(Offset(prod.idx))
        /\ Sequential!ReadErr(Offset(prod.idx))' = Sequential!ReadErr(Offset(prod.idx))
    BY DEF Allowed, Length, Offset, Sequential!HasChunk, Sequential!AtEnd, Sequential!ReadErr
  <2>2. (prod.rawOff = Offset(prod.idx))' <=> prod.rawOff = Offset(prod.idx)
    BY DEF Offset
  <2>3. CASE prod.pc = "read"
    BY <2>p, <2>2, <2>3 DEF ProducerOK
  <2>4. CASE prod.pc \in {"exit", "done"}
    BY <2>p, <2>1, <2>4 DEF ProducerOK
  <2>5. CASE prod.pc \notin {"read", "exit", "done"}
    BY <1>3, <2>p, <2>5 DEF ProducerOK
  <2> QED
    BY <2>3, <2>4, <2>5
<1> QED
  BY <1>2, <1>3

\* An idle worker takes the first job.
LEMMA ReceiveStep ==
    ASSUME Inv, NEW w \in Workers, Receive(w)
    PROVE  Inv'
<1>i. PICK j : j = Head(jobs)
  OBVIOUS
<1>0. /\ work[w].pc = "idle" /\ jobs # <<>> /\ jobs' = Tail(jobs)
      /\ work' = [work EXCEPT ![w] = [pc |-> "encode", job |-> j]]
      /\ UNCHANGED <<size, ending, prod, bufs, pool, results, closed, coll, file, chunks, result>>
  BY <1>i DEF Receive, producerVars, outputVars
<1>t. /\ prod.idx \in Nat /\ jobs \in Seq(JobSet) /\ Capacity \in Nat
      /\ work \in [Workers -> WorkerSet]
  BY CapacityFacts DEF Inv, Types, InputTypes, WorkTypes
<1>q. /\ j \in JobSet /\ j = jobs[1] /\ jobs' \in Seq(JobSet)
      /\ Len(jobs) \in Nat \ {0} /\ Len(jobs') = Len(jobs) - 1
      /\ DOMAIN jobs = 1 .. Len(jobs) /\ DOMAIN jobs' = 1 .. Len(jobs) - 1
      /\ \A k \in 1 .. Len(jobs) - 1 : jobs'[k] = jobs[k + 1]
  BY <1>i, <1>0, <1>t
<1>u. Taken \in Int /\ Taken' = Taken + 1
  BY <1>0, <1>t, <1>q DEF Taken
<1>j. JobOK(j) /\ j.index = Taken
  BY <1>q, <1>u DEF Inv, JobsOK
<1>w. /\ work'[w] = [pc |-> "encode", job |-> j]
      /\ \A v \in Workers \ {w} : work'[v] = work[v]
  BY <1>0, <1>t
<1>k. \A i : JobOK(i) => JobOK(i)'
  BY <1>0, SameJob DEF JobOK, Holds
<1>1. Types'
  <2>1. InputTypes'
    BY <1>0, <1>t, <1>q DEF Inv, Types, InputTypes
  <2>2. WorkTypes'
    <3>1. [pc |-> "encode", job |-> j] \in WorkerSet
      BY <1>q DEF WorkerSet
    <3> QED
      BY <1>0, <1>t, <3>1 DEF Inv, Types, WorkTypes
  <2> QED
    BY <1>0, <2>1, <2>2 DEF Inv, Types, OutputTypes
<1>2. ProducerOK'
  <2>1. prod.pc = "send" => prod.buf \notin pool
    BY DEF Inv, ProducerOK, Holds
  <2> QED
    BY <1>0, <2>1, SameProducer DEF Inv
<1>3. JobsOK'
  <2>1. \A k \in 1 .. Len(jobs) - 1 : (JobOK(jobs[k]))' /\ jobs'[k].index = Taken' + k - 1
    <3> SUFFICES ASSUME NEW k \in 1 .. Len(jobs) - 1
                 PROVE  (JobOK(jobs[k]))' /\ jobs'[k].index = Taken' + k - 1
      OBVIOUS
    <3>1. JobOK(jobs[k + 1]) /\ jobs[k + 1].index = Taken + (k + 1) - 1
      BY <1>q DEF Inv, JobsOK
    <3>2. jobs'[k] = jobs[k + 1]
      BY <1>q
    <3>3. jobs'[k].index = Taken' + k - 1
      BY <1>u, <3>1, <3>2
    <3>4. PICK i : i = jobs[k + 1] /\ JobOK(i)
      BY <3>1
    <3>5. JobOK(i)' /\ jobs'[k] = i
      BY <1>k, <3>2, <3>4
    <3> QED
      BY <3>3, <3>5
  <2> QED
    BY <1>0, <1>q, <1>t, <2>1 DEF Inv, JobsOK
<1>4. WorkersOK'
  <2>1. JobOK(j)'
    BY <1>j, <1>k
  <2>2. \A v \in Workers : work[v].pc # "done"
    BY <1>0 DEF Inv, WorkersOK
  <2>3. \A v \in Workers : work'[v].pc # "done" /\ (Encoding(v)' => JobOK(work[v].job)')
    BY <1>0, <1>w, <1>k, <2>1, <2>2 DEF Inv, WorkersOK, Encoding
  <2>4. \A v \in Workers : Sending(v)' => ResultOK(work[v].res)'
    BY <1>0, <1>w, SameChunks DEF Inv, WorkersOK, Sending
  <2>5. ~closed
    BY <2>2 DEF Inv, WorkersOK
  <2> QED
    BY <1>0, <2>3, <2>4, <2>5 DEF WorkersOK
<1>5. ResultsOK'
  BY <1>0, SameChunks DEF Inv, ResultsOK
<1>6. BuffersOK'
  <2> SUFFICES ASSUME NEW b \in Bufs \ pool, prod.pc # "send" \/ prod.buf # b
               PROVE  \/ \E k \in DOMAIN jobs' : jobs'[k].buf = b
                      \/ \E v \in Workers : Encoding(v)' /\ work'[v].job.buf = b
    BY <1>0 DEF BuffersOK
  <2>1. CASE \E k \in DOMAIN jobs : jobs[k].buf = b
    <3>1. PICK k \in 1 .. Len(jobs) : jobs[k].buf = b
      BY <1>q, <2>1
    <3>2. CASE k = 1
      BY <1>q, <1>w, <3>1, <3>2 DEF Encoding
    <3>3. CASE k # 1
      <4>1. k - 1 \in DOMAIN jobs' /\ jobs'[k - 1] = jobs[k]
        BY <1>q, <3>3
      <4> QED
        BY <3>1, <4>1
    <3> QED
      BY <3>2, <3>3
  <2>2. CASE \E v \in Workers : Encoding(v) /\ work[v].job.buf = b
    BY <1>0, <1>w, <2>2 DEF Encoding
  <2> QED
    BY <2>1, <2>2 DEF Inv, BuffersOK
<1>b. /\ Busy(w)' /\ IndexAt(w)' = Taken /\ ~Busy(w)
      /\ \A v \in Workers \ {w} : Busy(v)' = Busy(v) /\ IndexAt(v)' = IndexAt(v)
  BY <1>0, <1>w, <1>j DEF Busy, IndexAt, Encoding, Sending
<1>o. coll.next \in Nat /\ \A i : i \in Open' <=> i \in Open \/ i = Taken
  BY <1>0, <1>u DEF Inv, InRange, Open, Types, OutputTypes
<1>7. InRange'
  BY <1>0, <1>u, <1>b, <1>o DEF Inv, InRange
<1>8. Apart'
  <2>1. Taken \notin Open
    BY <1>u, <1>o DEF Open
  <2>2. \A v \in Workers : Busy(v) => IndexAt(v) # Taken
    BY <2>1 DEF Inv, InRange
  <2>3. \A k \in DOMAIN results : results[k].index # Taken
    BY <2>1 DEF Inv, InRange
  <2>4. \A r \in coll.pending : r.index # Taken
    BY <2>1 DEF Inv, InRange
  <2> QED
    BY <1>0, <1>b, <2>2, <2>3, <2>4 DEF Inv, Apart
<1>9. Accounted'
  BY <1>0, <1>b, <1>o DEF Inv, Accounted
<1>10. CallerOK'
  BY <1>0 DEF Inv, CallerOK, Current
<1>11. OutputOK'
  BY <1>0, SameOutput DEF Inv
<1> QED
  BY <1>1, <1>2, <1>3, <1>4, <1>5, <1>6, <1>7, <1>8, <1>9, <1>10, <1>11 DEF Inv

\* A worker encodes its job and gives the buffer back: nobody else has it,
\* since what is in it is the chunk of one job only.
LEMMA EncodeStep ==
    ASSUME Inv, NEW w \in Workers, Encode(w)
    PROVE  Inv'
<1>j. PICK j : j = work[w].job
  OBVIOUS
<1>e. PICK err \in {"nil", "encode"} :
        /\ err # "nil" => MayFail
        /\ work' = [work EXCEPT ![w] =
                        [pc |-> "send",
                         res |-> [index |-> j.index, rawOff |-> j.rawOff, n |-> j.n,
                                  data |-> bufs[j.buf], err |-> err]]]
  BY <1>j DEF Encode
<1>r. PICK r : r = [index |-> j.index, rawOff |-> j.rawOff, n |-> j.n,
                    data |-> bufs[j.buf], err |-> err]
  OBVIOUS
<1>0. /\ Encoding(w) /\ pool' = pool \cup {j.buf}
      /\ bufs' = [bufs EXCEPT ![j.buf] = -1]
      /\ work' = [work EXCEPT ![w] = [pc |-> "send", res |-> r]]
      /\ UNCHANGED <<size, ending, prod, jobs, results, closed, coll, file, chunks, result>>
  BY <1>j, <1>e, <1>r DEF Encode, Encoding, producerVars, outputVars
<1>t. /\ prod.idx \in Nat /\ jobs \in Seq(JobSet) /\ coll.next \in Nat
      /\ work \in [Workers -> WorkerSet] /\ bufs \in [Bufs -> Nat \cup {-1}]
  BY DEF Inv, Types, InputTypes, WorkTypes, OutputTypes
<1>g. JobOK(j) /\ j \in JobSet
  <2>1. work[w] \in WorkerSet
    BY <1>t
  <2> QED
    BY <1>0, <1>j, <2>1 DEF Inv, WorkersOK, WorkerSet, Encoding
<1>s. ResultOK(r) /\ r \in ResultSet /\ r.index = j.index
  BY <1>e, <1>g, <1>r DEF JobOK, ResultOK, Holds, JobSet, ResultSet
<1>w. /\ work'[w] = [pc |-> "send", res |-> r]
      /\ \A v \in Workers \ {w} : work'[v] = work[v]
  BY <1>0, <1>t
<1>b. /\ j.buf \in Bufs \ pool /\ bufs[j.buf] = j.index
      /\ \A b \in Bufs \ {j.buf} : bufs'[b] = bufs[b]
  BY <1>0, <1>g, <1>t DEF JobOK, Holds
<1>i. Busy(w) /\ IndexAt(w) = j.index
  BY <1>0, <1>j DEF Busy, IndexAt
\* Jobs of other chunks have other buffers.
<1>k. \A i : JobOK(i) /\ i.index # j.index => JobOK(i)'
  <2> SUFFICES ASSUME NEW i, JobOK(i), i.index # j.index PROVE JobOK(i)'
    OBVIOUS
  <2>1. i.buf \in Bufs \ pool /\ bufs[i.buf] = i.index
    BY DEF JobOK, Holds
  <2>2. i.buf # j.buf
    BY <1>b, <2>1
  <2> QED
    BY <1>0, <1>b, <2>1, <2>2, SameJob
<1>o. j.index \in Open /\ Taken \in Int /\ Len(jobs) \in Nat
  BY <1>0, <1>i, <1>t DEF Inv, InRange, Taken
<1>1. Types'
  <2>1. WorkTypes'
    <3>1. [pc |-> "send", res |-> r] \in WorkerSet
      BY <1>s DEF WorkerSet
    <3>2. bufs' \in [Bufs -> Nat \cup {-1}]
      BY <1>0, <1>t
    <3>3. work' \in [Workers -> WorkerSet]
      BY <1>0, <1>t, <3>1
    <3> QED
      BY <1>0, <1>b, <3>2, <3>3 DEF Inv, Types, WorkTypes
  <2> QED
    BY <1>0, <2>1 DEF Inv, Types, InputTypes, OutputTypes
<1>2. ProducerOK'
  <2>1. CASE prod.pc = "send"
    <3>1. prod.buf \in Bufs \ pool /\ bufs[prod.buf] = prod.idx
      BY <2>1 DEF Inv, ProducerOK, Holds
    <3>2. prod.idx # j.index
      BY <1>o, <1>t DEF Open, Taken
    <3>3. prod.buf # j.buf
      BY <1>b, <3>1, <3>2
    <3> QED
      BY <1>0, <1>b, <3>1, <3>3, SameProducer DEF Inv
  <2>2. CASE prod.pc # "send"
    BY <1>0, <2>2, SameProducer DEF Inv
  <2> QED
    BY <2>1, <2>2
<1>3. JobsOK'
  <2>1. \A k \in DOMAIN jobs : jobs[k].index # j.index
    <3> SUFFICES ASSUME NEW k \in DOMAIN jobs PROVE jobs[k].index # j.index
      OBVIOUS
    <3>1. jobs[k].index = Taken + k - 1 /\ k \in 1 .. Len(jobs)
      BY <1>t DEF Inv, JobsOK
    <3> QED
      BY <1>o, <3>1 DEF Open
  <2>2. \A k \in DOMAIN jobs : JobOK(jobs[k])'
    BY <1>0, <1>k, <2>1 DEF Inv, JobsOK
  <2> QED
    BY <1>0, <2>2 DEF Inv, JobsOK, Taken
<1>4. WorkersOK'
  <2>1. \A v \in Workers : Encoding(v)' => JobOK(work[v].job)'
    <3> SUFFICES ASSUME NEW v \in Workers, Encoding(v)' PROVE JobOK(work[v].job)'
      OBVIOUS
    <3>1. v # w /\ Encoding(v) /\ work'[v] = work[v]
      BY <1>w DEF Encoding
    <3>2. PICK i : i = work[v].job
      OBVIOUS
    <3>3. JobOK(i) /\ Busy(v) /\ IndexAt(v) = i.index
      BY <3>1, <3>2 DEF Inv, WorkersOK, Busy, IndexAt
    <3>4. i.index # j.index
      BY <1>i, <3>1, <3>3 DEF Inv, Apart
    <3>5. JobOK(i)' /\ work'[v].job = i
      BY <1>k, <3>1, <3>2, <3>3, <3>4
    <3> QED
      BY <3>5
  <2>2. \A v \in Workers : Sending(v)' => ResultOK(work[v].res)'
    <3>1. ResultOK(r)'
      BY <1>0, <1>s, SameChunks
    <3> QED
      BY <1>0, <1>w, <3>1, SameChunks DEF Inv, WorkersOK, Sending
  <2>3. \A v \in Workers : work'[v].pc = "done" <=> work[v].pc = "done"
    BY <1>0, <1>w DEF Encoding
  <2> QED
    BY <1>0, <2>1, <2>2, <2>3 DEF Inv, WorkersOK
<1>5. ResultsOK'
  BY <1>0, SameChunks DEF Inv, ResultsOK
<1>6. BuffersOK'
  BY <1>0, <1>j, <1>w DEF Inv, BuffersOK, Encoding
<1>7. \A v \in Workers : Busy(v)' = Busy(v) /\ (Busy(v) => IndexAt(v)' = IndexAt(v))
  <2>1. Busy(w)' /\ IndexAt(w)' = j.index
    BY <1>s, <1>w DEF Busy, IndexAt, Encoding, Sending
  <2> QED
    BY <1>i, <1>w, <2>1 DEF Busy, IndexAt, Encoding, Sending
<1>8. InRange' /\ Apart' /\ Accounted'
  BY <1>0, <1>7 DEF Inv, InRange, Apart, Accounted, Taken, Open
<1>10. CallerOK'
  BY <1>0 DEF Inv, CallerOK, Current
<1>11. OutputOK'
  BY <1>0, SameOutput DEF Inv
<1> QED
  BY <1>1, <1>2, <1>3, <1>4, <1>5, <1>6, <1>8, <1>10, <1>11 DEF Inv

\* A worker hands its result over.
LEMMA SendResultStep ==
    ASSUME Inv, NEW w \in Workers, SendResult(w)
    PROVE  Inv'
<1>r. PICK r : r = work[w].res
  OBVIOUS
<1>0. /\ Sending(w) /\ results' = Append(results, r)
      /\ work' = [work EXCEPT ![w] = [pc |-> "idle"]]
      /\ UNCHANGED <<size, ending, prod, jobs, bufs, pool, closed, coll, file, chunks, result>>
  BY <1>r DEF SendResult, Sending, producerVars, outputVars
<1>t. results \in Seq(ResultSet) /\ work \in [Workers -> WorkerSet]
  BY DEF Inv, Types, WorkTypes
<1>s. ResultOK(r) /\ r \in ResultSet /\ Busy(w) /\ IndexAt(w) = r.index
  <2>1. work[w] \in WorkerSet
    BY <1>t
  <2> QED
    BY <1>0, <1>r, <2>1 DEF Inv, WorkersOK, WorkerSet, Sending, Encoding, Busy, IndexAt
<1>q. /\ results' \in Seq(ResultSet) /\ Len(results) \in Nat
      /\ DOMAIN results = 1 .. Len(results) /\ DOMAIN results' = 1 .. Len(results) + 1
      /\ \A k \in 1 .. Len(results) : results'[k] = results[k]
      /\ results'[Len(results) + 1] = r
  BY <1>0, <1>s, <1>t
<1>w. /\ work'[w] = [pc |-> "idle"]
      /\ \A v \in Workers \ {w} : work'[v] = work[v]
  BY <1>0, <1>t
<1>k. \A i : JobOK(i) => JobOK(i)'
  BY <1>0, SameJob DEF JobOK, Holds
<1>1. Types'
  <2>1. WorkTypes'
    <3>1. [pc |-> "idle"] \in WorkerSet
      BY DEF WorkerSet
    <3>2. work' \in [Workers -> WorkerSet]
      BY <1>0, <1>t, <3>1
    <3> QED
      BY <1>0, <1>q, <3>2 DEF Inv, Types, WorkTypes
  <2> QED
    BY <1>0, <2>1 DEF Inv, Types, InputTypes, OutputTypes
<1>2. ProducerOK'
  BY <1>0, SameProducer DEF Inv, ProducerOK, Holds
<1>3. JobsOK'
  BY <1>0, <1>k DEF Inv, JobsOK, Taken
<1>4. WorkersOK'
  <2>1. \A v \in Workers : Encoding(v)' => JobOK(work[v].job)'
    BY <1>0, <1>w, <1>k DEF Inv, WorkersOK, Encoding
  <2>2. \A v \in Workers : Sending(v)' => ResultOK(work[v].res)'
    BY <1>0, <1>w, SameChunks DEF Inv, WorkersOK, Sending
  <2>3. \A v \in Workers : work'[v].pc = "done" <=> work[v].pc = "done"
    BY <1>0, <1>w DEF Sending
  <2> QED
    BY <1>0, <2>1, <2>2, <2>3 DEF Inv, WorkersOK
<1>5. ResultsOK'
  <2>1. ResultOK(r)'
    BY <1>0, <1>s, SameChunks
  <2>2. \A k \in 1 .. Len(results) : ResultOK(results[k])'
    BY <1>0, <1>q, SameChunks DEF Inv, ResultsOK
  <2>3. \A k \in 1 .. Len(results) + 1 : ResultOK(results[k])'
    <3> SUFFICES ASSUME NEW k \in 1 .. Len(results) + 1 PROVE ResultOK(results[k])'
      OBVIOUS
    <3>1. CASE k = Len(results) + 1
      BY <1>q, <2>1, <3>1
    <3>2. CASE k \in 1 .. Len(results)
      BY <2>2, <3>2
    <3> QED
      BY <1>q, <3>1, <3>2
  <2>4. \A s \in coll.pending : ResultOK(s)'
    BY <1>0, SameChunks DEF Inv, ResultsOK
  <2> QED
    BY <1>0, <1>q, <2>3, <2>4 DEF ResultsOK
<1>6. BuffersOK'
  BY <1>0, <1>w DEF Inv, BuffersOK, Encoding, Sending
<1>b. /\ ~Busy(w)'
      /\ \A v \in Workers \ {w} : Busy(v)' = Busy(v) /\ IndexAt(v)' = IndexAt(v)
  BY <1>0, <1>w DEF Busy, IndexAt, Encoding, Sending
<1>o. Open' = Open /\ Taken' = Taken
  BY <1>0 DEF Open, Taken
<1>7. InRange'
  BY <1>0, <1>b, <1>o, <1>q, <1>s DEF Inv, InRange
<1>8. Apart'
  <2>1. \A k \in 1 .. Len(results) : results[k].index # r.index
    BY <1>q, <1>s DEF Inv, Apart
  <2>2. \A s \in coll.pending : s.index # r.index
    BY <1>s DEF Inv, Apart
  <2>3. \A v \in Workers \ {w} : Busy(v) => IndexAt(v) # r.index
    BY <1>s DEF Inv, Apart
  <2>4. \A k, l \in DOMAIN results' : results'[k].index = results'[l].index => k = l
    BY <1>q, <2>1 DEF Inv, Apart
  <2> QED
    BY <1>0, <1>b, <1>q, <2>2, <2>3, <2>4 DEF Inv, Apart
<1>9. Accounted'
  <2> SUFFICES ASSUME NEW i \in Open
               PROVE  \/ \E v \in Workers : Busy(v)' /\ IndexAt(v)' = i
                      \/ \E k \in DOMAIN results' : results'[k].index = i
                      \/ \E s \in coll.pending : s.index = i
    BY <1>0, <1>o DEF Accounted
  <2>1. CASE i = r.index
    BY <1>q, <2>1
  <2>2. CASE i # r.index
    BY <1>b, <1>q, <1>s, <2>2 DEF Inv, Accounted
  <2> QED
    BY <2>1, <2>2
<1>10. CallerOK'
  <2>1. coll.pc # "returned"
    BY <1>0, NotYet DEF Sending
  <2> QED
    BY <1>0, <2>1 DEF Inv, CallerOK, Current
<1>11. OutputOK'
  BY <1>0, SameOutput DEF Inv
<1> QED
  BY <1>1, <1>2, <1>3, <1>4, <1>5, <1>6, <1>7, <1>8, <1>9, <1>10, <1>11 DEF Inv

\* A worker ends when jobs is closed and empty.
LEMMA WorkerExitStep ==
    ASSUME Inv, NEW w \in Workers, WorkerExit(w)
    PROVE  Inv'
<1>0. /\ work[w].pc = "idle" /\ jobs = <<>> /\ prod.pc = "done"
      /\ work' = [work EXCEPT ![w] = [pc |-> "done"]]
      /\ UNCHANGED <<size, ending, prod, jobs, bufs, pool, results, closed, coll, file, chunks,
                     result>>
  BY DEF WorkerExit, producerVars, outputVars
<1>t. work \in [Workers -> WorkerSet]
  BY DEF Inv, Types, WorkTypes
<1>w. /\ work'[w] = [pc |-> "done"]
      /\ \A v \in Workers \ {w} : work'[v] = work[v]
  BY <1>0, <1>t
<1>k. \A i : JobOK(i) => JobOK(i)'
  BY <1>0, SameJob DEF JobOK, Holds
<1>1. Types'
  <2>1. WorkTypes'
    <3>1. [pc |-> "done"] \in WorkerSet
      BY DEF WorkerSet
    <3>2. work' \in [Workers -> WorkerSet]
      BY <1>0, <1>t, <3>1
    <3> QED
      BY <1>0, <3>2 DEF Inv, Types, WorkTypes
  <2> QED
    BY <1>0, <2>1 DEF Inv, Types, InputTypes, OutputTypes
<1>2. ProducerOK'
  BY <1>0, SameProducer DEF Inv, ProducerOK, Holds
<1>3. JobsOK'
  BY <1>0, <1>k DEF Inv, JobsOK, Taken
<1>4. WorkersOK'
  <2>1. \A v \in Workers : Encoding(v)' => JobOK(work[v].job)'
    BY <1>0, <1>w, <1>k DEF Inv, WorkersOK, Encoding
  <2>2. \A v \in Workers : Sending(v)' => ResultOK(work[v].res)'
    BY <1>0, <1>w, SameChunks DEF Inv, WorkersOK, Sending
  <2> QED
    BY <1>0, <1>w, <2>1, <2>2 DEF Inv, WorkersOK
<1>5. ResultsOK'
  BY <1>0, SameChunks DEF Inv, ResultsOK
<1>6. BuffersOK'
  BY <1>0, <1>w DEF Inv, BuffersOK, Encoding, Sending
<1>7. /\ ~Busy(w) /\ ~Busy(w)'
      /\ \A v \in Workers \ {w} : Busy(v)' = Busy(v) /\ IndexAt(v)' = IndexAt(v)
  BY <1>0, <1>w DEF Busy, IndexAt, Encoding, Sending
<1>8. InRange' /\ Apart' /\ Accounted'
  BY <1>0, <1>7 DEF Inv, InRange, Apart, Accounted, Taken, Open
<1>9. CallerOK'
  BY <1>0 DEF Inv, CallerOK, Current
<1>10. OutputOK'
  BY <1>0, SameOutput DEF Inv
<1> QED
  BY <1>1, <1>2, <1>3, <1>4, <1>5, <1>6, <1>8, <1>9, <1>10 DEF Inv

LEMMA CloseResultsStep ==
    ASSUME Inv, CloseResults
    PROVE  Inv'
<1>0. /\ \A w \in Workers : work[w].pc = "done"
      /\ closed' = TRUE
      /\ UNCHANGED <<size, ending, prod, jobs, bufs, pool, work, results, coll, file, chunks,
                     result>>
  BY DEF CloseResults, producerVars, workerVars, outputVars
<1>1. Types'
  <2>1. closed' \in BOOLEAN
    BY <1>0, Zenon
  <2> QED
    BY <1>0, <2>1 DEF Inv, Types, InputTypes, WorkTypes, OutputTypes
<1>k. \A i : JobOK(i) => JobOK(i)'
  BY <1>0, SameJob DEF JobOK, Holds
<1>2. ProducerOK'
  BY <1>0, SameProducer DEF Inv, ProducerOK, Holds
<1>3. JobsOK'
  BY <1>0, <1>k DEF Inv, JobsOK, Taken
<1>4. WorkersOK'
  BY <1>0 DEF Inv, WorkersOK, Encoding, Sending
<1>5. ResultsOK'
  BY <1>0, SameChunks DEF Inv, ResultsOK
<1>6. BuffersOK'
  BY <1>0 DEF Inv, BuffersOK, Encoding
<1>7. InRange' /\ Apart' /\ Accounted'
  BY <1>0 DEF Inv, InRange, Apart, Accounted, Taken, Open, Busy, IndexAt,
     Encoding, Sending
<1>8. CallerOK'
  BY <1>0 DEF Inv, CallerOK, Current
<1>9. OutputOK'
  BY <1>0, SameOutput DEF Inv
<1> QED
  BY <1>1, <1>2, <1>3, <1>4, <1>5, <1>6, <1>7, <1>8, <1>9 DEF Inv

----------------------------------------------------------------------------
(* The caller.                                                             *)

\* Nothing of the producer's and the workers' side changes.
LEMMA SameWork ==
    ASSUME Inv, UNCHANGED <<size, ending, prod, jobs, bufs, pool, work, closed>>
    PROVE  ProducerOK' /\ JobsOK' /\ WorkersOK' /\ BuffersOK' /\ InputTypes'
           /\ Taken' = Taken
           /\ \A v \in Workers : Busy(v)' = Busy(v) /\ IndexAt(v)' = IndexAt(v)
<1>k. \A i : JobOK(i) => JobOK(i)'
  BY SameJob DEF JobOK, Holds
<1>1. ProducerOK'
  BY SameProducer DEF Inv, ProducerOK, Holds
<1>2. JobsOK'
  BY <1>k DEF Inv, JobsOK, Taken
<1>3. WorkersOK'
  BY <1>k, SameChunks DEF Inv, WorkersOK, Encoding, Sending
<1>4. BuffersOK' /\ Taken' = Taken
  BY DEF Inv, BuffersOK, Encoding, Taken
<1>5. InputTypes'
  BY DEF Inv, Types, InputTypes
<1>6. \A v \in Workers : Busy(v)' = Busy(v) /\ IndexAt(v)' = IndexAt(v)
  BY DEF Busy, IndexAt, Encoding, Sending
<1> QED
  BY <1>1, <1>2, <1>3, <1>4, <1>5, <1>6

\* The caller takes a result and remembers its error.
LEMMA CollectStep ==
    ASSUME Inv, Collect
    PROVE  Inv'
<1>r. PICK r : r = Head(results)
  OBVIOUS
<1>e. PICK err : err = IF coll.err = "nil" THEN r.err ELSE coll.err
  OBVIOUS
<1>0. /\ coll.pc = "collect" /\ results # <<>>
      /\ results' = Tail(results)
      /\ coll' = [coll EXCEPT !.pc = "drain", !.pending = coll.pending \cup {r}, !.err = err]
      /\ UNCHANGED <<size, ending, prod, jobs, bufs, pool, work, closed, file, chunks, result>>
  BY <1>r, <1>e DEF Collect, producerVars, workerVars
<1>t. /\ results \in Seq(ResultSet)
      /\ coll \in [pc : {"collect", "drain", "returned"}, pending : SUBSET ResultSet,
                   next : Nat, err : {"nil", "encode", "write"}]
  BY DEF Inv, Types, WorkTypes, OutputTypes
<1>q. /\ r \in ResultSet /\ r = results[1] /\ results' \in Seq(ResultSet)
      /\ Len(results) \in Nat \ {0}
      /\ DOMAIN results = 1 .. Len(results) /\ DOMAIN results' = 1 .. Len(results) - 1
      /\ \A k \in 1 .. Len(results) - 1 : results'[k] = results[k + 1]
  BY <1>r, <1>0, <1>t
<1>s. ResultOK(r) /\ r.err \in {"nil", "encode"}
  BY <1>q DEF Inv, ResultsOK, ResultSet
<1>c. /\ coll'.pc = "drain" /\ coll'.pending = coll.pending \cup {r}
      /\ coll'.next = coll.next /\ coll'.err = err
      /\ coll' \in [pc : {"collect", "drain", "returned"}, pending : SUBSET ResultSet,
                    next : Nat, err : {"nil", "encode", "write"}]
  <2>1. err \in {"nil", "encode", "write"}
    BY <1>e, <1>s, <1>t
  <2>2. coll.pending \cup {r} \in SUBSET ResultSet
    BY <1>q, <1>t
  <2> QED
    BY <1>0, <1>t, <2>1, <2>2
<1>1. Types'
  BY <1>0, <1>c, <1>q, SameWork DEF Inv, Types, WorkTypes, OutputTypes
<1>5. ResultsOK'
  <2>1. \A k \in 1 .. Len(results) - 1 : ResultOK(results[k])'
    BY <1>0, <1>q, SameChunks DEF Inv, ResultsOK
  <2>2. \A s \in coll'.pending : ResultOK(s)'
    BY <1>0, <1>c, <1>s, SameChunks DEF Inv, ResultsOK
  <2> QED
    BY <1>q, <2>1, <2>2 DEF ResultsOK
<1>o. Open' = Open
  BY <1>0, <1>c, SameWork DEF Open
<1>7. InRange'
  BY <1>0, <1>c, <1>o, <1>q, SameWork DEF Inv, InRange
<1>8. Apart'
  <2>1. \A k \in 1 .. Len(results) - 1 : results'[k].index # r.index
    <3>1. \A k \in 1 .. Len(results) - 1 :
            k + 1 \in DOMAIN results /\ 1 \in DOMAIN results /\ k + 1 # 1
      BY <1>q
    <3> QED
      BY <1>q, <3>1 DEF Inv, Apart
  <2>2. \A s \in coll.pending : s.index # r.index
    BY <1>q DEF Inv, Apart
  <2>3. \A v \in Workers : Busy(v) => IndexAt(v) # r.index
    BY <1>q DEF Inv, Apart
  <2>4. \A k, l \in DOMAIN results' : results'[k].index = results'[l].index => k = l
    BY <1>q DEF Inv, Apart
  <2>5. \A v \in Workers, k \in DOMAIN results' : Busy(v) => IndexAt(v) # results'[k].index
    BY <1>q DEF Inv, Apart
  <2>6. \A k \in DOMAIN results', s \in coll.pending : results'[k].index # s.index
    BY <1>q DEF Inv, Apart
  <2>7. UNCHANGED <<size, ending, prod, jobs, bufs, pool, work, closed>>
    BY <1>0
  <2>8. \A v \in Workers : Busy(v)' = Busy(v) /\ IndexAt(v)' = IndexAt(v)
    BY <2>7, SameWork
  <2> QED
    BY <1>c, <1>q, <2>1, <2>2, <2>3, <2>4, <2>5, <2>6, <2>8 DEF Inv, Apart
<1>9. Accounted'
  <2> SUFFICES ASSUME NEW i \in Open
               PROVE  \/ \E v \in Workers : Busy(v) /\ IndexAt(v) = i
                      \/ \E k \in DOMAIN results' : results'[k].index = i
                      \/ \E s \in coll'.pending : s.index = i
    BY <1>0, <1>o, SameWork DEF Accounted
  <2>1. CASE \E k \in DOMAIN results : results[k].index = i
    <3>1. PICK k \in 1 .. Len(results) : results[k].index = i
      BY <1>q, <2>1
    <3>2. CASE k = 1
      BY <1>c, <1>q, <3>1, <3>2
    <3>3. CASE k # 1
      <4>1. k - 1 \in DOMAIN results' /\ results'[k - 1] = results[k]
        BY <1>q, <3>3
      <4> QED
        BY <3>1, <4>1
    <3> QED
      BY <3>2, <3>3
  <2>2. CASE \E s \in coll.pending : s.index = i
    BY <1>c, <2>2
  <2> QED
    BY <2>1, <2>2 DEF Inv, Accounted
<1>10. CallerOK'
  BY <1>0, <1>c, <1>e, <1>s DEF Inv, CallerOK, ResultOK
<1>11. OutputOK'
  BY <1>0, <1>c, <1>e, SameChunks DEF Inv, OutputOK
<1> QED
  BY <1>0, <1>1, <1>5, <1>7, <1>8, <1>9, <1>10, <1>11, SameWork DEF Inv

\* One turn of the inner loop, whatever becomes of the record: the result whose
\* turn it is leaves pending.
LEMMA TurnStep ==
    ASSUME Inv, coll.pc = "drain", NEW cur \in Current,
           NEW err \in {"nil", "encode", "write"}, err # "nil" => MayFail,
           coll' = [coll EXCEPT !.pending = @ \ {cur}, !.next = @ + 1, !.err = err],
           UNCHANGED <<size, ending, prod, jobs, bufs, pool, work, results, closed, result>>,
           file' \in Seq(Nat), chunks' \in Seq(RefSet), OutputOK'
    PROVE  Inv'
<1>t. coll \in [pc : {"collect", "drain", "returned"}, pending : SUBSET ResultSet,
                next : Nat, err : {"nil", "encode", "write"}]
  BY DEF Inv, Types, OutputTypes
<1>c. /\ coll'.pc = "drain" /\ coll'.pending = coll.pending \ {cur}
      /\ coll'.next = coll.next + 1 /\ coll'.err = err
      /\ coll' \in [pc : {"collect", "drain", "returned"}, pending : SUBSET ResultSet,
                    next : Nat, err : {"nil", "encode", "write"}]
  <2> DEFINE rest == coll.pending \ {cur}
             n == coll.next + 1
  <2>1. rest \in SUBSET ResultSet /\ n \in Nat
    BY <1>t
  <2>2. coll' = [coll EXCEPT !.pending = rest, !.next = n, !.err = err]
    OBVIOUS
  <2> HIDE DEF rest, n
  <2>3. /\ coll'.pc = "drain" /\ coll'.pending = rest /\ coll'.next = n /\ coll'.err = err
        /\ coll' \in [pc : {"collect", "drain", "returned"}, pending : SUBSET ResultSet,
                      next : Nat, err : {"nil", "encode", "write"}]
    BY <1>t, <2>1, <2>2
  <2> QED
    BY <2>3 DEF rest, n
<1>q. cur \in coll.pending /\ cur.index = coll.next
  BY DEF Current
<1>1. Types'
  BY <1>c, SameWork DEF Inv, Types, WorkTypes, OutputTypes
<1>2. ResultsOK'
  BY <1>c, SameChunks DEF Inv, ResultsOK
<1>u. Taken \in Int /\ Taken' = Taken /\ coll.next \in Nat
  <2>1. Taken \in Int
    BY DEF Inv, Types, InputTypes, Taken
  <2> QED
    BY <1>t, <2>1, SameWork
<1>o. \A i : i \in Open' <=> i \in Open /\ i # coll.next
  BY <1>c, <1>u DEF Open
<1>b. \A v \in Workers : Busy(v)' = Busy(v) /\ IndexAt(v)' = IndexAt(v)
  BY SameWork
<1>3. InRange'
  <2>1. coll.next + 1 <= Taken
    BY <1>q, <1>u DEF Inv, InRange, Open
  <2>2. \A v \in Workers : Busy(v) => IndexAt(v) # coll.next
    BY <1>q DEF Inv, Apart
  <2>3. \A k \in DOMAIN results : results[k].index # coll.next
    BY <1>q DEF Inv, Apart
  <2>4. \A r \in coll'.pending : r.index # coll.next
    BY <1>c, <1>q DEF Inv, Apart
  <2> QED
    BY <1>b, <1>c, <1>o, <1>u, <2>1, <2>2, <2>3, <2>4 DEF Inv, InRange
<1>4. Apart'
  BY <1>b, <1>c DEF Inv, Apart
<1>5. Accounted'
  <2> SUFFICES ASSUME NEW i \in Open, i # coll.next
               PROVE  \/ \E v \in Workers : Busy(v) /\ IndexAt(v) = i
                      \/ \E k \in DOMAIN results : results[k].index = i
                      \/ \E s \in coll'.pending : s.index = i
    BY <1>b, <1>o DEF Accounted
  <2> QED
    BY <1>c, <1>q DEF Inv, Accounted
<1>6. CallerOK'
  BY <1>c DEF Inv, CallerOK
<1> QED
  BY <1>1, <1>2, <1>3, <1>4, <1>5, <1>6, SameWork DEF Inv

\* The record of the chunk whose turn it is, and the reference to it.
LEMMA AppendedOK ==
    ASSUME Inv, NEW cur \in Current, coll.err = "nil", UNCHANGED <<size, ending>>,
           coll' = [coll EXCEPT !.pending = @ \ {cur}, !.next = @ + 1],
           file' = Append(file, cur.data),
           chunks' = Append(chunks, Sequential!Ref(Len(file) + 1, cur.rawOff, cur.n))
    PROVE  file' \in Seq(Nat) /\ chunks' \in Seq(RefSet) /\ OutputOK'
<1>r. PICK r : r = Sequential!Ref(Len(file) + 1, cur.rawOff, cur.n)
  OBVIOUS
<1>t. /\ file \in Seq(Nat) /\ chunks \in Seq(RefSet)
      /\ cur \in ResultSet /\ ResultOK(cur) /\ cur.index = coll.next
      /\ coll.next \in Nat /\ Len(chunks) = coll.next /\ Len(file) = coll.next
      /\ coll'.err = "nil" /\ coll'.next = coll.next + 1
  BY DEF Inv, Types, OutputTypes, OutputOK, ResultsOK, Current
<1>1. r \in RefSet /\ cur.data \in Nat
  BY <1>r, <1>t DEF RefSet, ResultSet, Sequential!Ref
<1>2. /\ file' \in Seq(Nat) /\ chunks' \in Seq(RefSet)
      /\ Len(file') = coll.next + 1 /\ Len(chunks') = coll.next + 1
      /\ DOMAIN file' = 1 .. coll.next + 1 /\ DOMAIN chunks' = 1 .. coll.next + 1
      /\ DOMAIN file = 1 .. coll.next /\ DOMAIN chunks = 1 .. coll.next
      /\ \A i \in 1 .. coll.next : file'[i] = file[i] /\ chunks'[i] = chunks[i]
      /\ file'[coll.next + 1] = cur.data /\ chunks'[coll.next + 1] = r
  BY <1>r, <1>t, <1>1
<1>3. \A i \in 1 .. coll.next + 1 : file'[i] = i - 1
  <2>1. cur.data = coll.next
    BY <1>t DEF ResultOK
  <2> QED
    BY <1>2, <1>t, <2>1 DEF Inv, OutputOK
<1>4. \A i \in 1 .. coll.next + 1 :
        Valid(i - 1)' /\ chunks'[i] = Sequential!Ref(i, Offset(i - 1), Length(i - 1)')
  <2> SUFFICES ASSUME NEW i \in 1 .. coll.next + 1
               PROVE  Valid(i - 1) /\ chunks'[i] = Sequential!Ref(i, Offset(i - 1), Length(i - 1))
    BY SameChunks
  <2>1. CASE i \in 1 .. coll.next
    BY <1>2, <2>1 DEF Inv, OutputOK
  <2>2. CASE i = coll.next + 1
    <3>1. i - 1 = coll.next
      BY <1>t, <2>2
    <3> QED
      BY <1>2, <1>r, <1>t, <2>2, <3>1 DEF ResultOK
  <2> QED
    BY <1>t, <2>1, <2>2
<1> QED
  BY <1>2, <1>3, <1>4, <1>t DEF OutputOK

LEMMA DrainStep ==
    ASSUME Inv, Drain
    PROVE  Inv'
<1>0. coll.pc = "drain"
      /\ UNCHANGED <<size, ending, prod, jobs, bufs, pool, work, results, closed, result>>
  BY DEF Drain, producerVars, workerVars
<1>t. file \in Seq(Nat) /\ chunks \in Seq(RefSet)
      /\ coll \in [pc : {"collect", "drain", "returned"}, pending : SUBSET ResultSet,
                   next : Nat, err : {"nil", "encode", "write"}]
  BY DEF Inv, Types, OutputTypes
<1>1. ASSUME NEW cur \in Current, NEW err \in {"encode", "write"}, MayFail, Skip(cur, err)
      PROVE  Inv'
  <2>1. coll'.err = err /\ UNCHANGED <<file, chunks>>
    BY <1>1, <1>t DEF Skip
  <2>2. OutputOK'
    BY <1>0, <2>1, SameChunks DEF Inv, OutputOK
  <2> QED
    BY <1>0, <1>1, <1>t, <2>1, <2>2, TurnStep DEF Skip
<1>2. ASSUME NEW cur \in Current, coll.err # "nil", Skip(cur, coll.err)
      PROVE  Inv'
  <2>1. MayFail /\ coll.err \in {"encode", "write"}
    BY <1>2, <1>t DEF Inv, CallerOK
  <2> QED
    BY <1>1, <1>2, <2>1
<1>3. ASSUME NEW cur \in Current, coll.err = "nil",
             coll' = [coll EXCEPT !.pending = @ \ {cur}, !.next = @ + 1],
             file' = Append(file, cur.data),
             chunks' = Append(chunks, Sequential!Ref(Len(file) + 1, cur.rawOff, cur.n))
      PROVE  Inv'
  <2>1. coll' = [coll EXCEPT !.pending = @ \ {cur}, !.next = @ + 1, !.err = "nil"]
    BY <1>3, <1>t
  <2>2. file' \in Seq(Nat) /\ chunks' \in Seq(RefSet) /\ OutputOK'
    BY <1>0, <1>3, AppendedOK
  <2> QED
    BY <1>0, <1>3, <2>1, <2>2, TurnStep
<1> QED
  BY <1>1, <1>2, <1>3 DEF Drain

LEMMA DrainedStep ==
    ASSUME Inv, Drained
    PROVE  Inv'
<1>0. /\ coll.pc = "drain" /\ Current = {} /\ coll' = [coll EXCEPT !.pc = "collect"]
      /\ UNCHANGED <<size, ending, prod, jobs, bufs, pool, work, results, closed, file, chunks,
                     result>>
  BY DEF Drained, producerVars, workerVars
<1>t. coll \in [pc : {"collect", "drain", "returned"}, pending : SUBSET ResultSet,
                next : Nat, err : {"nil", "encode", "write"}]
  BY DEF Inv, Types, OutputTypes
<1>c. /\ coll'.pc = "collect" /\ coll'.pending = coll.pending
      /\ coll'.next = coll.next /\ coll'.err = coll.err
      /\ coll' \in [pc : {"collect", "drain", "returned"}, pending : SUBSET ResultSet,
                    next : Nat, err : {"nil", "encode", "write"}]
  BY <1>0, <1>t
<1>1. Types'
  BY <1>0, <1>c, SameWork DEF Inv, Types, WorkTypes, OutputTypes
<1>2. ResultsOK'
  BY <1>0, <1>c, SameChunks DEF Inv, ResultsOK
<1>3. InRange' /\ Apart' /\ Accounted'
  <2>1. Open' = Open /\ Taken' = Taken
    BY <1>0, <1>c, SameWork DEF Open
  <2> QED
    BY <1>0, <1>c, <2>1, SameWork DEF Inv, InRange, Apart, Accounted
<1>4. CallerOK'
  BY <1>0, <1>c DEF Inv, CallerOK, Current
<1>5. OutputOK'
  BY <1>0, <1>c, SameChunks DEF Inv, OutputOK
<1> QED
  BY <1>0, <1>1, <1>2, <1>3, <1>4, <1>5, SameWork DEF Inv

LEMMA ReturnStep ==
    ASSUME Inv, Return
    PROVE  Inv'
<1>0. /\ coll.pc = "collect" /\ results = <<>> /\ closed
      /\ coll' = [coll EXCEPT !.pc = "returned"]
      /\ result' = IF coll.err # "nil" THEN coll.err ELSE prod.err
      /\ UNCHANGED <<size, ending, prod, jobs, bufs, pool, work, results, closed, file, chunks>>
  BY DEF Return, producerVars, workerVars
<1>t. /\ coll \in [pc : {"collect", "drain", "returned"}, pending : SUBSET ResultSet,
                   next : Nat, err : {"nil", "encode", "write"}]
      /\ prod.err \in {"nil", "read", "limit"}
  BY DEF Inv, Types, InputTypes, OutputTypes
<1>c. /\ coll'.pc = "returned" /\ coll'.pending = coll.pending
      /\ coll'.next = coll.next /\ coll'.err = coll.err
      /\ coll' \in [pc : {"collect", "drain", "returned"}, pending : SUBSET ResultSet,
                    next : Nat, err : {"nil", "encode", "write"}]
  BY <1>0, <1>t
<1>r. result' \in {"nil", "read", "limit", "encode", "write"}
  BY <1>0, <1>t
<1>1. Types'
  <2>1. OutputTypes'
    BY <1>0, <1>c, <1>r DEF Inv, Types, OutputTypes, Sequential!Errors, Sequential!Faults
  <2> QED
    BY <1>0, <2>1, SameWork DEF Inv, Types, WorkTypes
<1>2. ResultsOK'
  BY <1>0, <1>c, SameChunks DEF Inv, ResultsOK
<1>3. InRange' /\ Apart' /\ Accounted'
  <2>1. Open' = Open /\ Taken' = Taken
    BY <1>0, <1>c, SameWork DEF Open
  <2> QED
    BY <1>0, <1>c, <2>1, SameWork DEF Inv, InRange, Apart, Accounted
<1>4. CallerOK'
  <2>1. result' # "running"
    BY <1>r
  <2> QED
    BY <1>0, <1>c, <2>1 DEF Inv, CallerOK, Current
<1>5. OutputOK'
  BY <1>0, <1>c, SameChunks DEF Inv, OutputOK
<1> QED
  BY <1>0, <1>1, <1>2, <1>3, <1>4, <1>5, SameWork DEF Inv

LEMMA StutterStep ==
    ASSUME Inv, UNCHANGED vars
    PROVE  Inv'
<1>0. UNCHANGED <<size, ending, prod, jobs, bufs, pool, work, results, closed, coll, file, chunks,
                  result>>
  BY DEF vars
<1>1. Types'
  BY <1>0 DEF Inv, Types, InputTypes, WorkTypes, OutputTypes
<1>2. ResultsOK'
  BY <1>0, SameChunks DEF Inv, ResultsOK
<1>3. InRange' /\ Apart' /\ Accounted'
  <2>1. Open' = Open /\ Taken' = Taken
    BY <1>0 DEF Open, Taken
  <2> QED
    BY <1>0, <2>1, SameWork DEF Inv, InRange, Apart, Accounted
<1>4. CallerOK'
  BY <1>0 DEF Inv, CallerOK, Current
<1>5. OutputOK'
  BY <1>0, SameOutput DEF Inv
<1> QED
  BY <1>0, <1>1, <1>2, <1>3, <1>4, <1>5, SameWork DEF Inv

----------------------------------------------------------------------------
(* The theorems.                                                           *)

LEMMA NextInv == Inv /\ [Next]_vars => Inv'
<1> SUFFICES ASSUME Inv, [Next]_vars PROVE Inv'
  OBVIOUS
<1>1. CASE Producer
  BY <1>1, ReadStep, SendStep, ProducerExitStep DEF Producer
<1>2. CASE \E w \in Workers : Worker(w)
  BY <1>2, ReceiveStep, EncodeStep, SendResultStep, WorkerExitStep DEF Worker
<1>3. CASE CloseResults
  BY <1>3, CloseResultsStep
<1>4. CASE Caller
  BY <1>4, CollectStep, DrainStep, DrainedStep, ReturnStep DEF Caller
<1>5. CASE UNCHANGED vars
  BY <1>5, StutterStep
<1> QED
  BY <1>1, <1>2, <1>3, <1>4, <1>5 DEF Next

\* The inductive invariant holds always: every chunk that was read is in one
\* place, every buffer out of the pool holds the chunk of the one who has it.
THEOREM Invariance == Spec => []Inv
<1>1. Inv /\ [Next]_vars => Inv'
  BY NextInv
<1> QED
  BY <1>1, InitInv, PTL DEF Spec

\* The caller returns when everybody is done and everything has been drained.
LEMMA InvNothingLeft == Inv => NothingLeft
<1> SUFFICES ASSUME Inv, result # "running"
             PROVE  /\ prod.pc = "done" /\ jobs = <<>>
                    /\ \A w \in Workers : work[w].pc = "done"
                    /\ pool = Bufs
                    /\ coll.pending = {} /\ coll.next = prod.idx
  BY DEF NothingLeft
<1>1. coll.pc = "returned" /\ results = <<>> /\ Current = {}
  BY DEF Inv, CallerOK
<1>2. prod.pc = "done" /\ jobs = <<>> /\ \A w \in Workers : work[w].pc = "done"
  BY <1>1, NotYet
<1>3. pool = Bufs
  <2>1. Bufs \ pool = {}
    BY <1>2 DEF Inv, BuffersOK, Encoding
  <2>2. pool \subseteq Bufs
    BY DEF Inv, Types, WorkTypes
  <2> QED
    BY <2>1, <2>2
<1>4. Taken = prod.idx /\ prod.idx \in Nat /\ coll.next \in Nat /\ coll.next <= prod.idx
  BY <1>2 DEF Inv, Taken, InRange, Types, InputTypes, OutputTypes
<1>5. coll.next = prod.idx
  <2> SUFFICES ASSUME coll.next # prod.idx PROVE FALSE
    OBVIOUS
  <2>1. coll.next \in Open
    BY <1>4 DEF Open
  <2>2. \A w \in Workers : ~Busy(w)
    BY <1>2 DEF Busy, Encoding, Sending
  <2>3. \E r \in coll.pending : r.index = coll.next
    BY <1>1, <2>1, <2>2 DEF Inv, Accounted
  <2> QED
    BY <1>1, <2>3 DEF Current
<1>6. coll.pending = {}
  BY <1>4, <1>5 DEF Inv, InRange, Open
<1> QED
  BY <1>2, <1>3, <1>5, <1>6

\* When writeChunksParallel returns, all its goroutines are done, all buffers
\* are back and no record was dropped on the way.
THEOREM NothingLeftHolds == Spec => []NothingLeft
BY InvNothingLeft, Invariance, PTL

\* Offsets are multiples of the chunk size.
LEMMA ChunkOf == \A i \in Nat : Offset(i) \div ChunkSize = i
<1>1. ChunkSize \in Nat \ {0}
  BY PipelineAssumption
<1> QED
  BY <1>1, Z3 DEF Offset

\* What the reader of an entry relies on: the chunk references that were
\* returned without an error tile the payload.
LEMMA InvChunksTile == Inv => ChunksTile
<1> SUFFICES ASSUME Inv, result = "nil" PROVE ChunksTile
  BY DEF ChunksTile, Sequential!ChunksTile
<1> DEFINE end(i) == IF i = 0 THEN 0 ELSE chunks[i].rawOff + chunks[i].rawSize
           n == Len(chunks)
<1>t. /\ size \in Nat /\ n \in Nat /\ DOMAIN chunks = 1 .. n /\ DOMAIN file = 1 .. n
      /\ coll.err \in {"nil", "encode", "write"}
  BY DEF Inv, Types, InputTypes, OutputTypes, OutputOK
<1>1. coll.pc = "returned" /\ coll.err = "nil" /\ prod.err = "nil"
  BY <1>t DEF Inv, CallerOK
<1>2. prod.pc = "done" /\ n = prod.idx
  BY <1>1, InvNothingLeft DEF Inv, OutputOK, NothingLeft
<1>3. Sequential!AtEnd(Offset(n)) /\ Offset(n) >= size /\ n \in Nat
  BY <1>1, <1>2, <1>t DEF Inv, ProducerOK, Sequential!AtEnd
<1>o. Offset(n) \in Nat /\ ChunkSize \in Nat \ {0}
  BY <1>t, OffsetFacts, PipelineAssumption
<1>f. ending # "error"
  <2>1. Offset(n) + ChunkSize > size
    BY <1>3, <1>t, <1>o
  <2>2. Sequential!ReadErr(Offset(n)) = ending
    BY <1>3, <1>o, <1>t, <2>1 DEF Sequential!ReadErr
  <2> QED
    BY <1>3, <2>2 DEF Sequential!AtEnd
<1>4. \A i \in 1 .. n : /\ Valid(i - 1) /\ file[i] = i - 1
                       /\ chunks[i] = Sequential!Ref(i, Offset(i - 1), Length(i - 1))
  BY <1>t DEF Inv, OutputOK
<1>5. \A i \in 1 .. n : end(i) = Offset(i - 1) + Length(i - 1)
  <2> SUFFICES ASSUME NEW i \in 1 .. n
               PROVE  chunks[i].rawOff + chunks[i].rawSize = Offset(i - 1) + Length(i - 1)
    BY <1>t
  <2>1. chunks[i].rawOff = Offset(i - 1) /\ chunks[i].rawSize = Length(i - 1)
    BY <1>4, <1>t DEF Sequential!Ref
  <2> QED
    BY <2>1
<1>6. end(n) = size /\ ~Sequential!OverLimit(size)
  <2>1. CASE n = 0
    BY <1>3, <1>t, <2>1, OffsetFacts, PipelineAssumption DEF Sequential!OverLimit
  <2>2. CASE n > 0
    <3>1. n \in 1 .. n /\ n - 1 \in Nat /\ (n - 1) + 1 = n
      BY <1>t, <2>2
    <3>2. Valid(n - 1) /\ end(n) = Offset(n - 1) + Length(n - 1)
      BY <1>4, <1>5, <3>1
    <3>3. Offset(n - 1) \in Nat /\ Offset(n) = Offset(n - 1) + ChunkSize
      BY <3>1, OffsetFacts
    <3>4. Offset(n - 1) + Length(n - 1) = size
      BY <1>3, <1>t, <3>1, <3>2, <3>3, ChunkFacts, PipelineAssumption DEF Valid, Sequential!HasChunk
    <3> QED
      BY <3>2, <3>4 DEF Valid, Allowed
  <2> QED
    BY <1>t, <2>1, <2>2
<1>7. ASSUME NEW i \in 1 .. n
      PROVE  /\ chunks[i].rawOff = end(i - 1)
             /\ chunks[i].rawSize \in 1 .. ChunkSize
             /\ file[chunks[i].chunkOffset] = chunks[i].rawOff \div ChunkSize
  <2>1. /\ i - 1 \in Nat /\ Valid(i - 1) /\ file[i] = i - 1
        /\ chunks[i].rawOff = Offset(i - 1) /\ chunks[i].rawSize = Length(i - 1)
        /\ chunks[i].chunkOffset = i
    BY <1>4, <1>t DEF Sequential!Ref
  <2>2. chunks[i].rawOff = end(i - 1)
    <3>1. CASE i = 1
      BY <2>1, <3>1, OffsetFacts
    <3>2. CASE i # 1
      <4>1. i - 1 \in 1 .. n /\ i - 2 \in Nat /\ (i - 1) - 1 = i - 2 /\ (i - 2) + 1 = i - 1
        BY <1>t, <3>2
      <4>2. Valid(i - 2) /\ end(i - 1) = Offset(i - 2) + Length(i - 2)
        BY <1>4, <1>5, <4>1
      <4>3. Offset(i - 1) < size
        BY <2>1 DEF Valid, Sequential!HasChunk
      <4>4. Length(i - 2) = ChunkSize /\ Offset(i - 2) + Length(i - 2) = Offset(i - 1)
        BY <1>t, <4>1, <4>2, <4>3, ChunkFacts DEF Valid, Sequential!HasChunk
      <4> QED
        BY <2>1, <4>2, <4>4
    <3> QED
      BY <3>1, <3>2
  <2>3. chunks[i].rawSize \in 1 .. ChunkSize
    BY <1>t, <2>1, ChunkFacts DEF Valid, Sequential!HasChunk
  <2> QED
    BY <2>1, <2>2, <2>3, ChunkOf
<1> QED
  BY <1>t, <1>f, <1>6, <1>7 DEF ChunksTile, Sequential!ChunksTile

\* What writeChunksParallel returns without an error tiles the payload, whatever
\* its length, the size of chunks, the workers and the order they run in.
THEOREM ChunksTileHolds == Spec => []ChunksTile
BY InvChunksTile, Invariance, PTL

----------------------------------------------------------------------------
(* The refinement of SequentialChunks.                                     *)

LEMMA InitRefines == Init => Sequential!Init
BY DEF Init, Sequential!Init

\* Nobody but the caller touches what the sequential writer has.
LEMMA OthersInvisible ==
    Producer \/ CloseResults \/ (\E w \in Workers : Worker(w)) \/ UNCHANGED vars
        => UNCHANGED Sequential!vars
<1>1. Producer => UNCHANGED Sequential!vars
  BY DEF Producer, Read, Send, ProducerExit, outputVars, Sequential!vars
<1>2. CloseResults => UNCHANGED Sequential!vars
  BY DEF CloseResults, producerVars, outputVars, Sequential!vars
<1>3. \A w \in Workers : Worker(w) => UNCHANGED Sequential!vars
  BY DEF Worker, Receive, Encode, SendResult, WorkerExit, producerVars, outputVars,
     Sequential!vars
<1>4. UNCHANGED vars => UNCHANGED Sequential!vars
  BY DEF vars, Sequential!vars
<1> QED
  BY <1>1, <1>2, <1>3, <1>4

\* Appending the record whose turn it is writes the next chunk.
LEMMA DrainRefines == Inv /\ Drain => [Sequential!Next]_(Sequential!vars)
<1> SUFFICES ASSUME Inv, NEW cur \in Current, coll.pc = "drain", coll.err = "nil",
                    UNCHANGED <<size, ending, result>>,
                    file' = Append(file, cur.data),
                    chunks' = Append(chunks,
                                     Sequential!Ref(Len(file) + 1, cur.rawOff, cur.n))
             PROVE  Sequential!WriteChunk
  BY DEF Drain, Skip, producerVars, Sequential!vars, Sequential!Next
<1>1. ResultOK(cur) /\ cur.index = coll.next /\ Len(chunks) = coll.next
  BY DEF Inv, ResultsOK, OutputOK, Current
<1>2. result = "running"
  BY DEF Inv, CallerOK
<1>3. Sequential!rawOff = Offset(cur.index)
  BY <1>1 DEF Offset, Sequential!rawOff
<1>4. /\ cur.data = Len(chunks) /\ cur.rawOff = Sequential!rawOff
      /\ cur.n = Sequential!Delivered(size, Sequential!rawOff)
      /\ Sequential!HasChunk(Sequential!rawOff)
      /\ ~Sequential!OverLimit(Sequential!rawOff + cur.n)
  BY <1>1, <1>3 DEF ResultOK, Valid, Allowed, Length
<1> QED
  BY <1>2, <1>4 DEF Sequential!WriteChunk

\* What the caller returns the sequential writer might return too.
LEMMA ReturnRefines == Inv /\ Inv' /\ Return => Sequential!Next
<1> SUFFICES ASSUME Inv, Inv', Return PROVE Sequential!Next
  OBVIOUS
<1>0. /\ coll.pc = "collect"
      /\ result' = IF coll.err # "nil" THEN coll.err ELSE prod.err
      /\ UNCHANGED <<size, ending, prod, file, chunks>>
      /\ coll'.err = coll.err /\ coll'.pc = "returned" /\ coll'.next = coll.next
  BY DEF Return, producerVars, Inv, Types, OutputTypes
<1>t. /\ coll.err \in {"nil", "encode", "write"} /\ prod.err \in {"nil", "read", "limit"}
      /\ size \in Nat /\ ending \in {"EOF", "UnexpectedEOF", "error"}
  BY DEF Inv, Types, InputTypes, OutputTypes
<1>1. result = "running" /\ result' # "running"
  BY <1>0 DEF Inv, CallerOK
\* Everybody is done.
<1>2. prod.pc = "done" /\ coll.next = prod.idx
  <2>1. NothingLeft'
    <3>1. Inv' => NothingLeft'
      BY InvNothingLeft, PTL
    <3> QED
      BY <3>1
  <2> QED
    BY <1>0, <1>1, <2>1 DEF NothingLeft
<1>3. CASE coll.err # "nil"
  <2>1. MayFail /\ result' \in {"encode", "write"}
    BY <1>0, <1>3, <1>t DEF Inv, CallerOK
  <2> QED
    BY <1>0, <1>1, <2>1 DEF Sequential!Next, Sequential!Fail
<1>4. CASE coll.err = "nil"
  <2>1. Sequential!rawOff = Offset(prod.idx)
    BY <1>2, <1>4 DEF Inv, OutputOK, Offset, Sequential!rawOff
  <2>2. CASE prod.err = "nil"
    <3>1. Sequential!AtEnd(Sequential!rawOff)
      BY <1>2, <2>1, <2>2 DEF Inv, ProducerOK
    <3> QED
      BY <1>0, <1>1, <1>4, <2>2, <3>1 DEF Sequential!Next, Sequential!Finish
  <2>3. CASE prod.err = "limit"
    <3>1. Sequential!HasChunk(Sequential!rawOff)
          /\ Sequential!OverLimit(Sequential!rawOff
                                    + Sequential!Delivered(size, Sequential!rawOff))
      BY <1>2, <2>1, <2>3 DEF Inv, ProducerOK, Allowed, Length
    <3> QED
      BY <1>0, <1>1, <1>4, <2>3, <3>1 DEF Sequential!Next, Sequential!TooLong
  <2>4. CASE prod.err = "read"
    <3>1. Sequential!ReadErr(Sequential!rawOff) = "error" /\ result' = "read"
      BY <1>0, <1>2, <1>4, <2>1, <2>4 DEF Inv, ProducerOK
    <3> QED
      BY <1>0, <1>1, <3>1 DEF Sequential!Next, Sequential!Fail
  <2> QED
    BY <1>t, <2>2, <2>3, <2>4
<1> QED
  BY <1>3, <1>4

\* However its goroutines interleave, writeChunksParallel does what
\* writeChunksSequential may do, and in the same order: it appends the same
\* records, collects the same references and returns an error only where the
\* other may.
THEOREM Refinement == Spec => Sequential!Safe
<1>1. Inv /\ Inv' /\ [Next]_vars => [Sequential!Next]_(Sequential!vars)
  <2> SUFFICES ASSUME Inv, Inv', [Next]_vars PROVE [Sequential!Next]_(Sequential!vars)
    OBVIOUS
  <2>1. CASE Caller
    <3>1. Collect \/ Drained => UNCHANGED Sequential!vars
      BY DEF Collect, Drained, producerVars, Sequential!vars
    <3> QED
      BY <2>1, <3>1, DrainRefines, ReturnRefines DEF Caller
  <2> QED
    BY <2>1, OthersInvisible DEF Next
<1> QED
  BY <1>1, InitRefines, Invariance, PTL DEF Spec, Sequential!Safe
============================================================================
