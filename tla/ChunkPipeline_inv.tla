------------------------- MODULE ChunkPipeline_inv -------------------------
(***************************************************************************)
(* The inductive invariant behind the safety properties of ChunkPipeline,  *)
(* and behind the refinement of SequentialChunks.  Its heart is that every *)
(* chunk that was read is in exactly one place: the channel jobs, a        *)
(* worker, the channel results, the map pending, or behind the caller.     *)
(***************************************************************************)
EXTENDS ChunkPipeline

----------------------------------------------------------------------------
(* The chunks of the payload.                                              *)

Offset(i) == ChunkSize * i

Length(i) == Sequential!Delivered(size, Offset(i))

Allowed(i) == ~Sequential!OverLimit(Offset(i) + Length(i))

\* The reader delivers a chunk i, and it ends within the limit.
Valid(i) == i \in Nat /\ Sequential!HasChunk(Offset(i)) /\ Allowed(i)

----------------------------------------------------------------------------
(* Types.                                                                  *)

JobSet == [index : Nat, rawOff : Nat, buf : Bufs, n : Nat]
ResultSet == [index : Nat, rawOff : Nat, n : Nat, data : Nat, err : {"nil", "encode"}]
RefSet == [chunkOffset : Nat, rawOff : Nat, rawSize : Nat]
WorkerSet ==
    [pc : {"idle", "done"}] \cup [pc : {"encode"}, job : JobSet]
        \cup [pc : {"send"}, res : ResultSet]

InputTypes ==
    /\ size \in Nat
    /\ ending \in {"EOF", "UnexpectedEOF", "error"}
    /\ prod \in [pc : {"read", "send", "exit", "done"}, idx : Nat, rawOff : Nat,
                 buf : Nat, n : Nat, err : {"nil", "read", "limit"}]
    /\ jobs \in Seq(JobSet) /\ Len(jobs) <= Capacity

WorkTypes ==
    /\ bufs \in [Bufs -> Nat \cup {-1}]
    /\ pool \subseteq Bufs
    /\ work \in [Workers -> WorkerSet]
    /\ results \in Seq(ResultSet)
    /\ closed \in BOOLEAN

OutputTypes ==
    /\ coll \in [pc : {"collect", "drain", "returned"}, pending : SUBSET ResultSet,
                 next : Nat, err : {"nil", "encode", "write"}]
    /\ file \in Seq(Nat)
    /\ chunks \in Seq(RefSet)
    /\ result \in {"running", "nil"} \cup Sequential!Errors

Types == InputTypes /\ WorkTypes /\ OutputTypes

----------------------------------------------------------------------------
(* What is known of the chunk that a job, a buffer or a result stands for. *)

\* A buffer that is out of the pool, with chunk i in it.
Holds(b, i) == b \in Bufs \ pool /\ bufs[b] = i

JobOK(j) ==
    /\ Valid(j.index) /\ j.rawOff = Offset(j.index) /\ j.n = Length(j.index)
    /\ Holds(j.buf, j.index)

ResultOK(r) ==
    /\ Valid(r.index) /\ r.rawOff = Offset(r.index) /\ r.n = Length(r.index)
    /\ r.data = r.index
    /\ r.err # "nil" => MayFail

Encoding(w) == work[w].pc = "encode"
Sending(w) == work[w].pc = "send"

ProducerOK ==
    /\ prod.pc \in {"read", "send"} => prod.rawOff = Offset(prod.idx) /\ prod.err = "nil"
    /\ prod.pc = "send" =>
        Valid(prod.idx) /\ prod.n = Length(prod.idx) /\ Holds(prod.buf, prod.idx)
    /\ prod.pc \in {"exit", "done"} =>
        /\ prod.err = "nil" => Sequential!AtEnd(Offset(prod.idx))
        /\ prod.err = "read" => Sequential!ReadErr(Offset(prod.idx)) = "error"
        /\ prod.err = "limit" =>
            Sequential!HasChunk(Offset(prod.idx)) /\ ~Allowed(prod.idx)

\* The channel keeps the order in which the producer read.
Taken == prod.idx - Len(jobs)

JobsOK ==
    /\ Len(jobs) <= prod.idx
    /\ \A k \in DOMAIN jobs : JobOK(jobs[k]) /\ jobs[k].index = Taken + k - 1

WorkersOK ==
    /\ \A w \in Workers : Encoding(w) => JobOK(work[w].job)
    /\ \A w \in Workers : Sending(w) => ResultOK(work[w].res)
    /\ \A w \in Workers : work[w].pc = "done" => prod.pc = "done" /\ jobs = <<>>
    /\ closed => \A w \in Workers : work[w].pc = "done"

ResultsOK ==
    /\ \A k \in DOMAIN results : ResultOK(results[k])
    /\ \A r \in coll.pending : ResultOK(r)

\* Every buffer is in the pool or with the one who uses it.
BuffersOK ==
    \A b \in Bufs \ pool :
        \/ prod.pc = "send" /\ prod.buf = b
        \/ \E k \in DOMAIN jobs : jobs[k].buf = b
        \/ \E w \in Workers : Encoding(w) /\ work[w].job.buf = b

----------------------------------------------------------------------------
(* Every chunk taken from jobs and not yet behind the caller is in exactly *)
(* one place.                                                              *)

Busy(w) == Encoding(w) \/ Sending(w)
IndexAt(w) == IF Encoding(w) THEN work[w].job.index ELSE work[w].res.index

Open == coll.next .. Taken - 1

InRange ==
    /\ coll.next <= Taken
    /\ \A w \in Workers : Busy(w) => IndexAt(w) \in Open
    /\ \A k \in DOMAIN results : results[k].index \in Open
    /\ \A r \in coll.pending : r.index \in Open

Apart ==
    /\ \A v, w \in Workers : Busy(v) /\ Busy(w) /\ IndexAt(v) = IndexAt(w) => v = w
    /\ \A k, l \in DOMAIN results : results[k].index = results[l].index => k = l
    /\ \A r, s \in coll.pending : r.index = s.index => r = s
    /\ \A w \in Workers, k \in DOMAIN results : Busy(w) => IndexAt(w) # results[k].index
    /\ \A w \in Workers, r \in coll.pending : Busy(w) => IndexAt(w) # r.index
    /\ \A k \in DOMAIN results, r \in coll.pending : results[k].index # r.index

Accounted ==
    \A i \in Open :
        \/ \E w \in Workers : Busy(w) /\ IndexAt(w) = i
        \/ \E k \in DOMAIN results : results[k].index = i
        \/ \E r \in coll.pending : r.index = i

----------------------------------------------------------------------------
(* The caller, and what it has appended.                                   *)

CallerOK ==
    /\ coll.pc # "drain" => Current = {}
    /\ coll.err # "nil" => MayFail
    /\ coll.pc = "returned" <=> result # "running"
    /\ coll.pc = "returned" =>
        /\ closed /\ results = <<>>
        /\ result = IF coll.err # "nil" THEN coll.err ELSE prod.err

OutputOK ==
    /\ Len(file) = Len(chunks)
    /\ \A i \in DOMAIN file : file[i] = i - 1
    /\ \A i \in DOMAIN chunks :
        Valid(i - 1) /\ chunks[i] = Sequential!Ref(i, Offset(i - 1), Length(i - 1))
    /\ coll.err = "nil" => Len(chunks) = coll.next

\* The inductive invariant.
Inv ==
    /\ Types
    /\ ProducerOK /\ JobsOK /\ WorkersOK /\ ResultsOK /\ BuffersOK
    /\ InRange /\ Apart /\ Accounted
    /\ CallerOK /\ OutputOK
============================================================================
