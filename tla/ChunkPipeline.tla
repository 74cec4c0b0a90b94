--------------------------- MODULE ChunkPipeline ---------------------------
(***************************************************************************)
(* writeChunksParallel: a producer reads the payload into pooled buffers,  *)
(* workers encode them, the caller puts the records back in order and      *)
(* appends them, over two bounded channels.  One action per channel or     *)
(* pool operation of each goroutine.                                       *)
(***************************************************************************)
EXTENDS Integers, Sequences, FiniteSets, Functions

CONSTANTS
    Workers,     \* the worker goroutines, at least two
    ChunkSize, MaxEntry, Readers, MayFail   \* as in SequentialChunks

ASSUME PipelineAssumption ==
    /\ IsFiniteSet(Workers) /\ Cardinality(Workers) >= 2
    /\ ChunkSize \in Nat \ {0}
    /\ MaxEntry \in Nat
    /\ Readers \subseteq [size : Nat, ending : {"EOF", "UnexpectedEOF", "error"}]
    /\ MayFail \in BOOLEAN

VARIABLES
    size, ending,   \* the reader, as in SequentialChunks
    prod,      \* the producer goroutine
    jobs,      \* chan chunkJob
    bufs,      \* content of each buffer
    pool,      \* bufPool
    work,      \* the worker goroutines
    results,   \* chan chunkResult
    closed,    \* results has been closed
    coll,      \* the caller's loop over results
    file, chunks, result   \* as in SequentialChunks

vars == <<size, ending, prod, jobs, bufs, pool, work, results, closed, coll, file, chunks, result>>

producerVars == <<size, ending, prod>>
workerVars == <<bufs, pool, work>>
outputVars == <<coll, file, chunks, result>>

Sequential == INSTANCE SequentialChunks

\* Both channels are made with this capacity.
Capacity == 2 * Cardinality(Workers)

\* sync.Pool makes a new buffer whenever it has none: as many as can be in use
\* at once, by the producer, in the channel and by the workers.
Bufs == 1 .. Capacity + Cardinality(Workers) + 1

\* Any buffer will do, as they differ in nothing that is read.
Get == CHOOSE b \in pool : TRUE

Init ==
    /\ \E r \in Readers : size = r.size /\ ending = r.ending
    /\ prod = [pc |-> "read", idx |-> 0, rawOff |-> 0, buf |-> 0, n |-> 0, err |-> "nil"]
    /\ jobs = <<>>
    /\ bufs = [b \in Bufs |-> -1]
    /\ pool = Bufs
    /\ work = [w \in Workers |-> [pc |-> "idle"]]
    /\ results = <<>>
    /\ closed = FALSE
    /\ coll = [pc |-> "collect", pending |-> {}, next |-> 0, err |-> "nil"]
    /\ file = <<>>
    /\ chunks = <<>>
    /\ result = "running"

----------------------------------------------------------------------------
(* The producer.                                                           *)

Stop(err) ==
    /\ prod' = [prod EXCEPT !.pc = "exit", !.err = err]
    /\ UNCHANGED <<bufs, pool>>

Read ==
    /\ prod.pc = "read"
    /\ LET off == prod.rawOff
           n == Sequential!Delivered(size, off)
       IN  \/ Sequential!AtEnd(off) /\ Stop("nil")
           \/ Sequential!ReadErr(off) = "error" /\ Stop("read")
           \/ /\ Sequential!HasChunk(off)
              /\ Sequential!OverLimit(off + n)
              /\ Stop("limit")
           \/ /\ Sequential!HasChunk(off)
              /\ ~Sequential!OverLimit(off + n)
              /\ prod' = [prod EXCEPT !.pc = "send", !.buf = Get, !.n = n]
              /\ bufs' = [bufs EXCEPT ![Get] = prod.idx]
              /\ pool' = pool \ {Get}
    /\ UNCHANGED <<size, ending, jobs, work, results, closed, outputVars>>

Send ==
    /\ prod.pc = "send"
    /\ Len(jobs) < Capacity
    /\ jobs' = Append(jobs, [index |-> prod.idx, rawOff |-> prod.rawOff,
                             buf |-> prod.buf, n |-> prod.n])
    /\ prod' = [prod EXCEPT !.pc = IF prod.n < ChunkSize THEN "exit" ELSE "read",
                            !.idx = @ + 1, !.rawOff = @ + prod.n]
    /\ UNCHANGED <<size, ending, workerVars, results, closed, outputVars>>

\* The outcome is left for the caller and jobs is closed.
ProducerExit ==
    /\ prod.pc = "exit"
    /\ prod' = [prod EXCEPT !.pc = "done"]
    /\ UNCHANGED <<size, ending, jobs, workerVars, results, closed, outputVars>>

Producer == Read \/ Send \/ ProducerExit

----------------------------------------------------------------------------
(* The workers, and the goroutine that waits for them.                     *)

\* Mutant: the buffer goes back to the pool before it is encoded.
Receive_PutsEarly(w) ==
    /\ work[w].pc = "idle"
    /\ jobs # <<>>
    /\ work' = [work EXCEPT ![w] = [pc |-> "encode", job |-> Head(jobs)]]
    /\ jobs' = Tail(jobs)
    /\ pool' = pool \cup {Head(jobs).buf}
    /\ UNCHANGED <<producerVars, bufs, results, closed, outputVars>>

Receive(w) ==
    /\ work[w].pc = "idle"
    /\ jobs # <<>>
    /\ work' = [work EXCEPT ![w] = [pc |-> "encode", job |-> Head(jobs)]]
    /\ jobs' = Tail(jobs)
    /\ UNCHANGED <<producerVars, bufs, pool, results, closed, outputVars>>

\* EncodeChunkRecord copies the payload; then the buffer is free.  What it
\* still holds is never read again, and forgotten here.
Encode(w) ==
    /\ work[w].pc = "encode"
    /\ LET j == work[w].job
       IN  /\ \E err \in {"nil"} \cup (IF MayFail THEN {"encode"} ELSE {}) :
                work' = [work EXCEPT ![w] =
                            [pc |-> "send",
                             res |-> [index |-> j.index, rawOff |-> j.rawOff, n |-> j.n,
                                      data |-> bufs[j.buf], err |-> err]]]
           /\ pool' = pool \cup {j.buf}
           /\ bufs' = [bufs EXCEPT ![j.buf] = -1]
    /\ UNCHANGED <<producerVars, jobs, results, closed, outputVars>>

SendResult(w) ==
    /\ work[w].pc = "send"
    /\ Len(results) < Capacity
    /\ results' = Append(results, work[w].res)
    /\ work' = [work EXCEPT ![w] = [pc |-> "idle"]]
    /\ UNCHANGED <<producerVars, jobs, bufs, pool, closed, outputVars>>

WorkerExit(w) ==
    /\ work[w].pc = "idle"
    /\ jobs = <<>> /\ prod.pc = "done"
    /\ work' = [work EXCEPT ![w] = [pc |-> "done"]]
    /\ UNCHANGED <<producerVars, jobs, bufs, pool, results, closed, outputVars>>

Worker(w) == Receive(w) \/ Encode(w) \/ SendResult(w) \/ WorkerExit(w)

\* Mutant: results is closed when the first worker is done.
CloseResults_First ==
    /\ \E w \in Workers : work[w].pc = "done"
    /\ ~closed
    /\ closed' = TRUE
    /\ UNCHANGED <<producerVars, jobs, workerVars, results, outputVars>>

CloseResults ==
    /\ \A w \in Workers : work[w].pc = "done"
    /\ ~closed
    /\ closed' = TRUE
    /\ UNCHANGED <<producerVars, jobs, workerVars, results, outputVars>>

----------------------------------------------------------------------------
(* The caller.                                                             *)

Collect ==
    /\ coll.pc = "collect"
    /\ results # <<>>
    /\ LET res == Head(results)
       IN  coll' = [coll EXCEPT !.pc = "drain", !.pending = @ \cup {res},
                                !.err = IF @ = "nil" THEN res.err ELSE @]
    /\ results' = Tail(results)
    /\ UNCHANGED <<producerVars, jobs, workerVars, closed, file, chunks, result>>

\* Mutant: results are appended as they arrive.
Current_Any == coll.pending

\* The pending result whose turn it is, if it has arrived.
Current == {res \in coll.pending : res.index = coll.next}

Skip(cur, err) ==
    /\ coll' = [coll EXCEPT !.pending = @ \ {cur}, !.next = @ + 1, !.err = err]
    /\ UNCHANGED <<file, chunks>>

\* One turn of the inner loop.  A failed append writes at most past
\* tx.appendOffset, which stays.
Drain ==
    /\ coll.pc = "drain"
    /\ \E cur \in Current :
        \/ coll.err # "nil" /\ Skip(cur, coll.err)
        \/ coll.err = "nil" /\ MayFail /\ Skip(cur, "write")
        \/ /\ coll.err = "nil"
           /\ coll' = [coll EXCEPT !.pending = @ \ {cur}, !.next = @ + 1]
           /\ file' = Append(file, cur.data)
           /\ chunks' = Append(chunks,
                               Sequential!Ref(Len(file) + 1, cur.rawOff, cur.n))
    /\ UNCHANGED <<producerVars, jobs, workerVars, results, closed, result>>

Drained ==
    /\ coll.pc = "drain"
    /\ Current = {}
    /\ coll' = [coll EXCEPT !.pc = "collect"]
    /\ UNCHANGED <<producerVars, jobs, workerVars, results, closed, file, chunks, result>>

\* An error of the workers or of the file comes before one of the producer.
Return ==
    /\ coll.pc = "collect"
    /\ results = <<>> /\ closed
    /\ coll' = [coll EXCEPT !.pc = "returned"]
    /\ result' = IF coll.err # "nil" THEN coll.err ELSE prod.err
    /\ UNCHANGED <<producerVars, jobs, workerVars, results, closed, file, chunks>>

Caller == Collect \/ Drain \/ Drained \/ Return

----------------------------------------------------------------------------

Next ==
    \/ Producer
    \/ \E w \in Workers : Worker(w)
    \/ CloseResults
    \/ Caller

\* The Go scheduler runs every goroutine that can run.
Fairness ==
    /\ WF_vars(Producer)
    /\ \A w \in Workers : WF_vars(Worker(w))
    /\ WF_vars(CloseResults)
    /\ WF_vars(Caller)

Spec == Init /\ [][Next]_vars /\ Fairness

----------------------------------------------------------------------------
(* Properties.                                                             *)

\* However the goroutines interleave, the parallel writer does what the
\* sequential one does: the same records in the same order, the same chunk
\* references, an error only where the sequential writer may have one, and it
\* returns: no channel ever blocks the pipeline for good.
ImplementsSequential == Sequential!Spec

\* What it returns without an error tiles what the reader delivered, and it ended
\* with io.EOF or io.ErrUnexpectedEOF, as SequentialChunks says.
ChunksTile == Sequential!ChunksTile

\* When the caller gets its answer no goroutine is left running, every buffer
\* is back in the pool and no record was dropped on the way.
NothingLeft ==
    result # "running" =>
        /\ prod.pc = "done" /\ jobs = <<>>
        /\ \A w \in Workers : work[w].pc = "done"
        /\ pool = Bufs
        /\ coll.pending = {} /\ coll.next = prod.idx
============================================================================
