---------------------------- MODULE EntryReader ----------------------------
(***************************************************************************)
(* Reading an entry back: the io.Reader that OpenReader returns, one turn  *)
(* of its loop at a time, and the check of all chunks by Verify.           *)
(*                                                                         *)
(* The payload of an entry is a number of units.  How it is cut is given   *)
(* by where its chunks end: chunk k has the units from the end of the one  *)
(* before it up to ends[k].                                                *)
(***************************************************************************)
EXTENDS Integers, Sequences

\* What may have become of a chunk record: its payload has changed; it does
\* not parse; another record is in its place.  (The file is not cut short while
\* it is open: nothing in the code does that, and the directory behind the
\* chunks would be gone as well.  A chunk behind the new end would give io.EOF.)
Damages == {"flipped", "unreadable"}
ChunkStates == {"ok"} \cup Damages

\* Nonempty chunks, one after the other.
IsCut(ends) ==
    /\ ends \in Seq(Nat \ {0})
    /\ \A k \in 1 .. Len(ends) - 1 : ends[k] < ends[k + 1]

\* RawOffset of chunk k, and the size of the payload.
RawOffset(ends, k) == IF k = 1 THEN 0 ELSE ends[k - 1]
FileSize(ends) == RawOffset(ends, Len(ends) + 1)
RawSize(ends, k) == ends[k] - RawOffset(ends, k)

\* A reader: the entry's chunks and the limits the container was opened with
\* (0: none); the next chunk; what is left of the current one, the units from
\* at to upto; and whether its bytes have changed on disk.
NewReader(ends, opts) ==
    [ends |-> ends, opts |-> opts, idx |-> 1, at |-> 0, upto |-> 0,
     flipped |-> FALSE, readTotal |-> 0]

\* ReadChunkRecordAtOptLimited and the comparison with the directory's
\* reference.
ChunkFails(size, state, opts) ==
    \/ opts.maxChunk > 0 /\ size > opts.maxChunk
    \/ state = "unreadable"
    \/ state = "flipped" /\ opts.verifyCRC

NextChunkFails(r, state) ==
    \/ ChunkFails(RawSize(r.ends, r.idx), state[r.idx], r.opts)
    \/ r.opts.maxEntry > 0 /\ r.readTotal + RawSize(r.ends, r.idx) > r.opts.maxEntry

\* The loop ends here, whatever room there is, and leaves the reader as it is:
\* what made it end makes the next Read end, too.
Stops(r, state) == r.at = r.upto /\ (r.idx <= Len(r.ends) => NextChunkFails(r, state))

\* What a Read returns that has nothing to return.
StopError(r) == IF r.idx > Len(r.ends) THEN "EOF" ELSE "error"

\* Otherwise there is a chunk to copy from.
Loaded(r, state) ==
    IF r.at < r.upto THEN r
    ELSE [r EXCEPT !.idx = @ + 1, !.at = RawOffset(r.ends, r.idx), !.upto = r.ends[r.idx],
                   !.flipped = (state[r.idx] = "flipped")]

Copied(r, m) == [r EXCEPT !.at = @ + m, !.readTotal = @ + m]

\* What a caller has received: so many units, and whether they are the first
\* ones of the payload.
Received0 == [len |-> 0, same |-> TRUE]
Received(got, r, m) ==
    [len |-> got.len + m, same |-> got.same /\ ~r.flipped /\ r.at = got.len]

\* Verify with VerifyAllChunks; it always compares the CRCs.
VerifyFails(ends, state, maxChunk) ==
    \E k \in DOMAIN ends :
        ChunkFails(RawSize(ends, k), state[k], [maxChunk |-> maxChunk, verifyCRC |-> TRUE])
=============================================================================
