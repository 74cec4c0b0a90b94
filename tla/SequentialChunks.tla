-------------------------- MODULE SequentialChunks --------------------------
(***************************************************************************)
(* What writing one entry's payload means: writeChunksSequential, one loop *)
(* iteration per step.  What the reader delivers is cut into chunks of     *)
(* ChunkSize bytes, the last one possibly shorter; each is encoded and     *)
(* appended to the file, in order, until the reader ends, the entry size   *)
(* limit, or an error.                                                     *)
(*                                                                         *)
(* A reader ends with io.EOF or with an error of its own.  If that is      *)
(* io.ErrUnexpectedEOF, which is also what io.ReadFull makes of an io.EOF  *)
(* after a part of a chunk, the loop takes it for the end of the payload.  *)
(*                                                                         *)
(* The content of the i-th chunk (from 0) is modelled by i.                *)
(***************************************************************************)
EXTENDS Integers, Sequences, FiniteSetsExt

CONSTANTS
    ChunkSize,   \* bytes per chunk
    MaxEntry,    \* Options.MaxEntrySize; 0: no limit
    Readers,     \* what a reader may deliver, and end with
    MayFail      \* encodes and appends may fail

VARIABLES
    size,     \* bytes the reader delivers
    ending,   \* what it ends with: "EOF", "UnexpectedEOF" or another "error"
    file,     \* contents of the records appended, up to tx.appendOffset
    chunks,   \* the chunk references collected
    result    \* "running", "nil" or the error returned

vars == <<size, ending, file, chunks, result>>

Faults == {"read", "encode", "write"}
Errors == Faults \cup {"limit"}

\* The error of io.ReadFull at offset off.
ReadErr(off) ==
    IF off + ChunkSize <= size THEN "nil"
    ELSE IF ending = "EOF" /\ off < size THEN "UnexpectedEOF"
    ELSE ending

\* Mutant: any error behind the last byte is taken for the end.
AtEnd_Any(off) == off >= size

\* It has read a chunk, or the end: io.EOF, or io.ErrUnexpectedEOF and no byte.
HasChunk(off) == off < size /\ ReadErr(off) # "error"
AtEnd(off) == off >= size /\ ReadErr(off) # "error"

\* Bytes that io.ReadFull delivers at offset off.
Delivered(n, off) == Min({ChunkSize, n - off})

OverLimit(end) == MaxEntry > 0 /\ end > MaxEntry

\* A reference to record o of the file, holding n bytes of payload from off.
Ref(o, off, n) == [chunkOffset |-> o, rawOff |-> off, rawSize |-> n]

rawOff == ChunkSize * Len(chunks)

Init ==
    /\ \E r \in Readers : size = r.size /\ ending = r.ending
    /\ file = <<>>
    /\ chunks = <<>>
    /\ result = "running"

WriteChunk ==
    /\ result = "running"
    /\ HasChunk(rawOff)
    /\ LET n == Delivered(size, rawOff)
       IN  /\ ~OverLimit(rawOff + n)
           /\ file' = Append(file, Len(chunks))
           /\ chunks' = Append(chunks, Ref(Len(file) + 1, rawOff, n))
    /\ UNCHANGED <<size, ending, result>>

Finish ==
    /\ result = "running"
    /\ AtEnd(rawOff)
    /\ result' = "nil"
    /\ UNCHANGED <<size, ending, file, chunks>>

TooLong ==
    /\ result = "running"
    /\ HasChunk(rawOff)
    /\ OverLimit(rawOff + Delivered(size, rawOff))
    /\ result' = "limit"
    /\ UNCHANGED <<size, ending, file, chunks>>

Fail ==
    /\ result = "running"
    /\ \/ ReadErr(rawOff) = "error" /\ result' = "read"
       \/ MayFail /\ result' \in {"encode", "write"}
    /\ UNCHANGED <<size, ending, file, chunks>>

Next == WriteChunk \/ Finish \/ TooLong \/ Fail

\* What the writer may do, and that it returns.
Safe == Init /\ [][Next]_vars

Spec == Safe /\ WF_vars(Next)

----------------------------------------------------------------------------

\* When the writer returns nil, all that the reader delivered before its io.EOF,
\* or an io.ErrUnexpectedEOF of its own, is within the limit, and the chunk
\* references tile it in order, as a reader that reads one chunk after the other
\* needs: each starts where the one before ends, the last one ends where the
\* reader ended, and the record each refers to holds what it covers.  No other
\* error of the reader is taken for the end.
ChunksTile ==
    result = "nil" =>
        /\ ending # "error"
        /\ ~OverLimit(size)
        /\ LET end(i) == IF i = 0 THEN 0 ELSE chunks[i].rawOff + chunks[i].rawSize
           IN  /\ end(Len(chunks)) = size
               /\ \A i \in DOMAIN chunks :
                   /\ chunks[i].rawOff = end(i - 1)
                   /\ chunks[i].rawSize \in 1 .. ChunkSize
                   /\ file[chunks[i].chunkOffset] = chunks[i].rawOff \div ChunkSize
============================================================================
