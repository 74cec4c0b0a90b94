----------------------------- MODULE MCRebuild -----------------------------
(***************************************************************************)
(* Rebuild for TLC: three paths, of which the first and the last have the  *)
(* same hash; an empty payload and one of two chunks.                      *)
(***************************************************************************)
EXTENDS Rebuild

Order == <<"a", "b", "c">>
Hashes == [p \in {"a", "b", "c"} |-> IF p = "b" THEN 1 ELSE 2]

Ends == [v \in {"empty", "two"} |-> IF v = "two" THEN <<1, 3>> ELSE <<>>]

Default == [inPlace |-> TRUE, VerifyIn |-> TRUE, FastUnsafe |-> FALSE,
            ClearMeta |-> FALSE, maxEntry |-> 0, maxChunk |-> 0]

\* The API's options if any are given, unless they say VerifyIn.
Given == [Default EXCEPT !.VerifyIn = FALSE]

Options == {Default, [Default EXCEPT !.maxChunk = 1],
            [Given EXCEPT !.ClearMeta = TRUE, !.FastUnsafe = TRUE],
            [Given EXCEPT !.inPlace = FALSE],
            [Given EXCEPT !.inPlace = FALSE, !.maxEntry = 2]}

\* Archives: one with two files of the same path, of which the first is cut short;
\* one with a file whose checksum is wrong; one with a name that is no path.
File(p, v) == [path |-> p, gives |-> v, meta |-> "m", ending |-> "EOF"]
Cut(p, v) == [File(p, v) EXCEPT !.ending = "UnexpectedEOF"]
Corrupt(p, v) == [File(p, v) EXCEPT !.ending = "error"]
Zips == {<<Cut("b", "two"), File("b", "empty"), Cut("a", "empty")>>,
         <<File("a", "two"), Corrupt("b", "two"), File("c", "empty")>>,
         <<File("a", "two"), File("../a", "two")>>}
============================================================================
