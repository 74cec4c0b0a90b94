-------------------------- MODULE MCSharedHandles --------------------------
(***************************************************************************)
(* Who shares what in the runs of SharedHandles.                           *)
(***************************************************************************)
EXTENDS SharedHandles

\* Two goroutines on one Container and one on another.
TwoAndOne == [t \in {"a1", "a2", "b"} |-> IF t = "b" THEN "B" ELSE "A"]

\* One goroutine for each Container.
OneEach == [t \in {"a", "b"} |-> IF t = "a" THEN "A" ELSE "B"]

OneProcess == [h \in {"A", "B"} |-> "p"]
TwoProcesses == [h \in {"A", "B"} |-> IF h = "A" THEN "p" ELSE "q"]
=============================================================================
