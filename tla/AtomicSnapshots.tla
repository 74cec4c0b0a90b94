-------------------------- MODULE AtomicSnapshots --------------------------
(***************************************************************************)
(* What a container promises its user, with no file behind it: a handle    *)
(* shows one snapshot; a commit replaces the durable snapshot as a whole   *)
(* or, if it does not return nil, may turn out later to have done so.      *)
(***************************************************************************)
CONSTANTS Snapshot, Initial

VARIABLES
    durable,    \* the last snapshot known to survive
    doubtful,   \* snapshots of the commits in doubt since then
    visible     \* the snapshot the open handle shows; {} when closed

vars == <<durable, doubtful, visible>>

Init ==
    /\ durable = Initial
    /\ doubtful = {}
    /\ visible = {}

\* A commit has got to where its snapshot may survive a failure.
Attempt ==
    /\ visible # {}
    /\ \E s \in doubtful' :
        /\ s \in Snapshot
        /\ doubtful' = doubtful \cup {s}
    /\ UNCHANGED <<durable, visible>>

\* It returns nil.
Commit ==
    /\ visible # {}
    /\ \E s \in doubtful :
        /\ durable' = s
        /\ visible' = {s}
    /\ doubtful' = {}

\* Open shows a snapshot and, unless the medium is still in flux, that
\* snapshot is the one that stays.
Open ==
    /\ visible = {}
    /\ \E s \in {durable} \cup doubtful :
        /\ visible' = {s}
        /\ \/ durable' = s /\ doubtful' = {}
           \/ UNCHANGED <<durable, doubtful>>

\* The snapshot recovered by Open has been made the durable one.
Settle ==
    /\ \E s \in {durable} \cup doubtful :
        /\ visible = {s}
        /\ durable' = s
    /\ doubtful' = {}
    /\ UNCHANGED visible

\* Close, or the end of the process.
Shut ==
    /\ visible' = {}
    /\ UNCHANGED <<durable, doubtful>>

Next == Attempt \/ Commit \/ Open \/ Settle \/ Shut

Spec == Init /\ [][Next]_vars
============================================================================
