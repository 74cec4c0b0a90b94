------------------------- MODULE RecoveryDamage_inv -------------------------
(***************************************************************************)
(* The inductive invariant behind DamageLosesNothing.  Recoverable, of     *)
(* ContainerCommit_inv, is about what a power loss may leave; here every   *)
(* write stays, but what was written may be damaged, again and again.      *)
(***************************************************************************)
EXTENDS RecoveryDamage, ContainerCommit_inv

\* What the proofs assume: no directory exceeds the read cap, and the tail scan
\* sees all records that are left.
TailInReach ==
    /\ IsFiniteSet(Paths)
    /\ Cardinality(Paths) <= MaxDirEntries
    /\ Window >= MaxLog

----------------------------------------------------------------------------

\* The snapshots Open may show.
Current == {committed} \cup begun

Shows(h) == h.dirCrc.entries \in Current

\* Header h can be loaded.
Whole(h) == GoodIn(log, DOMAIN log, h)

\* No header record points at anything that was damaged.
RecordsWhole == \A i \in HeaderRecords(log) : Whole(log[i].hdr)

\* A slot, torn or not, may be damaged but not out of date.
SlotsShow == \A s \in Slots : hdr[s] # Bad => Shows(hdr[s])

\* From some position on, that of the last commit that returned nil, all header
\* records are as new, and of each kind that was never damaged there is one.
RecordsSince ==
    \E n \in Nat :
        /\ \A i \in HeaderRecords(log) : i > n => Shows(log[i].hdr)
        /\ \A k \in {"jnl", "bkp"} \ lost : \E i \in DOMAIN log : i > n /\ log[i].kind = k

\* The last record of a kind, as a set.
Newest(k) == Last({i \in DOMAIN log : log[i].kind = k})

\* The tail records lead to a snapshot that may be shown: an older JNL1 does
\* not win over the BKP1.
TailShows ==
    \E b \in Newest("bkp") :
        /\ Shows(log[b].hdr)
        /\ \A j \in Newest("jnl") : Shows(log[j].hdr) \/ log[j].ts <= log[b].ts

\* Open finds a header: in a slot, or in the tail.
HeaderLeft == (\E s \in Slots : Whole(hdr[s])) \/ TailShows

----------------------------------------------------------------------------
(* Where the process is.                                                   *)

\* What the transaction writes lies behind all that is not Bad.
WritesBehind ==
    pc \in InTx =>
        /\ Len(log) <= tx.off + 1
        /\ pc # "tx" => Len(log) = tx.off
        /\ Len(log) = tx.off + 1 => log[Len(log)] = Bad

\* Commit's header, once it is made, and its records.
CommitMade ==
    /\ pc = "idx" => log[tx.off].entries = tx.entries
    /\ pc \in Indexed => Whole(tx.h) /\ tx.h.dirCrc.entries = tx.entries
    /\ pc \in Jnled => tx.entries \in begun
    /\ pc = "bkp" => log[tx.off].kind = "jnl" /\ log[tx.off].hdr = tx.h
    /\ pc \in {"sync2"} \cup Synced2 =>
        /\ tx.off - 1 >= 1
        /\ log[tx.off - 1].kind = "jnl" /\ log[tx.off - 1].hdr = tx.h
        /\ log[tx.off].kind = "bkp" /\ log[tx.off].hdr = tx.h

CommitSlots ==
    /\ pc \in {"sync3", "prim", "sync4", "publish"} => hdr["backup"] = tx.h
    /\ pc \in {"sync4", "publish"} => hdr["primary"] = tx.h

\* Open writes a header back while another copy of it is there.
Recovered ==
    pc \in Persisting =>
        /\ Whole(mem.header) /\ Shows(mem.header)
        /\ hdr["backup"] = mem.header \/ TailShows

Undamaged ==
    /\ RecordsWhole
    /\ SlotsShow
    /\ RecordsSince
    /\ HeaderLeft
    /\ WritesBehind
    /\ CommitMade
    /\ CommitSlots
    /\ Recovered

\* The inductive invariant: nothing is said of what follows a power loss, or a
\* damage that has not left enough.
DInv ==
    /\ crashes \in Nat
    /\ crashes = 0 /\ enough => Founded /\ Undamaged
=============================================================================
