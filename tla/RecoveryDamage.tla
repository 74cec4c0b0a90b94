--------------------------- MODULE RecoveryDamage ---------------------------
(***************************************************************************)
(* ContainerCommit with two more things that happen to a container: its   *)
(* process is killed, and a region of the file at rest is damaged.  What   *)
(* Open makes of the file then depends on every recovery source: the other *)
(* header slot, the records of the tail, the scan for directories.         *)
(*                                                                         *)
(* A checksum covers every blob, but none the header slots: one that is    *)
(* hit may be no header any more, may seem to be of an unknown version of  *)
(* the format, or may go on as a header without a generation.              *)
(***************************************************************************)
EXTENDS ContainerCommit

CONSTANT MaxDamage  \* bound: damaged regions

ASSUME DamageAssumption == MaxDamage \in Nat

VARIABLES
    damages,    \* how many regions were damaged
    lost,       \* the kinds of the blobs among them
    committed,  \* ghost: the snapshot of the last Commit that returned nil
    begun,      \* ghost: those of commits that wrote a header record since
    enough      \* ghost: each damage has left what Open needs

damageVars == <<damages, lost, enough>>
commitGhosts == <<committed, begun>>
dVars == <<vars, damageVars, commitGhosts>>

DInit ==
    /\ Init
    /\ damages = 0
    /\ lost = {}
    /\ committed = Empty
    /\ begun = {}
    /\ enough = TRUE

\* A step of ContainerCommit.  Unlike acked and maybe, the two ghosts do not
\* follow what an Open in between has shown.
Step ==
    /\ Next
    /\ IF pc = "publish" /\ pc' = "open"
         THEN committed' = tx.entries /\ begun' = {}
         ELSE begun' = begun \cup maybe' /\ UNCHANGED committed
    /\ UNCHANGED damageVars

\* The process dies; the page cache has all it has written.
Kill ==
    /\ pc # "down"
    /\ pc' = "down"
    /\ mem' = NoMem
    /\ tx' = NoTx
    /\ UNCHANGED <<storage, ghosts, budgets, damageVars, commitGhosts>>

\* The file at rest: all of it was written back.
AtRest ==
    /\ pc = "down"
    /\ dur' = DOMAIN log
    /\ disk' = [s \in Slots |-> {hdr'[s]}]
    /\ dirty' = {}
    /\ UNCHANGED <<pc, mem, tx, ghosts, budgets, commitGhosts>>

\* Whatever else is damaged, one directory is still whole.
DirectoryLeft(l) == \E i \in DOMAIN l : l[i].kind = "dir"

HeaderRecords(l) == {i \in DOMAIN l : l[i].kind \in {"jnl", "bkp"}}

\* The clock did not go back between the header records that are left.
ClockForward ==
    \A i, j \in HeaderRecords(log) : i < j => log[i].ts <= log[j].ts

\* Enough is left of the copies of the current header: a slot, or both
\* records, or the BKP1 and a clock that does not make an older JNL1 look
\* newer.  (Of a lost BKP1 the one before it wins over a JNL1 of the same
\* second, so the JNL1 alone is not enough.)
CopyLeft ==
    \/ \E s \in Slots : Loadable(log, hdr[s])
    \/ lost \cap {"jnl", "bkp"} = {}
    \/ "bkp" \notin lost /\ ClockForward

\* One more region is gone, and these kinds of blobs with it.
Hit(kinds) ==
    /\ damages < MaxDamage
    /\ damages' = damages + 1
    /\ lost' = lost \cup kinds
    /\ enough' = (enough /\ kinds \cap {"dir", "idx"} = {} /\ CopyLeft')

DamageBlob(i) ==
    /\ log[i] # Bad
    /\ log' = [log EXCEPT ![i] = Bad]
    /\ DirectoryLeft(log')
    /\ UNCHANGED hdr
    /\ Hit({log[i].kind})
    /\ AtRest

\* What a slot that is hit may hold: nothing Open takes for a header, the header
\* with a bit of its required features set that the code does not know, or with
\* a generation of zero, which is not compared with the index.
HitSlot(w) ==
    {Bad} \cup {[h EXCEPT !.kind = "refused"] : h \in {w} \ {Bad}}
          \cup {[h EXCEPT !.gen = 0] : h \in {w} \ {Bad}}

\* One slot, or the sector that holds both.
DamageSlots(S) ==
    /\ \E w \in [S -> UNION {HitSlot(hdr[s]) : s \in S}] :
        /\ \A s \in S : w[s] \in HitSlot(hdr[s])
        /\ hdr' = [s \in Slots |-> IF s \in S THEN w[s] ELSE hdr[s]]
    /\ UNCHANGED log
    /\ Hit({})
    /\ AtRest

DNext ==
    \/ Step
    \/ Kill
    \/ \E i \in DOMAIN log : DamageBlob(i)
    \/ \E S \in SUBSET Slots \ {{}} : DamageSlots(S)

DSpec == DInit /\ [][DNext]_dVars

----------------------------------------------------------------------------
(* Properties.                                                             *)

\* A slot seems to be of an unknown version of the format, which Open must
\* refuse (docs/V1_EXTENSION_SPEC.md:53).
Refused == Fatal(log, hdr) /\ \E s \in Slots : hdr[s].kind = "refused"

\* Recovery is not a way to lose data: as long as no directory and no index
\* is damaged, and each damage has left a copy of the header, a damaged file
\* opens, or is refused for an unknown feature, and what it opens with is the
\* snapshot of the last Commit that returned nil, or of one that wrote a header
\* record since then, whatever step the process was killed at, whichever call
\* failed, and also when a damaged container was recovered, written to and
\* damaged again.
DamageLosesNothing ==
    pc = "down" /\ crashes = 0 /\ enough =>
        /\ OpenFrom(log, hdr) # {} \/ Refused
        /\ \A o \in OpenFrom(log, hdr) : o.header.dirCrc.entries \in {committed} \cup begun

\* What docs/V1_EXTENSION_SPEC.md says of a tail with a JNL1 and no BKP1: it
\* is ignored, so that recovery never takes a header no BKP1 was written for.
IncompleteIgnored ==
    pc = "down" =>
        \A o \in OpenFrom(log, hdr) :
            o.src = "tail" =>
                \E i \in DOMAIN log : log[i].kind = "bkp" /\ log[i].hdr = o.header
============================================================================
