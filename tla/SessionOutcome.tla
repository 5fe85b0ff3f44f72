--------------------------- MODULE SessionOutcome ---------------------------
(***************************************************************************)
(* What the exit of a session promises, with no word on how: every         *)
(* repository of the patchlab is decided once and for good, the decisions  *)
(* are recorded together and only once all are made, and the session is    *)
(* never called "completed" while a repository is still undecided.         *)
(* SessionCommit implements this specification.                            *)
(***************************************************************************)
CONSTANT Repos

VARIABLES
    outcome,    \* [Repos -> Outcome]: what became of each repository's slice
    recorded,   \* [Repos -> Recorded]: commit_shas and fallback_patches on disk
    status      \* the session's status on disk

vars == <<outcome, recorded, status>>

Decided  == {"unchanged", "committed", "fallback"}
Outcome  == Decided \cup {"pending"}
Recorded == {"null", "committed", "fallback"}

AllDecided == \A r \in Repos : outcome[r] \in Decided

\* What the metadata shows of an outcome: an unchanged repository has null in both maps.
RecordOf(o) == IF o \in {"committed", "fallback"} THEN o ELSE "null"

Init ==
    /\ outcome = [r \in Repos |-> "pending"]
    /\ recorded = [r \in Repos |-> "null"]
    /\ status = "interrupted"

Decide(r) ==
    /\ outcome[r] = "pending"
    /\ \E o \in Decided : outcome' = [outcome EXCEPT ![r] = o]
    /\ UNCHANGED <<recorded, status>>

Record ==
    /\ AllDecided
    /\ status = "interrupted"
    /\ recorded' = [r \in Repos |-> RecordOf(outcome[r])]
    /\ UNCHANGED <<outcome, status>>

Complete ==
    /\ AllDecided
    /\ status' = "completed"
    /\ UNCHANGED <<outcome, recorded>>

Next ==
    \/ \E r \in Repos : Decide(r)
    \/ Record
    \/ Complete

Spec == Init /\ [][Next]_vars
=============================================================================
