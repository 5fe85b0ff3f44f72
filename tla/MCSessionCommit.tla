--------------------------- MODULE MCSessionCommit ---------------------------
(***************************************************************************)
(* Two repositories with one basename (the case that needs disambiguated   *)
(* fallback names), one change in each, one of them over the size cap, and *)
(* one change outside every mount.  The user may copy e1 to the branch by  *)
(* hand, so that the session's own commit of it changes nothing.           *)
(***************************************************************************)
EXTENDS SessionCommit, TLC

CONSTANTS r1, r2, e1, e2, stray, none

TwoRepos      == {r1, r2}
ThreeEdits    == {e1, e2, stray}
TwoOwners     == (e1 :> r1) @@ (e2 :> r2) @@ (stray :> none)
OneBasename   == [r \in TwoRepos |-> "app"]
TwoCanonicals == (r1 :> "d1") @@ (r2 :> "d2")

\* One repository, for the shortest run of a `patchlab diff` into the exit.
OneRepo       == {r1}
OneOwner      == (e1 :> r1) @@ (e2 :> r1) @@ (stray :> r1)
OneCanonical  == r1 :> "d1"
OneName       == r1 :> "app"
=============================================================================
