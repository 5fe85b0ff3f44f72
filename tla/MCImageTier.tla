----------------------------- MODULE MCImageTier -----------------------------
(***************************************************************************)
(* A tool whose manifest copies credentials, edited between two contents,   *)
(* and a built-in one that takes a variable; the user's own image holds     *)
(* both.                                                                    *)
(***************************************************************************)
EXTENDS ImageTier, TLC

CONSTANTS copier, builtin

MethodOf == (copier :> "file_copy") @@ (builtin :> "environment_variables")
Symmetry == Permutations(Creates) \cup Permutations(Manifests)
=============================================================================
