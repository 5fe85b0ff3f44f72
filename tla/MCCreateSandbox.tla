--------------------------- MODULE MCCreateSandbox ---------------------------
(***************************************************************************)
(* Two repositories, one of them with submodules.  The user may have made  *)
(* before or make during the create: an ordinary change and one to a       *)
(* secret file in r1, and in r2 a change to a file that a --copy replaces. *)
(***************************************************************************)
EXTENDS CreateSandbox, TLC

CONSTANTS r1, r2, change, secret, replaced, settings

EditableByUser == (r1 :> {change, secret}) @@ (r2 :> {change, replaced})
IntoTheSecond  == settings :> r2
OverTheChanged == settings :> {replaced}
=============================================================================
