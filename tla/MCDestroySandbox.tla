-------------------------- MODULE MCDestroySandbox --------------------------
(***************************************************************************)
(* One `patchlab destroy` and one `patchlab gc` of a patchlab over two      *)
(* repositories, with the baseline and one session commit.                  *)
(***************************************************************************)
EXTENDS DestroySandbox
=============================================================================
