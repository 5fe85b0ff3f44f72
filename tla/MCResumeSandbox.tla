--------------------------- MODULE MCResumeSandbox ---------------------------
(***************************************************************************)
(* Resumes of one patchlab, at once or one after the other; they are        *)
(* interchangeable.                                                         *)
(***************************************************************************)
EXTENDS ResumeSandbox, TLC

Symmetry == Permutations(Resumes)
=============================================================================
