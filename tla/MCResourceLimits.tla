-------------------------- MODULE MCResourceLimits ---------------------------
(***************************************************************************)
(* A host so small that its defaults are floors, units of 4, and values at *)
(* the boundaries: zero as a number and as digits, negative, above the     *)
(* caps, one unit beside several lesser ones.  Zero in another spelling    *)
(* ("0.0") is left out: see the README.                                    *)
(***************************************************************************)
EXTENDS ResourceLimits

W(form, n, unit) == [form |-> form, n |-> n, unit |-> unit]

MCWritten == {W("number", 0, "b"), W("number", 2, "b"), W("digits", 0, "b"), W("digits", 7, "b"),
              W("digits", -1, "b"), W("dressed", 1, "k"), W("dressed", 3, "b")}
=============================================================================
