----------------------------- MODULE MCTrustGate -----------------------------
(***************************************************************************)
(* Two repositories whose manifests are none, one tool and a built-in one  *)
(* that is not allowed to replace it, the two where it is, one name twice, *)
(* and a mixture of unreadable, malformed and good ones.                   *)
(***************************************************************************)
EXTENDS TrustGate, TLC

F(file, name, defect, overrides) ==
    [file |-> file, name |-> name, defect |-> defect, overrides_builtin |-> overrides]

ATool == F("a.yaml", "tool", "none", FALSE)

MCContents == {
    {}, {ATool, F("b.yaml", "opencode", "none", FALSE)},
    {F("a.yaml", "tool", "none", TRUE), F("b.yaml", "opencode", "none", TRUE)},
    {ATool, F("c.yaml", "tool", "none", FALSE)},
    {F("a.yaml", "tool", "malformed", FALSE), F("b.yaml", "opencode", "none", TRUE),
     F("d.yaml", "mine", "unreadable", FALSE)}}

Symmetry == Permutations(Repos)
=============================================================================
