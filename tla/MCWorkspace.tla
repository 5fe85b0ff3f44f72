---------------------------- MODULE MCWorkspace ----------------------------
(***************************************************************************)
(* Five files: one below a submodule, a committed key, an ignored link     *)
(* that stays within the source by its name only, a copied file (a link    *)
(* out of the source in the host's tree) and a lock file.                  *)
(***************************************************************************)
EXTENDS Workspace

CONSTANTS below, key, chain, kept, lock, v1, v2

MCFiles == {below, key, chain, kept, lock}

Tree(set, content) == [f \in MCFiles |-> IF f \in set THEN content ELSE Absent]

\* A checkout without its submodule; `kept` is not tracked, and the source given for
\* it by --copy is another.
MCCheckouts == {[tree   |-> Tree({key, chain, kept, lock}, v1),
                 index  |-> {key, lock},
                 copies |-> Tree({kept}, v2)]}
=============================================================================
