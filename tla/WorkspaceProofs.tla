--------------------------- MODULE WorkspaceProofs ---------------------------
(***************************************************************************)
(* What holds of the workspace for any files, checkouts, sessions and      *)
(* edits: the types, that only the container's changes are delivered, that *)
(* the branch wins over overlay and copies, that copies are carried on,    *)
(* and that excluded files stay out.                                       *)
(***************************************************************************)
EXTENDS Workspace, TLAPS

-----------------------------------------------------------------------------
(***************************************************************************)
(* Trees.                                                                  *)
(***************************************************************************)
\* A tree overwritten by a tree is one, and where it comes from.
LEMMA Overwriting ==
    ASSUME NEW a \in Trees, NEW b \in Trees, NEW S
    PROVE  /\ Overwrite(b, S, a) \in Trees
           /\ \A f \in Files : Overwrite(b, S, a)[f] = IF f \in S THEN a[f] ELSE b[f]
BY DEF Overwrite, Trees

\* The empty tree, and one with the same content everywhere.
LEMMA Constants ==
    /\ Nowhere \in Trees /\ \A f \in Files : Nowhere[f] = Absent
    /\ \A content \in Contents : [f \in Files |-> content] \in Trees
BY DEF Nowhere, Trees

\* The kinds of files are sets of files.
LEMMA Subsets ==
    /\ Ignored \subseteq Files /\ Secret \subseteq Files /\ UserExcluded \subseteq Files
    /\ Outward \subseteq Files /\ Chained \subseteq Files /\ Submodule \subseteq Files
    /\ CopyTargets \subseteq Files /\ Locks \subseteq Files
BY WorkspaceAssumption

\* A commit holds the tree's files that are not ignored.
LEMMA Commits ==
    ASSUME NEW tree \in Trees
    PROVE  /\ Committed(tree) \in Trees
           /\ \A f \in Files \ Ignored : Committed(tree)[f] = tree[f]
BY Overwriting, Constants DEF Committed

\* A tree with one content replaced is a tree.
LEMMA Replacing ==
    ASSUME NEW tree \in Trees, NEW f \in Files, NEW content \in Contents \cup {Absent}
    PROVE  [tree EXCEPT ![f] = content] \in Trees
BY DEF Trees

-----------------------------------------------------------------------------
(***************************************************************************)
(* Types.                                                                  *)
(***************************************************************************)
LEMMA TypeInit == Init => TypeOK
<1> SUFFICES ASSUME Init PROVE TypeOK
  OBVIOUS
<1>1. PICK checkout \in Checkouts :
        host = checkout.tree /\ tracked = checkout.index /\ offered = checkout.copies
  BY DEF Init
<1>2. host \in Trees /\ offered \in Trees /\ tracked \subseteq Files \ Submodule
  BY <1>1, WorkspaceAssumption DEF Trees
<1>3. branch \in Trees
  BY <1>2, Overwriting, Constants DEF Init
<1>4. /\ work = Nowhere /\ base = Nowhere /\ archive = Nowhere /\ previous = Nowhere
      /\ staged = Nowhere /\ exported = Nowhere /\ last = Nowhere
      /\ pc = "sources" /\ command = "create" /\ secrets \in BOOLEAN /\ submodules \in BOOLEAN
      /\ given \in SUBSET CopyTargets /\ listed = {} /\ had = {} /\ touched = {}
      /\ leftovers = {} /\ restored = {} /\ delivered = {} /\ stale = {} /\ gone = {}
      /\ edits = 0 /\ changes = 0 /\ sessions = 1
  BY DEF Init
<1>5. /\ edits \in 0..MaxEdits /\ changes \in 0..MaxChanges
      /\ sessions \in 1..MaxSessions
  BY <1>4, WorkspaceAssumption
<1>6. QED
  BY <1>2, <1>3, <1>4, <1>5, Constants DEF TypeOK

\* Every action keeps the types.
LEMMA TypeStep == TypeOK /\ [Next]_vars => TypeOK'
<1> SUFFICES ASSUME TypeOK, [Next]_vars PROVE TypeOK'
  OBVIOUS
<1>0. /\ host \in Trees /\ branch \in Trees /\ offered \in Trees /\ work \in Trees
      /\ base \in Trees /\ archive \in Trees /\ previous \in Trees /\ staged \in Trees
      /\ exported \in Trees /\ last \in Trees
  BY DEF TypeOK
<1> USE DEF repository, container, copies, process, session, fate, Goto
<1>1. CASE InitialiseSubmodule
  <2>1. PICK content \in Contents :
            host' = Overwrite(host, Submodule, [f \in Files |-> content])
    BY <1>1 DEF InitialiseSubmodule
  <2>2. [f \in Files |-> content] \in Trees
    BY Constants
  <2>3. host' \in Trees
    BY <1>0, <2>1, <2>2, Overwriting
  <2>4. UNCHANGED <<tracked, branch, offered, container, copies, process, session, fate, edits,
                    changes, sessions>>
    BY <1>1 DEF InitialiseSubmodule
  <2>5. QED
    BY <2>3, <2>4 DEF TypeOK
<1>2. CASE CopySourceFiles
  <2>1. work' \in Trees
    BY <1>0, <1>2, Overwriting, Constants DEF CopySourceFiles
  <2>2. QED
    BY <1>2, <2>1 DEF CopySourceFiles, TypeOK
<1>3. CASE CopyAdditional
  <2>1. work' \in Trees /\ last' \in Trees
    BY <1>0, <1>3, Overwriting DEF CopyAdditional
  <2>2. QED
    BY <1>3, <2>1 DEF CopyAdditional, TypeOK
<1>4. CASE Baseline
  <2>1. base' \in Trees
    BY <1>0, <1>4, Commits DEF Baseline
  <2>2. QED
    BY <1>4, <2>1 DEF Baseline, TypeOK
<1>5. CASE Install
  <2>1. PICK written \in SUBSET Locks, content \in Contents, succeeded \in BOOLEAN :
            /\ work' = Overwrite(work, written, [f \in Files |-> content])
            /\ base' = IF succeeded THEN Committed(work') ELSE base
            /\ leftovers' = IF succeeded THEN {} ELSE written
    BY <1>5 DEF Install
  <2>0. [f \in Files |-> content] \in Trees
    BY Constants
  <2>2. work' \in Trees
    BY <1>0, <2>0, <2>1, Overwriting
  <2>3. base' \in Trees /\ leftovers' \subseteq Locks
    BY <1>0, <2>1, <2>2, Commits
  <2>4. QED
    BY <1>5, <2>2, <2>3 DEF Install, TypeOK
<1>6. CASE ArchiveCopies
  <2>1. archive' \in Trees
    BY <1>0, <1>6, Overwriting, Constants DEF ArchiveCopies
  <2>2. stale' \subseteq Files /\ gone' \subseteq Files
    BY <1>6, Subsets DEF ArchiveCopies, TypeOK
  <2>3. QED
    BY <1>6, <2>1, <2>2 DEF ArchiveCopies, TypeOK
<1>7. CASE Tool
  <2>0. PICK f \in Files, content \in Contents \cup {Absent} :
            work' = [work EXCEPT ![f] = content] /\ touched' = touched \cup {f}
    BY <1>7 DEF Tool
  <2>1. work' \in Trees /\ touched' \subseteq Files
    BY <1>0, <2>0, Replacing DEF TypeOK
  <2>2. UNCHANGED <<repository, base, copies, process, had, exported, leftovers, restored,
                    delivered, fate, edits, sessions>>
    BY <1>7 DEF Tool
  <2>3. changes' \in 0..MaxChanges
    BY <1>7, WorkspaceAssumption DEF Tool, TypeOK
  <2>4. QED
    BY <2>1, <2>2, <2>3 DEF TypeOK
<1>8. CASE ExtractCopies
  <2>1. archive' \in Trees /\ last' \in Trees
    BY <1>0, <1>8, Overwriting DEF ExtractCopies
  <2>2. stale' \subseteq Files
    BY <1>8 DEF ExtractCopies, Left, Of, TypeOK
  <2>3. QED
    BY <1>8, <2>1, <2>2 DEF ExtractCopies, TypeOK
<1>9. CASE Deliver
  <2>1. branch' \in Trees /\ delivered' \subseteq Files \ Ignored
    BY <1>0, <1>9, Overwriting DEF Deliver, Slice, TypeOK
  <2>2. QED
    BY <1>9, <2>1 DEF Deliver, TypeOK
<1>10. CASE Killed
  <2>1. last' \in Trees /\ stale' \subseteq Files
    BY <1>0, <1>10, Overwriting DEF Killed, Left, Of, TypeOK
  <2>2. QED
    BY <1>10, <2>1 DEF Killed, TypeOK
<1>11. CASE Begin
  <2>1. sessions' \in 1..MaxSessions
    BY <1>11, WorkspaceAssumption DEF Begin, TypeOK
  <2>2. work' \in Trees /\ base' \in Trees /\ exported' \in Trees
    BY <1>11, Constants DEF Begin
  <2>3. QED
    BY <1>11, <2>1, <2>2 DEF Begin, TypeOK
<1>12. CASE StageOverlay
  <2>1. staged' \in Trees
    BY <1>0, <1>12, Overwriting, Constants DEF StageOverlay
  <2>2. listed' \subseteq Files /\ had' \subseteq Files
    BY <1>12 DEF StageOverlay, BranchLists, Of
  <2>3. QED
    BY <1>12, <2>1, <2>2 DEF StageOverlay, TypeOK
<1>13. CASE StageOverlayFails
  BY <1>13 DEF StageOverlayFails, TypeOK
<1>14. CASE ExportBranch
  BY <1>14 DEF ExportBranch, TypeOK
<1>15. CASE ExportFails
  BY <1>15 DEF ExportFails, TypeOK
<1>16. CASE PlaceOverlay
  <2>1. work' \in Trees /\ staged' \in Trees
    BY <1>0, <1>16, Overwriting, Constants DEF PlaceOverlay
  <2>2. QED
    BY <1>16, <2>1 DEF PlaceOverlay, TypeOK
<1>17. CASE Claim
  BY <1>0, <1>17, Constants DEF Claim, TypeOK
<1>18. CASE RestoreCopies
  <2>1. archive' \in Trees
    BY <1>0, <1>18, Overwriting DEF RestoreCopies, MergedCopies
  <2>2. work' \in Trees /\ last' \in Trees
    BY <1>0, <1>18, <2>1, Overwriting DEF RestoreCopies
  <2>3. restored' \subseteq Files /\ stale' \subseteq Files /\ gone' \subseteq Files
    BY <1>18, Subsets DEF RestoreCopies, Of, TypeOK
  <2>4. QED
    BY <1>18, <2>1, <2>2, <2>3 DEF RestoreCopies, TypeOK
<1>19. CASE ResumeFails
  BY <1>0, <1>19, Constants DEF ResumeFails, TypeOK
<1>20. CASE ResumeKilled
  <2>1. MergedCopies \in Trees
    BY <1>0, Overwriting DEF MergedCopies
  <2>2. archive' \in Trees /\ gone' \subseteq Files
    BY <1>20, <2>1, Overwriting, Constants, Subsets DEF ResumeKilled, TypeOK
  <2>3. QED
    BY <1>20, <2>2 DEF ResumeKilled, TypeOK
<1>21. CASE Edit
  <2>1. /\ host' \in Trees /\ branch' \in Trees /\ offered' \in Trees
        /\ tracked' \subseteq Files \ Submodule
    BY <1>0, <1>21, Replacing DEF Edit, TypeOK
  <2>2. edits' \in 0..MaxEdits
    BY <1>21, WorkspaceAssumption DEF Edit, TypeOK
  <2>3. QED
    BY <1>21, <2>1, <2>2 DEF Edit, TypeOK
<1>22. CASE UNCHANGED vars
  BY <1>22 DEF vars, TypeOK
<1>23. QED
  BY <1>1, <1>2, <1>3, <1>4, <1>5, <1>6, <1>7, <1>8, <1>9, <1>10, <1>11, <1>12, <1>13, <1>14,
     <1>15, <1>16, <1>17, <1>18, <1>19, <1>20, <1>21, <1>22 DEF Next

\* The types hold in every state, for any files, checkouts and bounds.
THEOREM TypeCorrect == Spec => []TypeOK
<1>1. QED
  BY TypeInit, TypeStep, PTL DEF Spec

-----------------------------------------------------------------------------
(***************************************************************************)
(* The steps of a create and of a resume.                                  *)
(***************************************************************************)
\* Nothing is delivered before the exit has ended.
PhaseInv ==
    /\ pc \in {"sources", "copies", "archive"} => command = "create"
    /\ pc \in {"overlay", "export", "place", "claim", "merge"} => command = "resume"
    /\ pc # "exited" => delivered = {}

\* Every action keeps PhaseInv.
LEMMA PhaseStep == TypeOK /\ PhaseInv /\ [Next]_vars => PhaseInv'
<1> SUFFICES ASSUME TypeOK, PhaseInv, [Next]_vars PROVE PhaseInv'
  OBVIOUS
<1> USE DEF PhaseInv, repository, container, copies, process, session, fate, Goto
<1>1. CASE InitialiseSubmodule \/ CopySourceFiles \/ CopyAdditional \/ Baseline
  BY <1>1 DEF InitialiseSubmodule, CopySourceFiles, CopyAdditional, Baseline
<1>2. CASE Install
  <2>1. pc = "install" /\ UNCHANGED <<command, delivered>>
    BY <1>2 DEF Install
  <2>2. pc' = IF command = "create" THEN "archive" ELSE "claim"
    BY <1>2 DEF Install
  <2>3. QED
    BY <2>1, <2>2 DEF TypeOK
<1>3. CASE ArchiveCopies \/ Tool \/ ExtractCopies \/ Killed
  BY <1>3 DEF ArchiveCopies, Tool, ExtractCopies, Killed
<1>4. CASE Deliver
  BY <1>4 DEF Deliver
<1>5. CASE Begin
  BY <1>5 DEF Begin
<1>6. CASE StageOverlay \/ StageOverlayFails \/ ExportBranch \/ ExportFails \/ PlaceOverlay
  BY <1>6 DEF StageOverlay, StageOverlayFails, ExportBranch, ExportFails, PlaceOverlay
<1>7. CASE Claim \/ RestoreCopies \/ ResumeFails \/ ResumeKilled \/ Edit
  BY <1>7 DEF Claim, RestoreCopies, ResumeFails, ResumeKilled, Edit
<1>8. CASE UNCHANGED vars
  BY <1>8 DEF vars
<1>9. QED
  BY <1>1, <1>2, <1>3, <1>4, <1>5, <1>6, <1>7, <1>8 DEF Next

-----------------------------------------------------------------------------
(***************************************************************************)
(* The branch wins.                                                        *)
(***************************************************************************)
\* From the export on the workspace has what was exported of the listed files; the overlay
\* that waits beside it holds none of them.
BranchInv ==
    /\ pc \in {"export", "place"} => Of(staged) \cap listed = {}
    /\ pc = "place" => work = exported
    /\ command = "resume" /\ pc \in {"baseline", "install", "claim", "merge", "session"} =>
         \A f \in listed \ (touched \cup Locks) : work[f] = exported[f]

\* Every action keeps BranchInv.
LEMMA BranchStep == TypeOK /\ PhaseInv /\ BranchInv /\ [Next]_vars => BranchInv'
<1> SUFFICES ASSUME TypeOK, PhaseInv, BranchInv, [Next]_vars PROVE BranchInv'
  OBVIOUS
<1>0. /\ host \in Trees /\ work \in Trees /\ previous \in Trees /\ staged \in Trees
      /\ offered \in Trees /\ listed \subseteq Files
  BY DEF TypeOK
<1> USE DEF PhaseInv, BranchInv, repository, container, copies, process, session, fate, Goto
<1>1. CASE InitialiseSubmodule \/ CopySourceFiles \/ CopyAdditional \/ ArchiveCopies
  BY <1>1 DEF InitialiseSubmodule, CopySourceFiles, CopyAdditional, ArchiveCopies
<1>2. CASE Baseline
  BY <1>2 DEF Baseline
<1>3. CASE Install
  <2>1. PICK written \in SUBSET Locks, content \in Contents :
            work' = Overwrite(work, written, [f \in Files |-> content])
    BY <1>3 DEF Install
  <2>2. [f \in Files |-> content] \in Trees
    BY Constants
  <2>3. \A f \in Files \ Locks : work'[f] = work[f]
    BY <1>0, <2>1, <2>2, Overwriting
  <2>4. /\ pc = "install" /\ pc' \in {"archive", "claim"}
        /\ UNCHANGED <<command, listed, touched, exported>>
    BY <1>3 DEF Install
  <2>5. QED
    BY <1>0, <2>3, <2>4
<1>4. CASE Tool
  <2>1. PICK f \in Files, content \in Contents \cup {Absent} :
            work' = [work EXCEPT ![f] = content] /\ touched' = touched \cup {f}
    BY <1>4 DEF Tool
  <2>2. \A g \in Files : g # f => work'[g] = work[g]
    BY <1>0, <2>1 DEF Trees
  <2>3. pc = "session" /\ UNCHANGED <<pc, command, listed, staged, exported>>
    BY <1>4 DEF Tool
  <2>4. QED
    BY <1>0, <2>1, <2>2, <2>3
<1>5. CASE ExtractCopies \/ Deliver \/ Killed \/ Begin
  BY <1>5 DEF ExtractCopies, Deliver, Killed, Begin
<1>6. CASE StageOverlay
  <2>1. PICK names \in Listings, list \in BranchLists :
            /\ staged' = Overwrite(Nowhere, Overlaid(Wanted(names, list)), host)
            /\ listed' = list
    BY <1>6 DEF StageOverlay
  <2>2. \A f \in Files : f \notin Overlaid(Wanted(names, list)) => staged'[f] = Absent
    BY <1>0, <2>1, Overwriting, Constants
  <2>3. Overlaid(Wanted(names, list)) \cap list = {}
    BY DEF Overlaid, Wanted
  <2>4. Of(staged') \cap listed' = {}
    BY <2>1, <2>2, <2>3 DEF Of
  <2>5. QED
    BY <1>6, <2>4 DEF StageOverlay
<1>7. CASE StageOverlayFails \/ ExportBranch \/ ExportFails
  BY <1>7 DEF StageOverlayFails, ExportBranch, ExportFails
<1>8. CASE PlaceOverlay
  <2>1. pc = "place" /\ pc' = "baseline" /\ UNCHANGED <<command, listed, touched, exported>>
    BY <1>8 DEF PlaceOverlay
  <2>2. \A f \in listed : work'[f] = work[f]
    BY <1>0, <1>8, Overwriting DEF PlaceOverlay
  <2>3. QED
    BY <2>1, <2>2
<1>9. CASE Claim \/ ResumeFails \/ ResumeKilled
  BY <1>9 DEF Claim, ResumeFails, ResumeKilled
<1>10. CASE RestoreCopies
  <2>1. pc = "merge" /\ pc' = "session" /\ UNCHANGED <<command, listed, touched, exported>>
    BY <1>10 DEF RestoreCopies
  <2>2. MergedCopies \in Trees
    BY <1>0, Overwriting DEF MergedCopies
  <2>3. \A f \in listed : work'[f] = work[f]
    BY <1>0, <1>10, <2>2, Overwriting DEF RestoreCopies
  <2>4. QED
    BY <2>1, <2>3
<1>11. CASE Edit
  BY <1>11 DEF Edit
<1>12. CASE UNCHANGED vars
  BY <1>12 DEF vars
<1>13. QED
  BY <1>1, <1>2, <1>3, <1>4, <1>5, <1>6, <1>7, <1>8, <1>9, <1>10, <1>11, <1>12 DEF Next

-----------------------------------------------------------------------------
(***************************************************************************)
(* Only the container's changes are delivered.                             *)
(***************************************************************************)
\* After the baseline the workspace differs from it, in files that are not ignored, only
\* by what installs left, the tool touched and a resume restored.
DiffInv ==
    /\ pc = "install" => \A f \in Files \ Ignored : work[f] = base[f]
    /\ pc \in {"archive", "claim", "merge"} =>
         \A f \in Files \ Ignored : work[f] # base[f] => f \in leftovers
    /\ pc \in {"session", "deliver"} =>
         \A f \in Files \ Ignored : work[f] # base[f] => f \in touched \cup leftovers \cup restored
    /\ OnlyTheToolsWork

\* Every action keeps DiffInv.
LEMMA DiffStep == TypeOK /\ PhaseInv /\ DiffInv /\ [Next]_vars => DiffInv'
<1> SUFFICES ASSUME TypeOK, PhaseInv, DiffInv, [Next]_vars PROVE DiffInv'
  OBVIOUS
<1>0. /\ work \in Trees /\ base \in Trees /\ staged \in Trees
      /\ work' \in Trees /\ base' \in Trees /\ archive' \in Trees
  BY TypeStep DEF TypeOK
<1> USE DEF PhaseInv, DiffInv, OnlyTheToolsWork
<1> USE DEF repository, container, copies, process, session, fate, Goto
<1>1. CASE InitialiseSubmodule \/ CopySourceFiles \/ CopyAdditional
  BY <1>1 DEF InitialiseSubmodule, CopySourceFiles, CopyAdditional
<1>2. CASE Baseline
  <2>1. \A f \in Files \ Ignored : work'[f] = base'[f]
    BY <1>0, <1>2, Commits DEF Baseline
  <2>2. QED
    BY <1>2, <2>1 DEF Baseline
<1>3. CASE Install
  <2>1. PICK written \in SUBSET Locks, content \in Contents, succeeded \in BOOLEAN :
            /\ work' = Overwrite(work, written, [f \in Files |-> content])
            /\ base' = IF succeeded THEN Committed(work') ELSE base
            /\ leftovers' = IF succeeded THEN {} ELSE written
    BY <1>3 DEF Install
  <2>2. [f \in Files |-> content] \in Trees
    BY Constants
  <2>3. pc = "install" /\ pc' \in {"archive", "claim"} /\ delivered' = delivered
    BY <1>3 DEF Install
  <2>4. \A f \in Files \ Ignored : work'[f] # base'[f] => f \in leftovers'
    <3>1. CASE succeeded
      BY <1>0, <2>1, <3>1, Commits
    <3>2. CASE ~succeeded
      BY <1>0, <2>1, <2>2, <2>3, <3>2, Overwriting
    <3>3. QED
      BY <3>1, <3>2
  <2>5. QED
    BY <2>3, <2>4
<1>4. CASE ArchiveCopies
  BY <1>4 DEF ArchiveCopies
<1>5. CASE Tool
  <2>1. PICK f \in Files, content \in Contents \cup {Absent} :
            work' = [work EXCEPT ![f] = content] /\ touched' = touched \cup {f}
    BY <1>5 DEF Tool
  <2>2. \A g \in Files : g # f => work'[g] = work[g]
    BY <1>0, <2>1 DEF Trees
  <2>3. pc = "session" /\ UNCHANGED <<pc, base, leftovers, restored, delivered>>
    BY <1>5 DEF Tool
  <2>4. QED
    BY <2>1, <2>2, <2>3
<1>6. CASE ExtractCopies
  BY <1>6 DEF ExtractCopies
<1>7. CASE Deliver
  <2>1. Slice \subseteq touched \cup leftovers \cup (restored \ Ignored)
    BY <1>7 DEF Deliver, Slice
  <2>2. /\ delivered' \in {{}, Slice} /\ pc' = "exited"
        /\ UNCHANGED <<touched, leftovers, restored>>
    BY <1>7 DEF Deliver
  <2>3. QED
    BY <2>1, <2>2
<1>8. CASE Killed \/ Begin
  BY <1>8 DEF Killed, Begin
<1>9. CASE StageOverlay \/ StageOverlayFails \/ ExportBranch \/ ExportFails \/ PlaceOverlay
  BY <1>9 DEF StageOverlay, StageOverlayFails, ExportBranch, ExportFails, PlaceOverlay
<1>10. CASE Claim \/ ResumeFails \/ ResumeKilled
  BY <1>10 DEF Claim, ResumeFails, ResumeKilled
<1>11. CASE RestoreCopies
  <2>1. /\ pc = "merge" /\ pc' = "session" /\ UNCHANGED <<base, touched, leftovers, delivered>>
    BY <1>11 DEF RestoreCopies
  <2>2. \A f \in Files : f \notin restored' => work'[f] = work[f]
    BY <1>0, <1>11, <2>1, Overwriting DEF RestoreCopies
  <2>3. QED
    BY <2>1, <2>2
<1>12. CASE Edit
  BY <1>12 DEF Edit
<1>13. CASE UNCHANGED vars
  BY <1>13 DEF vars
<1>14. QED
  BY <1>1, <1>2, <1>3, <1>4, <1>5, <1>6, <1>7, <1>8, <1>9, <1>10, <1>11, <1>12, <1>13 DEF Next

-----------------------------------------------------------------------------
(***************************************************************************)
(* Copies are carried on.                                                  *)
(***************************************************************************)
\* What a tree must hold for the copies to survive.
Keeps(tree) ==
    \A f \in Of(last) \ gone : tree[f] # Absent /\ (f \notin stale => tree[f] = last[f])

\* A create that has not archived its copies.
Unarchived == command = "create" /\ pc \in {"sources", "copies", "baseline", "install", "archive"}

\* The directory that the next merge reads holds the copies: the highest session's, or, once
\* a resume has claimed a new one, the one before it.
CopyInv ==
    /\ Of(last) \subseteq CopyTargets
    /\ Unarchived => Of(last) \subseteq given
    /\ ~Unarchived /\ pc # "merge" => Keeps(archive)
    /\ pc = "merge" => Keeps(previous)
    /\ CopiesSurvive

\* Every action keeps CopyInv.
LEMMA CopyStep == TypeOK /\ PhaseInv /\ CopyInv /\ [Next]_vars => CopyInv'
<1> SUFFICES ASSUME TypeOK, PhaseInv, CopyInv, [Next]_vars PROVE CopyInv'
  OBVIOUS
<1>0. /\ work \in Trees /\ archive \in Trees /\ previous \in Trees /\ last \in Trees
      /\ offered \in Trees /\ given \subseteq CopyTargets /\ CopyTargets \subseteq Files
  BY Subsets DEF TypeOK
<1> USE DEF repository, container, copies, process, session, fate, Goto
<1>f. UNCHANGED last => Of(last') = Of(last)
  BY DEF Of
<1>k. UNCHANGED <<archive, fate>> /\ Keeps(archive) => Keeps(archive)'
  BY DEF Keeps, Of
<1>p. UNCHANGED <<previous, fate>> /\ Keeps(previous) => Keeps(previous)'
  BY DEF Keeps, Of
<1>1. CASE InitialiseSubmodule \/ CopySourceFiles \/ Baseline
  <2>1. /\ pc \in {"sources", "baseline"} /\ pc' \in {"sources", "copies", "install"}
        /\ (pc = "sources" <=> pc' \in {"sources", "copies"})
        /\ UNCHANGED <<command, given, archive, fate>>
    BY <1>1 DEF InitialiseSubmodule, CopySourceFiles, Baseline
  <2>2. QED
    BY <2>1, <1>f, <1>k DEF CopyInv, CopiesSurvive, Unarchived, PhaseInv
<1>2. CASE CopyAdditional
  <2>1. pc = "copies" /\ pc' = "baseline" /\ UNCHANGED <<command, given>>
    BY <1>2 DEF CopyAdditional
  <2>2. \A f \in Files : f \notin given => last'[f] = last[f]
    BY <1>0, <1>2, Overwriting DEF CopyAdditional, Offered
  <2>3. command = "create" /\ Of(last) \subseteq given
    BY <2>1 DEF CopyInv, Unarchived, PhaseInv
  <2>4. Of(last') \subseteq given
    BY <2>2, <2>3 DEF Of
  <2>5. QED
    BY <1>0, <2>1, <2>3, <2>4 DEF CopyInv, CopiesSurvive, Unarchived
<1>3. CASE Install
  <2>1. /\ pc = "install" /\ UNCHANGED <<command, given, archive, fate>>
        /\ pc' = (IF command = "create" THEN "archive" ELSE "claim")
    BY <1>3 DEF Install
  <2>2. QED
    BY <2>1, <1>f, <1>k DEF CopyInv, CopiesSurvive, Unarchived
<1>4. CASE ArchiveCopies
  <2>1. /\ pc = "archive" /\ pc' = "session" /\ command' = "create"
        /\ stale' = {f \in given : offered[f] # last[f]} /\ gone' = given \ Offered
        /\ UNCHANGED <<last, given>>
    BY <1>4 DEF ArchiveCopies, PhaseInv
  <2>2. Of(last) \subseteq given
    BY <2>1, <1>4 DEF CopyInv, Unarchived, ArchiveCopies, PhaseInv
  <2>3. \A f \in Offered : archive'[f] = offered[f] /\ offered[f] # Absent
    BY <1>0, <1>4, Overwriting, Constants DEF ArchiveCopies, Offered, Of
  <2>4. Keeps(archive)'
    BY <2>1, <2>2, <2>3, <1>f DEF Keeps
  <2>5. QED
    BY <2>1, <2>4, <1>f DEF CopyInv, CopiesSurvive, Unarchived
<1>5. CASE Tool
  <2>1. PICK f \in Files, content \in Contents \cup {Absent} :
            work' = [work EXCEPT ![f] = content] /\ touched' = touched \cup {f}
    BY <1>5 DEF Tool
  <2>2. \A g \in Files : g # f => work'[g] = work[g]
    BY <1>0, <2>1 DEF Trees
  <2>3. pc = "session" /\ UNCHANGED <<pc, command, given, listed, archive, fate>>
    BY <1>5 DEF Tool
  <2>4. Of(last) \subseteq Files
    BY DEF Of
  <2>5. CopiesSurvive'
    BY <2>1, <2>2, <2>3, <2>4, <1>f DEF CopyInv, CopiesSurvive, Of
  <2>6. QED
    BY <2>3, <2>5, <1>f, <1>k DEF CopyInv, Unarchived
<1>6. CASE ExtractCopies
  <2>1. PICK unreadable \in SUBSET Of(archive) :
            LET extracted == (Of(archive) \cap Of(work)) \ unreadable
            IN  /\ archive' = Overwrite(archive, extracted, work)
                /\ stale' = (stale \ extracted) \cup (Left \cap unreadable)
    BY <1>6 DEF ExtractCopies
  <2> DEFINE extracted == (Of(archive) \cap Of(work)) \ unreadable
  <2>2. /\ pc = "session" /\ pc' = "deliver" /\ UNCHANGED <<command, given, gone>>
        /\ last' = Overwrite(last, Left, work)
    BY <1>6 DEF ExtractCopies
  <2>3. \A f \in Files : last'[f] = IF f \in Left THEN work[f] ELSE last[f]
    BY <1>0, <2>2, Overwriting
  <2>4. \A f \in Files : archive'[f] = IF f \in extracted THEN work[f] ELSE archive[f]
    BY <1>0, <2>1, Overwriting
  <2>5. Of(last') = Of(last)
    BY <2>3 DEF Of, Left
  <2>6. Keeps(archive)
    BY <2>2 DEF CopyInv, Unarchived
  <2>7. Keeps(archive)'
    <3> SUFFICES ASSUME NEW f \in Of(last) \ gone
                 PROVE  archive'[f] # Absent /\ (f \notin stale' => archive'[f] = last'[f])
      BY <2>2, <2>5 DEF Keeps
    <3>1. /\ f \in Files /\ last[f] # Absent /\ archive[f] # Absent
          /\ f \notin stale => archive[f] = last[f]
      BY <2>6 DEF Keeps, Of
    <3>2. CASE f \in extracted
      BY <2>3, <2>4, <3>1, <3>2 DEF Of, Left
    <3>3. CASE f \notin extracted
      BY <2>1, <2>3, <2>4, <3>1, <3>3 DEF Of, Left
    <3>4. QED
      BY <3>2, <3>3
  <2>8. QED
    BY <2>2, <2>5, <2>7 DEF CopyInv, CopiesSurvive, Unarchived
<1>7. CASE Killed
  <2>1. /\ pc \in {"session", "deliver"} /\ pc' = "exited"
        /\ UNCHANGED <<command, given, archive, gone>>
    BY <1>7 DEF Killed
  <2>2. CASE UNCHANGED <<last, stale>>
    BY <2>1, <2>2, <1>f, <1>k DEF CopyInv, CopiesSurvive, Unarchived
  <2>3. CASE last' = Overwrite(last, Left, work) /\ stale' = stale \cup Left
    <3>1. \A f \in Files : last'[f] = IF f \in Left THEN work[f] ELSE last[f]
      BY <1>0, <2>3, Overwriting
    <3>2. Of(last') = Of(last)
      BY <3>1 DEF Of, Left
    <3>3. Keeps(archive)
      BY <2>1 DEF CopyInv, Unarchived
    <3>4. Keeps(archive)'
      BY <2>1, <2>3, <3>1, <3>2, <3>3 DEF Keeps, Of
    <3>5. QED
      BY <2>1, <3>2, <3>4 DEF CopyInv, CopiesSurvive, Unarchived
  <2>4. QED
    BY <1>7, <2>2, <2>3 DEF Killed
<1>8. CASE Deliver
  BY <1>8, <1>f, <1>k DEF Deliver, CopyInv, CopiesSurvive, Unarchived
<1>9. CASE Begin
  BY <1>9, <1>f, <1>k DEF Begin, CopyInv, CopiesSurvive, Unarchived
<1>10. CASE StageOverlay \/ StageOverlayFails \/ ExportBranch \/ ExportFails \/ PlaceOverlay
  <2>1. /\ pc \in {"overlay", "export", "place"}
        /\ pc' \in {"export", "place", "baseline", "exited"}
        /\ UNCHANGED <<command, given, archive, fate>>
    BY <1>10 DEF StageOverlay, StageOverlayFails, ExportBranch, ExportFails, PlaceOverlay
  <2>2. QED
    BY <2>1, <1>f, <1>k DEF CopyInv, CopiesSurvive, Unarchived, PhaseInv
<1>11. CASE Claim
  <2>1. /\ pc = "claim" /\ pc' = "merge" /\ previous' = archive
        /\ UNCHANGED <<command, given, fate>>
    BY <1>11 DEF Claim
  <2>2. Keeps(archive)
    BY <2>1 DEF CopyInv, Unarchived
  <2>3. Keeps(previous)'
    BY <2>1, <2>2 DEF Keeps, Of
  <2>4. QED
    BY <2>1, <2>3, <1>f DEF CopyInv, CopiesSurvive, Unarchived
<1>12. CASE RestoreCopies
  <2>1. /\ pc = "merge" /\ pc' = "session" /\ UNCHANGED <<command, given, listed, touched>>
        /\ archive' = MergedCopies /\ restored' = Of(archive') \ listed
        /\ last' = Overwrite(last, Offered, offered)
        /\ stale' = stale \ given /\ gone' = (gone \ given) \cup (given \ Offered)
    BY <1>12 DEF RestoreCopies
  <2>2. MergedCopies \in Trees
    BY <1>0, Overwriting DEF MergedCopies
  <2>3. \A f \in Files : archive'[f] = IF f \in given THEN offered[f] ELSE previous[f]
    BY <1>0, <2>1, Overwriting DEF MergedCopies
  <2>4. \A f \in Files : last'[f] = IF f \in Offered THEN offered[f] ELSE last[f]
    BY <1>0, <2>1, Overwriting
  <2>5. Keeps(previous)
    BY <2>1 DEF CopyInv
  <2>6. Keeps(archive)'
    <3> SUFFICES ASSUME NEW f \in Files, last'[f] # Absent, f \notin gone'
                 PROVE  archive'[f] # Absent /\ (f \notin stale' => archive'[f] = last'[f])
      BY DEF Keeps, Of
    <3>1. CASE f \in given
      BY <2>1, <2>3, <2>4, <3>1 DEF Offered, Of
    <3>2. CASE f \notin given
      BY <2>1, <2>3, <2>4, <2>5, <3>2 DEF Keeps, Offered, Of
    <3>3. QED
      BY <3>1, <3>2
  <2>7. \A f \in Of(archive') \ listed : work'[f] = archive'[f]
    BY <1>0, <1>12, <2>1, <2>2, Overwriting DEF RestoreCopies, Of
  <2>8. CopiesSurvive'
    BY <2>1, <2>6, <2>7 DEF CopiesSurvive, Keeps, Of
  <2>9. Of(last') \subseteq CopyTargets
    BY <1>0, <2>4 DEF CopyInv, Of, Offered
  <2>10. QED
    BY <2>1, <2>6, <2>8, <2>9 DEF CopyInv, Unarchived
<1>13. CASE ResumeFails
  <2>1. /\ pc = "merge" /\ pc' = "exited" /\ archive' = previous
        /\ UNCHANGED <<command, given, fate>>
    BY <1>13 DEF ResumeFails
  <2>2. Keeps(archive)'
    BY <2>1 DEF CopyInv, Keeps, Of
  <2>3. QED
    BY <2>1, <2>2, <1>f DEF CopyInv, CopiesSurvive, Unarchived
<1>14. CASE ResumeKilled
  <2>1. PICK merged \in SUBSET CopyTargets :
            /\ archive' = Overwrite(Nowhere, merged, MergedCopies)
            /\ gone' = gone \cup (CopyTargets \ merged) \cup given
    BY <1>14 DEF ResumeKilled
  <2>2. pc = "merge" /\ pc' = "exited" /\ UNCHANGED <<command, given, last, stale>>
    BY <1>14 DEF ResumeKilled
  <2>3. MergedCopies \in Trees
    BY <1>0, Overwriting DEF MergedCopies
  <2>4. \A f \in Files : f \notin given => MergedCopies[f] = previous[f]
    BY <1>0, Overwriting DEF MergedCopies
  <2>5. \A f \in merged \ given : archive'[f] = previous[f]
    BY <1>0, <2>1, <2>3, <2>4, Overwriting, Constants
  <2>6. Of(last) \subseteq CopyTargets /\ Keeps(previous)
    BY <2>2 DEF CopyInv
  <2>7. Keeps(archive)'
    BY <2>1, <2>2, <2>5, <2>6, <1>f DEF Keeps
  <2>8. QED
    BY <2>2, <2>6, <2>7, <1>f DEF CopyInv, CopiesSurvive, Unarchived
<1>15. CASE Edit
  <2>1. UNCHANGED <<pc, command, given, listed, touched, work, archive, previous, fate>>
    BY <1>15 DEF Edit
  <2>2. QED
    BY <2>1, <1>f, <1>k, <1>p DEF CopyInv, CopiesSurvive, Unarchived, Of
<1>16. CASE UNCHANGED vars
  <2>1. UNCHANGED <<pc, command, given, listed, touched, work, archive, previous, fate>>
    BY <1>16 DEF vars
  <2>2. QED
    BY <2>1, <1>f, <1>k, <1>p DEF CopyInv, CopiesSurvive, Unarchived, Of
<1>17. QED
  BY <1>1, <1>2, <1>3, <1>4, <1>5, <1>6, <1>7, <1>8, <1>9, <1>10, <1>11, <1>12, <1>13, <1>14,
     <1>15, <1>16 DEF Next

-----------------------------------------------------------------------------
(***************************************************************************)
(* Excluded files stay out.                                                *)
(***************************************************************************)
Unwanted ==
    Excluded(secrets) \cup Outward \cup (IF command = "create" THEN Chained ELSE {})

\* Where a file nobody wants in the workspace may have come from, before copies are restored
\* and after it.
Arrived(f) == f \in touched \cup given \cup Locks \/ exported[f] # Absent
Excused(f) == Arrived(f) \/ archive[f] # Absent

\* The overlay holds no unwanted file, and one in the workspace has an excuse; before the
\* session it is not that the archive has it, which a claim empties.
ExcludeInv ==
    /\ pc \in {"export", "place"} => Of(staged) \cap Unwanted = {}
    /\ pc \in {"copies", "baseline", "install", "archive", "claim", "merge"} =>
         \A f \in Unwanted : work[f] # Absent => Arrived(f)
    /\ pc \in {"session", "deliver"} => \A f \in Unwanted : work[f] # Absent => Excused(f)

\* What nobody wants in the workspace are files.
LEMMA UnwantedFiles == Unwanted \subseteq Files
BY Subsets DEF Unwanted, Excluded

\* Every action keeps ExcludeInv.
LEMMA ExcludeStep ==
    TypeOK /\ PhaseInv /\ BranchInv /\ ExcludeInv /\ [Next]_vars => ExcludeInv'
<1> SUFFICES ASSUME TypeOK, PhaseInv, BranchInv, ExcludeInv, [Next]_vars PROVE ExcludeInv'
  OBVIOUS
<1>0. /\ host \in Trees /\ offered \in Trees /\ work \in Trees /\ archive \in Trees
      /\ staged \in Trees /\ exported \in Trees /\ given \subseteq CopyTargets /\ archive' \in Trees
  BY TypeStep DEF TypeOK
<1>u. UNCHANGED <<secrets, command>> => Unwanted' = Unwanted
  BY DEF Unwanted, Excluded
<1> USE DEF PhaseInv, ExcludeInv, Excused, Arrived
<1> USE DEF repository, container, copies, process, session, fate, Goto
<1>1. CASE InitialiseSubmodule
  BY <1>1, <1>u DEF InitialiseSubmodule
<1>2. CASE CopySourceFiles
  <2>1. pc = "sources" /\ pc' = "copies" /\ UNCHANGED <<command, secrets>>
    BY <1>2 DEF CopySourceFiles
  <2>2. PICK S : S \cap Unwanted = {} /\ work' = Overwrite(Nowhere, S, host)
    BY <1>2, <2>1 DEF CopySourceFiles, Unwanted, Stageable
  <2>3. \A f \in Files : f \notin S => work'[f] = Absent
    BY <1>0, <2>2, Overwriting, Constants
  <2>4. \A f \in Unwanted : work'[f] = Absent
    BY <2>2, <2>3, UnwantedFiles
  <2>5. QED
    BY <2>1, <2>4, <1>u
<1>3. CASE CopyAdditional
  <2>1. \A f \in Files : f \notin given => work'[f] = work[f]
    BY <1>0, <1>3, Overwriting DEF CopyAdditional, Offered
  <2>2. /\ pc = "copies" /\ pc' = "baseline"
        /\ UNCHANGED <<command, secrets, given, touched, exported>>
    BY <1>3 DEF CopyAdditional
  <2>3. QED
    BY <2>1, <2>2, <1>u, UnwantedFiles
<1>4. CASE Baseline
  BY <1>4, <1>u DEF Baseline
<1>5. CASE Install
  <2>1. PICK written \in SUBSET Locks, content \in Contents :
            work' = Overwrite(work, written, [f \in Files |-> content])
    BY <1>5 DEF Install
  <2>2. [f \in Files |-> content] \in Trees
    BY Constants
  <2>3. \A f \in Files \ Locks : work'[f] = work[f]
    BY <1>0, <2>1, <2>2, Overwriting
  <2>4. /\ pc = "install" /\ pc' \in {"archive", "claim"}
        /\ UNCHANGED <<command, secrets, given, touched, exported>>
    BY <1>5 DEF Install
  <2>5. QED
    BY <2>3, <2>4, <1>u, UnwantedFiles
<1>6. CASE ArchiveCopies
  <2>1. /\ pc = "archive" /\ pc' = "session"
        /\ UNCHANGED <<command, work, secrets, given, touched, exported>>
    BY <1>6 DEF ArchiveCopies
  <2>2. QED
    BY <2>1, <1>u
<1>7. CASE Tool
  <2>1. PICK f \in Files, content \in Contents \cup {Absent} :
            work' = [work EXCEPT ![f] = content] /\ touched' = touched \cup {f}
    BY <1>7 DEF Tool
  <2>2. \A g \in Files : g # f => work'[g] = work[g]
    BY <1>0, <2>1 DEF Trees
  <2>3. pc = "session" /\ UNCHANGED <<pc, command, archive, secrets, given, exported>>
    BY <1>7 DEF Tool
  <2>4. QED
    BY <2>1, <2>2, <2>3, <1>u, UnwantedFiles
<1>8. CASE ExtractCopies
  <2>1. PICK extracted \in SUBSET Of(work) : archive' = Overwrite(archive, extracted, work)
    BY <1>8 DEF ExtractCopies
  <2>2. \A f \in Files : archive[f] # Absent => archive'[f] # Absent
    BY <1>0, <2>1, Overwriting DEF Of
  <2>3. /\ pc = "session" /\ pc' = "deliver"
        /\ UNCHANGED <<command, work, secrets, given, touched, exported>>
    BY <1>8 DEF ExtractCopies
  <2>4. QED
    BY <2>2, <2>3, <1>u, UnwantedFiles
<1>9. CASE Deliver \/ Killed \/ Begin
  BY <1>9 DEF Deliver, Killed, Begin
<1>10. CASE StageOverlay
  <2>1. PICK names \in Listings, list \in BranchLists :
            staged' = Overwrite(Nowhere, Overlaid(Wanted(names, list)), host)
    BY <1>10 DEF StageOverlay
  <2>2. pc = "overlay" /\ pc' = "export" /\ UNCHANGED <<command, secrets>>
    BY <1>10 DEF StageOverlay
  <2>3. \A f \in Unwanted : f \notin Overlaid(Wanted(names, list))
    BY <2>2 DEF Unwanted, Overlaid, Wanted
  <2>4. \A f \in Unwanted : staged'[f] = Absent
    BY <1>0, <2>1, <2>3, UnwantedFiles, Overwriting, Constants
  <2>5. QED
    BY <2>2, <2>4, <1>u DEF Of
<1>11. CASE StageOverlayFails \/ ExportFails \/ ResumeFails \/ ResumeKilled
  BY <1>11 DEF StageOverlayFails, ExportFails, ResumeFails, ResumeKilled
<1>12. CASE ExportBranch
  BY <1>12, <1>u DEF ExportBranch, Of
<1>13. CASE PlaceOverlay
  <2>1. \A f \in Unwanted : work'[f] = work[f]
    BY <1>0, <1>13, UnwantedFiles, Overwriting DEF PlaceOverlay
  <2>2. /\ pc = "place" /\ pc' = "baseline"
        /\ UNCHANGED <<command, secrets, given, touched, exported>>
    BY <1>13 DEF PlaceOverlay
  <2>3. work = exported
    BY <2>2 DEF BranchInv
  <2>4. QED
    BY <2>1, <2>2, <2>3, <1>u
<1>14. CASE Claim
  <2>1. /\ pc = "claim" /\ pc' = "merge"
        /\ UNCHANGED <<command, work, secrets, given, touched, exported>>
    BY <1>14 DEF Claim
  <2>2. QED
    BY <2>1, <1>u
<1>15. CASE RestoreCopies
  <2>1. /\ pc = "merge" /\ pc' = "session" /\ restored' = Of(archive') \ listed
        /\ work' = Overwrite(work, restored', archive')
        /\ UNCHANGED <<command, secrets, given, touched, exported>>
    BY <1>15 DEF RestoreCopies
  <2>2. \A f \in Files : archive'[f] = Absent => work'[f] = work[f]
    BY <1>0, <2>1, Overwriting DEF Of
  <2>3. QED
    BY <2>1, <2>2, <1>u, UnwantedFiles
<1>16. CASE Edit
  BY <1>16, <1>u DEF Edit, Of
<1>17. CASE UNCHANGED vars
  BY <1>17, <1>u DEF vars, Of
<1>18. QED
  BY <1>1, <1>2, <1>3, <1>4, <1>5, <1>6, <1>7, <1>8, <1>9, <1>10, <1>11, <1>12, <1>13, <1>14,
     <1>15, <1>16, <1>17 DEF Next

-----------------------------------------------------------------------------
(***************************************************************************)
(* The theorems.                                                           *)
(***************************************************************************)
WorkspaceInv == TypeOK /\ PhaseInv /\ BranchInv /\ DiffInv /\ CopyInv /\ ExcludeInv

\* The invariant holds at first.
LEMMA InvInit == Init => WorkspaceInv
<1> SUFFICES ASSUME Init PROVE WorkspaceInv
  OBVIOUS
<1>1. TypeOK
  BY TypeInit
<1>2. pc = "sources" /\ command = "create" /\ last = Nowhere /\ delivered = {}
  BY DEF Init
<1>3. Of(last) = {}
  BY <1>2, Constants DEF Of
<1>4. QED
  BY <1>1, <1>2, <1>3 DEF WorkspaceInv, PhaseInv, BranchInv, DiffInv, OnlyTheToolsWork, CopyInv,
     Unarchived, CopiesSurvive, ExcludeInv

\* The invariant holds always.
LEMMA InvAlways == Spec => []WorkspaceInv
<1>1. WorkspaceInv /\ [Next]_vars => WorkspaceInv'
  BY TypeStep, PhaseStep, BranchStep, DiffStep, CopyStep, ExcludeStep DEF WorkspaceInv
<1>2. QED
  BY <1>1, InvInit, PTL DEF Spec

\* A session delivers nothing that nobody changed in its container, whatever the listing,
\* the overlay, the installs and the user's edits on the host.
THEOREM OnlyTheToolsWorkCorrect == Spec => []OnlyTheToolsWork
<1>1. WorkspaceInv => OnlyTheToolsWork
  BY DEF WorkspaceInv, DiffInv
<1>2. QED
  BY <1>1, InvAlways, PTL

\* Where the listing of the branch did not fail, neither the host's files nor a copy replaces
\* what a resumed session has of the branch.
THEOREM BranchWinsCorrect == Spec => []BranchWins
<1>1. WorkspaceInv => BranchWins
  BY DEF WorkspaceInv, BranchInv, BranchWins
<1>2. QED
  BY <1>1, InvAlways, PTL

\* In every resumed session a copy is as the last one left it, or in an older form when that
\* one did not save it, except for what was named again without a source and what a resume
\* killed before its merge had not taken over.
THEOREM CopiesSurviveCorrect == Spec => []CopiesSurvive
<1>1. WorkspaceInv => CopiesSurvive
  BY DEF WorkspaceInv, CopyInv
<1>2. QED
  BY <1>1, InvAlways, PTL

\* Excluded files and links whose target is out of their source are in no session's
\* workspace unless somebody put them there, nor are other links that lead out in a create's.
THEOREM ExcludedStaysOutCorrect == Spec => []ExcludedStaysOut
<1>1. WorkspaceInv => ExcludedStaysOut
  <2> SUFFICES ASSUME WorkspaceInv, pc \in {"session", "deliver"},
                      NEW f \in Unwanted \cap Of(work)
               PROVE  f \in touched \cup given \cup Of(archive) \cup Locks \cup Of(exported)
    BY DEF ExcludedStaysOut, Unwanted
  <2>1. f \in Files /\ Excused(f)
    BY DEF WorkspaceInv, ExcludeInv, Of
  <2>2. QED
    BY <2>1 DEF Excused, Arrived, Of
<1>2. QED
  BY <1>1, InvAlways, PTL
=============================================================================
