------------------------- MODULE SessionCommitProofs -------------------------
(***************************************************************************)
(* For every set of repositories and changes: the session's exit is type   *)
(* correct, a completed session has delivered what its staging found, HEAD *)
(* hides no undelivered change but the late and the unmounted ones, the    *)
(* exit implements SessionOutcome, and it never goes round.                *)
(* The second and third hold when no `patchlab diff` overlaps the exit.    *)
(***************************************************************************)
EXTENDS SessionCommit, FiniteSetTheorems, TLAPS

\* Two repositories never share a fallback patch: disambiguate_repository_basenames is
\* injective as long as the digests of the canonical paths differ.
LEMMA FallbackNameInjective ==
    ASSUME NEW r \in Repos, NEW s \in Repos, FallbackName(r) = FallbackName(s)
    PROVE  r = s
<1>1. CASE Basename[r] = Basename[s]
  <2>1. SUFFICES ASSUME r # s PROVE FALSE
    OBVIOUS
  <2>2. FallbackName(r) = <<Basename[r], Canonical[r]>>
    BY <1>1, <2>1 DEF FallbackName
  <2>3. FallbackName(s) = <<Basename[s], Canonical[s]>>
    BY <1>1, <2>1 DEF FallbackName
  <2>4. Canonical[r] = Canonical[s]
    <3>1. <<Basename[r], Canonical[r]>> = <<Basename[s], Canonical[s]>>
      BY <2>2, <2>3
    <3>2. <<Basename[r], Canonical[r]>>[2] = <<Basename[s], Canonical[s]>>[2]
      BY <3>1
    <3>3. QED
      BY <3>2
  <2>5. QED
    BY <2>1, <2>4, NamesAssumption
<1>2. CASE Basename[r] # Basename[s]
  <2>1. FallbackName(r)[1] = Basename[r]
    BY DEF FallbackName
  <2>2. FallbackName(s)[1] = Basename[s]
    BY DEF FallbackName
  <2>3. QED
    BY <1>2, <2>1, <2>2
<1>3. QED
  BY <1>1, <1>2

-----------------------------------------------------------------------------
\* Every action keeps the types.
LEMMA TypeStep == TypeOK /\ [Next]_vars => TypeOK'
<1> SUFFICES ASSUME TypeOK, [Next]_vars PROVE TypeOK'
  OBVIOUS
<1> USE ReposAssumption, ChangesAssumption DEF TypeOK, Pcs, InRepo, NoRepo,
        container, host, fanout, archive, history
<1>1. CASE ToolExits
  BY <1>1 DEF ToolExits
<1>2. CASE AnswerOversized
  BY <1>2 DEF AnswerOversized
<1>3. CASE ExtractArtifacts
  BY <1>3 DEF ExtractArtifacts
<1>4. CASE StageChanges
  BY <1>4 DEF StageChanges
<1>5. CASE StageFails \/ SliceFails \/ ReadTipFails \/ CopyFallbackFails
  BY <1>5 DEF StageFails, SliceFails, ReadTipFails, CopyFallbackFails, Abort
<1>6. ASSUME NEW r \in Repos, SliceRepository(r) PROVE TypeOK'
  <2>1. StagedSlice(r) \subseteq Edits
    BY DEF StagedSlice
  <2>2. CASE StagedSlice(r) = {}
    BY <1>6, <2>2 DEF SliceRepository, AfterSlice, Decide
  <2>3. CASE StagedSlice(r) # {}
    BY <1>6, <2>1, <2>3 DEF SliceRepository, AfterSlice
  <2>4. QED
    BY <2>2, <2>3
<1>7. CASE CheckBranch
  BY <1>7 DEF CheckBranch
<1>8. CASE ReadTip
  BY <1>8 DEF ReadTip
<1>9. CASE StreamApply
  <2>1. PICK cat_ok \in BOOLEAN, apply_ok \in BOOLEAN, read \in SUBSET slice :
          \/ /\ pc' = "fallback"
             /\ UNCHANGED <<cur, tree, outcome, threw, landed>>
          \/ /\ Decide(cur, "unchanged")
             /\ landed' = [landed EXCEPT ![cur] = base]
             /\ UNCHANGED tree
          \/ /\ tree' = base \cup read
             /\ pc' = "update"
             /\ UNCHANGED <<cur, outcome, threw, landed>>
    BY <1>9 DEF StreamApply
  <2>2. /\ pc = "apply"
        /\ UNCHANGED <<container, reader, host, slice, base, lost, archive, promise>>
    BY <1>9 DEF StreamApply
  <2>3. QED
    BY <2>1, <2>2 DEF Decide
<1>10. CASE UpdateRef
  BY <1>10 DEF UpdateRef, Decide
<1>11. CASE UpdateRefFails
  BY <1>11 DEF UpdateRefFails
<1>12. CASE CopyFallback
  <2>1. FallbackName(cur) \in FallbackNames
    BY <1>12 DEF CopyFallback, FallbackNames
  <2>2. saved' \in [FallbackNames -> SUBSET Edits]
    BY <1>12, <2>1 DEF CopyFallback
  <2>3. QED
    BY <1>12, <2>2 DEF CopyFallback, Decide
<1>13. CASE AdvanceHead
  BY <1>13 DEF AdvanceHead
<1>14. CASE RecordOutcome
  BY <1>14 DEF RecordOutcome, RecordOf
<1>15. CASE FinalizeSession
  BY <1>15 DEF FinalizeSession, FinalStatus
<1>16. CASE CliKilled
  BY <1>16 DEF CliKilled
<1>17. CASE ContainerStops
  BY <1>17 DEF ContainerStops
<1>18. CASE DiffStages
  BY <1>18 DEF DiffStages
<1>19. CASE DiffResets
  BY <1>19 DEF DiffResets
<1>20. ASSUME NEW e \in Edits, EditWorkspace(e) PROVE TypeOK'
  BY <1>20 DEF EditWorkspace
<1>21. ASSUME NEW r \in Repos, BranchDeleted(r) PROVE TypeOK'
  BY <1>21 DEF BranchDeleted
<1>22. ASSUME NEW c \in HostChanges, HostCommit(c) PROVE TypeOK'
  BY <1>22 DEF HostCommit
<1>23. CASE UNCHANGED vars
  BY <1>23 DEF vars
<1>24. QED
  BY <1>1, <1>2, <1>3, <1>4, <1>5, <1>6, <1>7, <1>8, <1>9, <1>10, <1>11, <1>12, <1>13,
     <1>14, <1>15, <1>16, <1>17, <1>18, <1>19, <1>20, <1>21, <1>22, <1>23
     DEF Next, Extraction, Environment

\* The state of a session's exit always has its types, whatever the repositories are.
THEOREM TypeCorrect == Spec => []TypeOK
<1>1. Init => TypeOK
  BY ReposAssumption, ChangesAssumption
     DEF Init, TypeOK, Pcs, InRepo, NoRepo
<1>2. QED
  BY <1>1, TypeStep, PTL DEF Spec

-----------------------------------------------------------------------------
\* Deciding one repository leaves what was delivered for the others in place, because
\* its fallback patch has a name of its own.
LEMMA DecidedElsewhere ==
    ASSUME TypeOK, NEW r \in Repos, NEW d \in Repos, r # d,
           outcome'[r] = outcome[r], landed'[r] = landed[r],
           saved' = saved \/ saved' = [saved EXCEPT ![FallbackName(d)] = slice]
    PROVE  Delivered(r)' = Delivered(r)
<1>1. FallbackName(r) # FallbackName(d)
  BY FallbackNameInjective
<1>2. FallbackName(r) \in FallbackNames
  BY DEF FallbackNames
<1>3. saved'[FallbackName(r)] = saved[FallbackName(r)]
  BY <1>1, <1>2 DEF TypeOK
<1>4. QED
  BY <1>3 DEF Delivered

\* Every action keeps IInv when no `patchlab diff` overlaps the exit.
LEMMA InvStep ==
    ASSUME ~ConcurrentDiff, TypeOK, IInv, [Next]_vars
    PROVE  IInv'
<1> USE ReposAssumption, ChangesAssumption DEF IInv, StagedInv, PhaseInv, InRepo, NoRepo,
        container, host, fanout, archive, history
<1> DEFINE Quiet == UNCHANGED <<outcome, landed, saved, promise>>
<1>a. ASSUME Quiet PROVE /\ Pending' = Pending
                         /\ \A r \in Repos : Delivered(r)' = Delivered(r)
  BY <1>a DEF Pending, Delivered
<1>b. ASSUME Quiet, pc' \in {"tool", "artifacts", "stage"} => pc \in {"tool", "artifacts", "stage"}
      PROVE  DecidedInv'
  BY <1>a, <1>b DEF DecidedInv
<1>c. ASSUME Quiet, UNCHANGED <<cur, slice, tree>>, pc' \in InRepo \cup {"fanout"} => pc' = pc
      PROVE  SliceInv'
  BY <1>c DEF SliceInv, Owned
<1>d. ASSUME Quiet, pc' \notin InRepo PROVE SliceInv'
  BY <1>d DEF SliceInv
<1>1. CASE ToolExits
  <2>1. SliceInv' /\ DecidedInv'
    BY <1>1, <1>b, <1>d DEF ToolExits
  <2>2. StagedInv' /\ PhaseInv'
    BY <1>1, <1>a DEF ToolExits
  <2>3. QED
    BY <2>1, <2>2
<1>2. CASE AnswerOversized
  <2>1. SliceInv'
    BY <1>2 DEF AnswerOversized, SliceInv, Owned
  <2>2. DecidedInv'
    BY <1>2, <1>b DEF AnswerOversized
  <2>3. StagedInv' /\ PhaseInv'
    BY <1>2, <1>a DEF AnswerOversized
  <2>4. QED
    BY <2>1, <2>2, <2>3
<1>3. CASE ExtractArtifacts
  <2>1. SliceInv' /\ DecidedInv'
    BY <1>3, <1>b, <1>d DEF ExtractArtifacts
  <2>2. StagedInv' /\ PhaseInv'
    BY <1>3, <1>a DEF ExtractArtifacts
  <2>3. QED
    BY <2>1, <2>2
<1>4. CASE StageChanges
  <2>1. Pending' = Pending /\ Pending = Repos
    BY <1>4 DEF StageChanges, Pending, DecidedInv
  <2>2. DecidedInv'
    BY <1>4, <2>1 DEF StageChanges, DecidedInv
  <2>3. SliceInv'
    BY <1>4 DEF StageChanges, SliceInv
  <2>4. StagedInv' /\ PhaseInv'
    BY <1>4, <2>1 DEF StageChanges
  <2>5. QED
    BY <2>2, <2>3, <2>4
<1>5. CASE StageFails \/ SliceFails \/ ReadTipFails \/ CopyFallbackFails
  <2>1. Quiet /\ pc' = "finalize" /\ threw' /\ UNCHANGED <<container, reader, archive>>
    BY <1>5 DEF StageFails, SliceFails, ReadTipFails, CopyFallbackFails, Abort
  <2>2. pc \in InRepo \cup {"stage", "fanout"}
    BY <1>5 DEF StageFails, SliceFails, ReadTipFails, CopyFallbackFails
  <2>3. SliceInv' /\ DecidedInv'
    BY <1>b, <1>d, <2>1
  <2>4. StagedInv' /\ PhaseInv'
    BY <1>a, <2>1, <2>2
  <2>5. QED
    BY <2>3, <2>4
<1>6. ASSUME NEW r \in Repos, SliceRepository(r) PROVE IInv'
  <2>1. /\ pc = "fanout" /\ r \in Pending
        /\ promise \cap Owned(r) \subseteq StagedSlice(r)
    BY <1>6 DEF SliceRepository, StagedSlice
  <2>2. CASE StagedSlice(r) = {}
    <3>1. outcome' = [outcome EXCEPT ![r] = "unchanged"] /\ pc' = "fanout"
          /\ UNCHANGED <<landed, saved, promise, threw, head, status, container, reader>>
      BY <1>6, <2>2 DEF SliceRepository, AfterSlice, Decide
    <3>2. Pending' \subseteq Pending
      BY <3>1 DEF Pending, TypeOK
    <3>3. ASSUME NEW s \in Repos \ Pending'
          PROVE  promise' \cap Owned(s) \subseteq Delivered(s)'
      <4>1. CASE s = r
        <5>1. promise \cap Owned(s) = {}
          BY <2>1, <2>2, <4>1
        <5>2. QED
          BY <3>1, <5>1 DEF Owned
      <4>2. CASE s # r
        <5>1. Delivered(s)' = Delivered(s) /\ s \notin Pending
          BY <3>1, <3>3, <4>2, DecidedElsewhere DEF Pending, TypeOK
        <5>2. QED
          BY <3>1, <5>1 DEF DecidedInv
      <4>3. QED
        BY <4>1, <4>2
    <3>4. DecidedInv' /\ SliceInv'
      BY <3>1, <3>3 DEF DecidedInv, SliceInv, Owned
    <3>5. StagedInv' /\ PhaseInv'
      BY <2>1, <3>1, <3>2
    <3>6. QED
      BY <3>4, <3>5
  <2>3. CASE StagedSlice(r) # {}
    <3>1. /\ Quiet /\ pc' \in {"confirm", "check"} /\ cur' = r /\ slice' = StagedSlice(r)
          /\ UNCHANGED <<threw, status, container, reader>>
      BY <1>6, <2>3 DEF SliceRepository, AfterSlice
    <3>2. SliceInv'
      BY <2>1, <3>1 DEF SliceInv, Pending, Owned
    <3>3. DecidedInv'
      BY <1>b, <3>1
    <3>4. StagedInv' /\ PhaseInv'
      BY <1>a, <2>1, <3>1
    <3>5. QED
      BY <3>2, <3>3, <3>4
  <2>4. QED
    BY <2>2, <2>3
<1>7. CASE CheckBranch \/ ReadTip \/ UpdateRefFails
  <2>1. /\ Quiet /\ UNCHANGED <<cur, slice, tree, threw, status, container, reader>>
        /\ pc \in InRepo /\ pc' \in InRepo \ {"update"}
    BY <1>7 DEF CheckBranch, ReadTip, UpdateRefFails
  <2>2. SliceInv'
    BY <2>1 DEF SliceInv, Owned
  <2>3. DecidedInv'
    BY <1>b, <2>1
  <2>4. StagedInv' /\ PhaseInv'
    BY <1>a, <2>1
  <2>5. QED
    BY <2>2, <2>3, <2>4
\* A repository is decided with its slice on the branch's tree or in its patch.
<1>e. ASSUME pc \in InRepo, pc' = "fanout", NEW d \in Repos, cur = d,
             NEW o \in {"unchanged", "committed", "fallback"},
             outcome' = [outcome EXCEPT ![d] = o],
             \A r \in Repos \ {d} : landed'[r] = landed[r],
             saved' = saved \/ saved' = [saved EXCEPT ![FallbackName(d)] = slice],
             slice \subseteq Delivered(d)',
             UNCHANGED <<promise, threw, status, container, reader>>
      PROVE  IInv'
  <2>1. promise \cap Owned(d) \subseteq slice
    BY <1>e DEF SliceInv
  <2>2. Pending' \subseteq Pending
    BY <1>e DEF Pending, TypeOK
  <2>3. ASSUME NEW s \in Repos \ Pending'
        PROVE  promise' \cap Owned(s) \subseteq Delivered(s)'
    <3>1. CASE s = d
      BY <1>e, <2>1, <3>1
    <3>2. CASE s # d
      <4>1. outcome'[s] = outcome[s] /\ landed'[s] = landed[s] /\ s \notin Pending
        BY <1>e, <2>3, <3>2 DEF Pending, TypeOK
      <4>2. Delivered(s)' = Delivered(s)
        BY <1>e, <3>2, <4>1, DecidedElsewhere
      <4>3. QED
        BY <1>e, <4>1, <4>2 DEF DecidedInv
    <3>3. QED
      BY <3>1, <3>2
  <2>4. DecidedInv' /\ SliceInv'
    BY <1>e, <2>3 DEF DecidedInv, SliceInv, Owned
  <2>5. StagedInv' /\ PhaseInv'
    BY <1>e, <2>2
  <2>6. QED
    BY <2>4, <2>5
<1>9. CASE StreamApply
  <2>1. PICK cat_ok \in BOOLEAN, apply_ok \in BOOLEAN, read \in SUBSET slice :
          /\ cat_ok => running /\ read = slice
          /\ \/ /\ ~Resolves(cat_ok, apply_ok)
                /\ pc' = "fallback"
                /\ UNCHANGED <<cur, tree, outcome, threw, landed>>
             \/ /\ Resolves(cat_ok, apply_ok)
                /\ base \cup read = base
                /\ Decide(cur, "unchanged")
                /\ landed' = [landed EXCEPT ![cur] = base]
                /\ UNCHANGED tree
             \/ /\ Resolves(cat_ok, apply_ok)
                /\ tree' = base \cup read
                /\ pc' = "update"
                /\ UNCHANGED <<cur, outcome, threw, landed>>
    BY <1>9 DEF StreamApply
  <2>2. /\ pc = "apply" /\ cur \in Repos
        /\ UNCHANGED <<container, reader, slice, base, archive, promise>>
    BY <1>9 DEF StreamApply, TypeOK
  <2>3. CASE pc' = "fallback"
    <3>1. Quiet /\ UNCHANGED <<cur, slice, tree, threw>>
      BY <2>1, <2>2, <2>3 DEF Decide
    <3>2. SliceInv' /\ DecidedInv'
      BY <1>b, <2>2, <2>3, <3>1 DEF SliceInv, Owned
    <3>3. StagedInv' /\ PhaseInv'
      BY <1>a, <2>2, <2>3, <3>1
    <3>4. QED
      BY <3>2, <3>3
  <2>4. CASE pc' = "update"
    <3>1. Quiet /\ UNCHANGED <<cur, slice, threw>> /\ slice \subseteq tree'
      BY <2>1, <2>2, <2>4 DEF Decide, Resolves
    <3>2. SliceInv' /\ DecidedInv'
      BY <1>b, <2>2, <2>4, <3>1 DEF SliceInv, Owned
    <3>3. StagedInv' /\ PhaseInv'
      BY <1>a, <2>2, <2>4, <3>1
    <3>4. QED
      BY <3>2, <3>3
  <2>5. CASE pc' = "fanout"
    <3>1. /\ slice \subseteq base /\ landed' = [landed EXCEPT ![cur] = base]
          /\ outcome' = [outcome EXCEPT ![cur] = "unchanged"] /\ UNCHANGED threw
      BY <2>1, <2>5 DEF Decide, Resolves
    <3>2. PICK d \in Repos : cur = d
      BY <2>2
    <3>3. slice \subseteq Delivered(d)'
      BY <2>2, <3>1, <3>2 DEF Delivered, TypeOK
    <3>4. QED
      BY <1>e, <2>2, <2>5, <3>1, <3>2, <3>3 DEF TypeOK
  <2>6. QED
    BY <2>1, <2>3, <2>4, <2>5 DEF Decide
<1>10. CASE UpdateRef
  <2>1. PICK d \in Repos : cur = d
    BY <1>10 DEF UpdateRef, TypeOK
  <2>2. slice \subseteq Delivered(d)'
    BY <1>10, <2>1 DEF UpdateRef, SliceInv, Delivered, TypeOK
  <2>3. QED
    BY <1>10, <1>e, <2>1, <2>2 DEF UpdateRef, Decide, TypeOK
<1>12. CASE CopyFallback
  <2>1. PICK d \in Repos : cur = d
    BY <1>12 DEF CopyFallback, TypeOK
  <2>2. outcome'[d] = "fallback" /\ saved'[FallbackName(d)] = slice
    BY <1>12, <2>1 DEF CopyFallback, Decide, TypeOK, FallbackNames
  <2>3. slice \subseteq Delivered(d)'
    BY <2>2 DEF Delivered
  <2>4. QED
    BY <1>12, <1>e, <2>1, <2>3 DEF CopyFallback, Decide, TypeOK
<1>13. CASE AdvanceHead
  <2>1. SliceInv' /\ DecidedInv'
    BY <1>13, <1>b, <1>d DEF AdvanceHead
  <2>2. StagedInv' /\ PhaseInv'
    BY <1>13, <1>a DEF AdvanceHead
  <2>3. QED
    BY <2>1, <2>2
<1>14. CASE RecordOutcome
  <2>1. SliceInv' /\ DecidedInv'
    BY <1>14, <1>b, <1>d DEF RecordOutcome
  <2>2. StagedInv' /\ PhaseInv'
    BY <1>14, <1>a DEF RecordOutcome
  <2>3. QED
    BY <2>1, <2>2
<1>15. CASE FinalizeSession
  <2>1. SliceInv' /\ DecidedInv'
    BY <1>15, <1>b, <1>d DEF FinalizeSession
  <2>2. StagedInv' /\ PhaseInv'
    BY <1>15, <1>a DEF FinalizeSession, FinalStatus
  <2>3. QED
    BY <2>1, <2>2
<1>16. CASE CliKilled
  <2>1. SliceInv' /\ DecidedInv'
    BY <1>16, <1>b, <1>d DEF CliKilled
  <2>2. StagedInv' /\ PhaseInv'
    BY <1>16, <1>a DEF CliKilled
  <2>3. QED
    BY <2>1, <2>2
\* What runs beside the extraction touches neither the slice nor the decisions.
<1>17. CASE \/ ContainerStops \/ DiffStages \/ DiffResets
            \/ \E e \in Edits : EditWorkspace(e)
            \/ \E r \in Repos : BranchDeleted(r)
            \/ \E c \in HostChanges : HostCommit(c)
            \/ UNCHANGED vars
  <2>1. /\ Quiet
        /\ UNCHANGED <<pc, cur, slice, tree, outcome, threw, promise, landed, saved, status>>
    BY <1>17 DEF ContainerStops, DiffStages, DiffResets, EditWorkspace, BranchDeleted,
                 HostCommit, vars
  <2>2. SliceInv'
    BY <2>1 DEF SliceInv, Owned
  <2>3. DecidedInv'
    BY <1>a, <2>1 DEF DecidedInv
  <2>4. StagedInv'
    BY <1>17, <2>1 DEF ContainerStops, DiffStages, DiffResets, EditWorkspace, BranchDeleted,
                       HostCommit, vars
  <2>5. PhaseInv'
    BY <1>a, <1>17, <2>1 DEF ContainerStops, DiffStages, DiffResets, EditWorkspace,
                             BranchDeleted, HostCommit, vars
  <2>6. QED
    BY <2>2, <2>3, <2>4, <2>5
<1>18. QED
  BY <1>1, <1>2, <1>3, <1>4, <1>5, <1>6, <1>7, <1>9, <1>10, <1>12, <1>13, <1>14, <1>15,
     <1>16, <1>17
     DEF Next, Extraction, Environment

\* The invariant holds from the start.
LEMMA InvInit == Init => IInv
  BY ReposAssumption, ChangesAssumption
     DEF Init, IInv, StagedInv, SliceInv, DecidedInv, PhaseInv, InRepo, NoRepo, Pending

\* With no `patchlab diff` beside the exit, IInv is an invariant of the session's exit.
LEMMA Invariant == ASSUME ~ConcurrentDiff PROVE Spec => []IInv
<1>1. TypeOK /\ IInv /\ [Next]_vars => IInv'
  BY InvStep
<1>2. QED
  BY <1>1, InvInit, TypeCorrect, PTL DEF Spec

\* A session marked completed has delivered all of the tool's work, for any number of
\* repositories and whatever fails, as long as no `patchlab diff` overlaps the exit.
THEOREM CompletedDelivers ==
    ASSUME ~ConcurrentDiff PROVE Spec => []CompletedMeansDelivered
<1>1. IInv => CompletedMeansDelivered
  BY DEF IInv, DecidedInv, PhaseInv, CompletedMeansDelivered
<1>2. QED
  BY <1>1, Invariant, PTL

\* A change that the container's HEAD hides from later diffs has reached the host, under
\* the same condition, unless it was made after the staging or lies outside every mount.
THEOREM HeadIsSafe ==
    ASSUME ~ConcurrentDiff PROVE Spec => []HeadHidesOnlyLateOrUnmounted
<1>1. ASSUME TypeOK, IInv, NEW c \in head, c \in promise, Owner[c] # Unmounted
      PROVE  c \in Delivered(Owner[c])
  <2>1. Owner[c] \in Repos /\ c \in Owned(Owner[c])
    BY <1>1, ChangesAssumption DEF TypeOK, Owned
  <2>2. Owner[c] \notin Pending
    BY <1>1, <2>1 DEF IInv, PhaseInv
  <2>3. QED
    BY <1>1, <2>1, <2>2 DEF IInv, DecidedInv
<1>2. TypeOK /\ IInv => HeadHidesOnlyLateOrUnmounted
  BY <1>1 DEF HeadHidesOnlyLateOrUnmounted
<1>3. QED
  BY <1>2, Invariant, TypeCorrect, PTL

-----------------------------------------------------------------------------
\* What the refinement needs of the states, with or without concurrent diffs: the
\* repository at hand is undecided, and the record comes after the loop.
RefInv ==
    /\ PhaseInv
    /\ pc \in InRepo => outcome[cur] = "pending"

\* Every action keeps RefInv.
LEMMA RefInvStep == TypeOK /\ RefInv /\ [Next]_vars => RefInv'
<1> SUFFICES ASSUME TypeOK, RefInv, [Next]_vars PROVE RefInv'
  OBVIOUS
<1> USE ReposAssumption DEF RefInv, PhaseInv, InRepo, NoRepo, Pending,
        container, host, fanout, archive, history
<1>1. CASE \/ ToolExits \/ AnswerOversized \/ ExtractArtifacts \/ StageChanges
           \/ CheckBranch \/ ReadTip \/ UpdateRefFails
  BY <1>1 DEF ToolExits, AnswerOversized, ExtractArtifacts, StageChanges, CheckBranch,
              ReadTip, UpdateRefFails
<1>2. CASE StageFails \/ SliceFails \/ ReadTipFails \/ CopyFallbackFails
  BY <1>2 DEF StageFails, SliceFails, ReadTipFails, CopyFallbackFails, Abort
<1>3. ASSUME NEW r \in Repos, SliceRepository(r) PROVE RefInv'
  <2>1. CASE StagedSlice(r) = {}
    BY <1>3, <2>1 DEF SliceRepository, AfterSlice, Decide, TypeOK
  <2>2. CASE StagedSlice(r) # {}
    BY <1>3, <2>2 DEF SliceRepository, AfterSlice
  <2>3. QED
    BY <2>1, <2>2
<1>4. CASE StreamApply
  <2>1. /\ pc = "apply" /\ UNCHANGED <<container, archive>>
        /\ \/ pc' \in {"fallback", "update"} /\ UNCHANGED <<cur, outcome, threw>>
           \/ Decide(cur, "unchanged")
    BY <1>4 DEF StreamApply
  <2>2. QED
    BY <2>1 DEF Decide, TypeOK
<1>5. CASE UpdateRef \/ CopyFallback
  BY <1>5 DEF UpdateRef, CopyFallback, Decide, TypeOK
<1>6. CASE AdvanceHead
  BY <1>6 DEF AdvanceHead
<1>7. CASE RecordOutcome \/ FinalizeSession \/ CliKilled
  BY <1>7 DEF RecordOutcome, FinalizeSession, FinalStatus, CliKilled
<1>8. CASE \/ ContainerStops \/ DiffStages \/ DiffResets
           \/ \E e \in Edits : EditWorkspace(e)
           \/ \E r \in Repos : BranchDeleted(r)
           \/ \E c \in HostChanges : HostCommit(c)
           \/ UNCHANGED vars
  <2>1. UNCHANGED <<pc, cur, outcome, threw, status, head>>
    BY <1>8 DEF ContainerStops, DiffStages, DiffResets, EditWorkspace, BranchDeleted,
                HostCommit, vars
  <2>2. QED
    BY <2>1
<1>9. QED
  BY <1>1, <1>2, <1>3, <1>4, <1>5, <1>6, <1>7, <1>8 DEF Next, Extraction, Environment

\* Deciding the repository at hand is the abstract decision.
LEMMA DecideMaps ==
    ASSUME TypeOK, NEW d \in Repos, outcome[d] = "pending",
           NEW o \in {"unchanged", "committed", "fallback"},
           outcome' = [outcome EXCEPT ![d] = o], UNCHANGED <<recorded, status>>
    PROVE  Promise!Next
  BY DEF Promise!Next, Promise!Decide, Promise!Decided

\* Every step of the exit is a step of SessionOutcome or leaves its variables alone.
LEMMA StepMaps == TypeOK /\ RefInv /\ [Next]_vars => [Promise!Next]_(Promise!vars)
<1> SUFFICES ASSUME TypeOK, RefInv, [Next]_vars
             PROVE  Promise!Next \/ UNCHANGED <<outcome, recorded, status>>
  BY DEF Promise!vars
<1> USE DEF container, host, fanout, archive, history
<1>1. CASE \/ ToolExits \/ AnswerOversized \/ ExtractArtifacts \/ StageChanges
           \/ CheckBranch \/ ReadTip \/ UpdateRefFails \/ AdvanceHead \/ CliKilled
  BY <1>1 DEF ToolExits, AnswerOversized, ExtractArtifacts, StageChanges, CheckBranch,
              ReadTip, UpdateRefFails, AdvanceHead, CliKilled
<1>2. CASE StageFails \/ SliceFails \/ ReadTipFails \/ CopyFallbackFails
  BY <1>2 DEF StageFails, SliceFails, ReadTipFails, CopyFallbackFails, Abort
<1>3. ASSUME NEW r \in Repos, SliceRepository(r)
      PROVE  Promise!Next \/ UNCHANGED <<outcome, recorded, status>>
  <2>1. CASE StagedSlice(r) = {}
    BY <1>3, <2>1, DecideMaps DEF SliceRepository, AfterSlice, Decide, Pending
  <2>2. CASE StagedSlice(r) # {}
    BY <1>3, <2>2 DEF SliceRepository, AfterSlice
  <2>3. QED
    BY <2>1, <2>2
<1>4. CASE StreamApply
  <2>1. /\ pc = "apply" /\ UNCHANGED archive
        /\ \/ UNCHANGED outcome
           \/ outcome' = [outcome EXCEPT ![cur] = "unchanged"]
    BY <1>4 DEF StreamApply, Decide
  <2>2. cur \in Repos /\ outcome[cur] = "pending"
    BY <2>1 DEF RefInv, TypeOK, InRepo
  <2>3. QED
    BY <2>1, <2>2, DecideMaps
<1>5. CASE UpdateRef \/ CopyFallback
  <2>1. cur \in Repos /\ outcome[cur] = "pending"
    BY <1>5 DEF UpdateRef, CopyFallback, RefInv, TypeOK, InRepo
  <2>2. QED
    BY <1>5, <2>1, DecideMaps DEF UpdateRef, CopyFallback, Decide
<1>6. CASE RecordOutcome
  <2>1. \A r \in Repos : outcome[r] \in {"unchanged", "committed", "fallback"}
    BY <1>6 DEF RecordOutcome, RefInv, PhaseInv, Pending, TypeOK
  <2>2. status = "interrupted"
    BY <1>6 DEF RecordOutcome, RefInv, PhaseInv, TypeOK
  <2>3. UNCHANGED <<outcome, status>>
    BY <1>6 DEF RecordOutcome
  <2>4. CASE recorded' = [r \in Repos |-> RecordOf(outcome[r])]
    BY <2>1, <2>2, <2>3, <2>4
       DEF RecordOf, Promise!Next, Promise!Record, Promise!RecordOf, Promise!AllDecided,
           Promise!Decided
  <2>5. QED
    BY <1>6, <2>3, <2>4 DEF RecordOutcome
<1>7. CASE FinalizeSession
  <2>1. UNCHANGED <<outcome, recorded>>
    BY <1>7 DEF FinalizeSession
  <2>2. CASE status' = "completed" /\ ~threw
    <3>1. \A r \in Repos : outcome[r] \in {"unchanged", "committed", "fallback"}
      BY <1>7, <2>2 DEF FinalizeSession, RefInv, PhaseInv, Pending, TypeOK
    <3>2. QED
      BY <2>1, <2>2, <3>1
         DEF Promise!Next, Promise!Complete, Promise!AllDecided, Promise!Decided
  <2>3. CASE ~(status' = "completed" /\ ~threw)
    BY <1>7, <2>1, <2>3 DEF FinalizeSession, FinalStatus, RefInv, PhaseInv, TypeOK
  <2>4. QED
    BY <2>2, <2>3
<1>8. CASE \/ ContainerStops \/ DiffStages \/ DiffResets
           \/ \E e \in Edits : EditWorkspace(e)
           \/ \E r \in Repos : BranchDeleted(r)
           \/ \E c \in HostChanges : HostCommit(c)
           \/ UNCHANGED vars
  BY <1>8 DEF ContainerStops, DiffStages, DiffResets, EditWorkspace, BranchDeleted,
              HostCommit, vars
<1>9. QED
  BY <1>1, <1>2, <1>3, <1>4, <1>5, <1>6, <1>7, <1>8 DEF Next, Extraction, Environment

\* The exit implements SessionOutcome, even with a `patchlab diff` beside it: decided
\* once, recorded as decided, completed only when every repository is decided.
THEOREM ExitImplementsOutcome == Spec => ImplementsSessionOutcome
<1>1. Init => Promise!Init
  BY DEF Init, Promise!Init
<1>2. Init => RefInv
  BY ReposAssumption DEF Init, RefInv, PhaseInv, InRepo, Pending
<1>3. QED
  BY <1>1, <1>2, RefInvStep, StepMaps, TypeCorrect, PTL
     DEF Spec, ImplementsSessionOutcome, Promise!Spec
-----------------------------------------------------------------------------
(***************************************************************************)
(* The exit never goes round                                               *)
(***************************************************************************)
\* How far the CLI is from the end of what it is doing.  The head of the loop comes
\* after all that one repository takes.
Place ==
    CASE pc = "tool"      -> 12
      [] pc = "artifacts" -> 11
      [] pc = "stage"     -> 10
      [] pc = "fanout"    -> 9
      [] pc = "confirm"   -> 8
      [] pc = "check"     -> 7
      [] pc = "tip"       -> 6
      [] pc = "apply"     -> 5
      [] pc = "update"    -> 4
      [] pc = "fallback"  -> 3
      [] pc = "record"    -> 2
      [] pc = "finalize"  -> 1
      [] OTHER            -> 0

\* The measure: every undecided repository may still take the steps of one handling.
Rank == 13 * Cardinality(Pending) + Place

\* No step raises the measure, and each step of the CLI's own lowers it.
Descends == Rank' <= Rank /\ (Extraction => Rank' < Rank)

\* There are finitely many repositories.
LEMMA PendingFinite ==
    IsFiniteSet(Pending) /\ Cardinality(Pending) \in Nat
<1>1. Pending \in SUBSET Repos
  BY DEF Pending
<1>2. IsFiniteSet(Pending)
  BY <1>1, ReposAssumption, FS_Subset
<1>3. QED
  BY <1>2, FS_CardinalityType

\* The measure is a natural number.
LEMMA RankType == Rank \in Nat
<1>1. Place \in Nat
  BY DEF Place
<1>2. QED
  BY <1>1, PendingFinite DEF Rank

\* Deciding an undecided repository takes more off the measure than the way back to the
\* head of the loop adds.
LEMMA DecideDescends ==
    ASSUME TypeOK, NEW r \in Repos, outcome[r] = "pending",
           NEW o \in {"unchanged", "committed", "fallback"}, Decide(r, o)
    PROVE  Rank' \in Nat /\ Rank' < Rank
<1>1. Pending' = Pending \ {r} /\ r \in Pending
  BY DEF Decide, Pending, TypeOK
<1>2. Cardinality(Pending \ {r}) = Cardinality(Pending) - 1
  BY <1>1, PendingFinite, FS_RemoveElement
<1>3. Cardinality(Pending)' = Cardinality(Pending) - 1
  BY <1>1, <1>2
<1>4. Cardinality(Pending \ {r}) \in Nat
  BY PendingFinite, FS_RemoveElement, FS_CardinalityType
<1>5. Place' = 9 /\ Place \in Nat
  BY DEF Decide, Place
<1>6. QED
  BY <1>2, <1>3, <1>4, <1>5, PendingFinite DEF Rank

\* A step that decides nothing and goes on to a later place lowers the measure.
LEMMA MoveDescends ==
    ASSUME UNCHANGED outcome, Place' < Place
    PROVE  Rank' \in Nat /\ Rank' < Rank
<1>1. Pending' = Pending
  BY DEF Pending
<1>2. Cardinality(Pending)' = Cardinality(Pending)
  BY <1>1
<1>3. Place \in Nat /\ Place' \in Nat
  BY DEF Place
<1>4. QED
  BY <1>2, <1>3, PendingFinite DEF Rank

\* The steps of the CLI's own lower the measure: each goes on to a later place or decides
\* the repository at hand.
LEMMA ExtractionDescends ==
    ASSUME TypeOK, RefInv, Extraction PROVE Rank' \in Nat /\ Rank' < Rank
<1>1. CASE \/ ExtractArtifacts \/ StageChanges \/ CheckBranch \/ ReadTip
           \/ UpdateRefFails \/ AdvanceHead \/ RecordOutcome \/ FinalizeSession
  <2>1. UNCHANGED outcome /\ Place' < Place
    BY <1>1 DEF ExtractArtifacts, StageChanges, CheckBranch, ReadTip, UpdateRefFails,
                AdvanceHead, RecordOutcome, FinalizeSession, fanout, Place
  <2>2. QED
    BY <2>1, MoveDescends
<1>2. CASE StageFails \/ SliceFails \/ ReadTipFails \/ CopyFallbackFails
  <2>1. UNCHANGED outcome /\ Place' < Place
    BY <1>2 DEF StageFails, SliceFails, ReadTipFails, CopyFallbackFails, Abort, Place
  <2>2. QED
    BY <2>1, MoveDescends
<1>3. ASSUME NEW r \in Repos, SliceRepository(r) PROVE Rank' \in Nat /\ Rank' < Rank
  <2>1. CASE StagedSlice(r) = {}
    <3>1. Decide(r, "unchanged") /\ outcome[r] = "pending"
      BY <1>3, <2>1 DEF SliceRepository, AfterSlice, Pending
    <3>2. QED
      BY <3>1, DecideDescends
  <2>2. CASE StagedSlice(r) # {}
    <3>1. UNCHANGED outcome /\ Place' < Place
      BY <1>3, <2>2 DEF SliceRepository, AfterSlice, Place
    <3>2. QED
      BY <3>1, MoveDescends
  <2>3. QED
    BY <2>1, <2>2
<1>4. CASE StreamApply
  <2>1. /\ pc = "apply"
        /\ \/ pc' \in {"fallback", "update"} /\ UNCHANGED outcome
           \/ Decide(cur, "unchanged")
    BY <1>4 DEF StreamApply
  <2>2. CASE pc' \in {"fallback", "update"} /\ UNCHANGED outcome
    <3>1. Place' < Place
      BY <2>1, <2>2 DEF Place
    <3>2. QED
      BY <2>2, <3>1, MoveDescends
  <2>3. CASE Decide(cur, "unchanged")
    <3>1. cur \in Repos /\ outcome[cur] = "pending"
      BY <2>1 DEF RefInv, TypeOK, InRepo
    <3>2. QED
      BY <2>3, <3>1, DecideDescends
  <2>4. QED
    BY <2>1, <2>2, <2>3
<1>5. CASE UpdateRef \/ CopyFallback
  <2>1. cur \in Repos /\ outcome[cur] = "pending"
    BY <1>5 DEF UpdateRef, CopyFallback, RefInv, TypeOK, InRepo
  <2>2. Decide(cur, "committed") \/ Decide(cur, "fallback")
    BY <1>5 DEF UpdateRef, CopyFallback
  <2>3. QED
    BY <2>1, <2>2, DecideDescends
<1>6. QED
  BY <1>1, <1>2, <1>3, <1>4, <1>5 DEF Extraction

\* Whoever moves, the measure does not rise.
LEMMA StepDescends == TypeOK /\ RefInv /\ [Next]_vars => Descends
<1> SUFFICES ASSUME TypeOK, RefInv, [Next]_vars PROVE Descends
  OBVIOUS
<1>1. CASE Extraction
  BY <1>1, ExtractionDescends, RankType DEF Descends
<1>2. CASE ToolExits \/ AnswerOversized \/ CliKilled
  <2>1. UNCHANGED outcome /\ Place' < Place
    BY <1>2 DEF ToolExits, AnswerOversized, CliKilled, fanout, Place, TypeOK, Pcs
  <2>2. Rank' \in Nat /\ Rank' < Rank
    BY <2>1, MoveDescends
  <2>3. QED
    BY <2>2, RankType DEF Descends
<1>3. CASE \/ ContainerStops \/ DiffStages \/ DiffResets
           \/ \E e \in Edits : EditWorkspace(e)
           \/ \E r \in Repos : BranchDeleted(r)
           \/ \E c \in HostChanges : HostCommit(c)
           \/ UNCHANGED vars
  <2>1. UNCHANGED <<pc, outcome>>
    BY <1>3 DEF ContainerStops, DiffStages, DiffResets, EditWorkspace, BranchDeleted,
                HostCommit, vars, fanout
  <2>2. Rank' = Rank
    BY <2>1 DEF Rank, Place, Pending
  <2>3. CASE ~Extraction
    BY <2>2, <2>3, RankType DEF Descends
  <2>4. QED
    BY <1>1, <2>3
<1>4. QED
  BY <1>1, <1>2, <1>3 DEF Next, Environment

\* The exit never goes round: the measure is a natural number that no step of anyone
\* raises and every step of the CLI's own lowers.  So the loop of session_commit.ts
\* handles no repository twice and takes finitely many steps, whatever fails in it and
\* whatever the container and the user do beside it.
THEOREM ExitDescends == Spec => [](Rank \in Nat) /\ [][Descends]_vars
<1>1. Init => RefInv
  BY ReposAssumption DEF Init, RefInv, PhaseInv, InRepo, Pending
<1>2. QED
  BY <1>1, RankType, RefInvStep, StepDescends, TypeCorrect, PTL DEF Spec
=============================================================================
