-------------------------- MODULE ApplyBranchProofs --------------------------
(***************************************************************************)
(* For all files, values and trees, and any number of sessions, edits and   *)
(* commands: the types hold, a report names only what the current branch    *)
(* has, and the squash without the baseline commits no staged work of the   *)
(* user's.                                                                  *)
(***************************************************************************)
EXTENDS ApplyBranch, TLAPS

\* The tree after any number of the branch's commits is a tree.
LEMMA TreeType ==
    ASSUME branch \in Seq(Trees) PROVE \A i \in 0..Len(branch) : Tree(i) \in Trees
BY ApplyAssumption DEF Tree

\* So is the branch's tip.
LEMMA TipType ==
    ASSUME branch \in Seq(Trees) PROVE Tip \in Trees
BY TreeType DEF Tip

\* A branch with commits has a positive number of them.
LEMMA NotEmpty ==
    ASSUME branch \in Seq(Trees), branch # <<>> PROVE Len(branch) \in Nat \ {0}
OBVIOUS

\* A three-way merge of trees is a tree.
LEMMA MergeType ==
    ASSUME host \in Trees, NEW base \in Trees, NEW theirs \in Trees
    PROVE  Merge(base, theirs) \in Trees
BY DEF Merge, Trees

\* A patch is a set of edits of files.
LEMMA PatchType ==
    ASSUME NEW from \in Trees, NEW to \in Trees
    PROVE  Patch(from, to) \in SUBSET (Files \X Values \X Values)
BY DEF Patch, Trees

-----------------------------------------------------------------------------
(***************************************************************************)
(* Type correctness.                                                        *)
(***************************************************************************)
\* A baseline is a commit, a command has something to apply, and the squash that leaves the
\* baseline out has one and only sessions to apply.
Founded ==
    /\ baseline => branch # <<>>
    /\ pc # "idle" => branch # <<>>
    /\ pc \in {"index", "diff"} => baseline /\ todo \subseteq Sessions

PendingType == [kind : {"none", "pick", "empty", "merge", "squash"}, base : Trees,
                theirs : Trees, commit : 0..Len(branch), range : SUBSET Indices]

\* A half-done operation is of the pending kinds.
LEMMA HalfType ==
    ASSUME NEW kind \in {"none", "pick", "empty", "merge", "squash"}, NEW base \in Trees,
           NEW theirs \in Trees, NEW commit \in 0..Len(branch), NEW range \in SUBSET Indices
    PROVE  Half(kind, base, theirs, commit, range) \in PendingType
BY DEF Half, PendingType

\* So is having none.
LEMMA NothingType ==
    ASSUME branch \in Seq(Trees) PROVE Nothing \in PendingType
BY ApplyAssumption DEF Nothing, PendingType

\* A fresh repository has its types.
LEMMA TypeInit == Init => TypeOK /\ Founded
<1> SUFFICES ASSUME Init PROVE TypeOK /\ Founded
  OBVIOUS
<1>1. branch \in Seq(Trees) /\ Len(branch) = 0
  BY DEF Init
<1>2. pending \in PendingType
  BY <1>1, NothingType DEF Init
<1>3. asked \in [mode : Modes, session : 0..MaxCommits, include : BOOLEAN]
  BY ApplyAssumption DEF Init, Modes
<1>4. cherry \in [succeeded : BOOLEAN, unapplied : SUBSET Indices]
  BY DEF Init
<1>5. branch \in Seq(Trees) /\ Len(branch) <= MaxCommits /\ Founded
  BY <1>1, ApplyAssumption DEF Init, Founded
<1>6. recorded \subseteq Sessions /\ host \in Trees
  BY ApplyAssumption DEF Init
<1>7. /\ patches \subseteq SUBSET (Files \X Values \X Values)
      /\ merged \in 0..Len(branch) /\ at \in 0..Len(branch)
  BY <1>1 DEF Init
<1>8. /\ baseline \in BOOLEAN /\ exists \in BOOLEAN /\ raced \in BOOLEAN
      /\ squashed \subseteq Indices /\ todo \subseteq Indices
      /\ applied \subseteq Indices /\ skipped \subseteq Indices
  BY DEF Init
<1>9. /\ mine \in {"none", "staged", "committed", "swept"}
      /\ pc \in Pcs /\ outcome \in Outcomes
      /\ edits \in 0..MaxEdits /\ runs \in 0..MaxRuns
  BY ApplyAssumption DEF Init, Pcs, Outcomes
<1>10. QED
  BY <1>2, <1>3, <1>4, <1>5, <1>6, <1>7, <1>8, <1>9 DEF TypeOK, PendingType

\* A new commit on the branch keeps the types, though the indices grow.
LEMMA CommitOnBranchType == TypeOK /\ Founded /\ CommitOnBranch => TypeOK' /\ Founded'
<1> SUFFICES ASSUME TypeOK, Founded, CommitOnBranch PROVE TypeOK' /\ Founded'
  OBVIOUS
<1>1. PICK f \in Files, v \in SessionValues : branch' = Append(branch, [Tip EXCEPT ![f] = v])
  BY DEF CommitOnBranch
<1>2. [Tip EXCEPT ![f] = v] \in Trees
  BY TipType, ApplyAssumption DEF TypeOK, Trees
<1>3. /\ branch' \in Seq(Trees) /\ Len(branch') = Len(branch) + 1 /\ branch' # <<>>
      /\ Len(branch) \in Nat /\ Len(branch') <= MaxCommits
  BY <1>1, <1>2, ApplyAssumption DEF TypeOK, CommitOnBranch
<1>4. Indices \subseteq Indices' /\ Sessions \subseteq Sessions'
  BY <1>3 DEF Indices, Sessions, CommitOnBranch, Founded
<1>5. pending' \in PendingType'
  BY <1>3, <1>4 DEF TypeOK, PendingType, CommitOnBranch, index
<1>6. cherry' \in [succeeded : BOOLEAN, unapplied : SUBSET Indices']
  BY <1>4 DEF TypeOK, CommitOnBranch, command
<1>7. baseline' \in BOOLEAN
  BY DEF TypeOK, CommitOnBranch
<1>8. QED
  BY <1>3, <1>4, <1>5, <1>6, <1>7
     DEF TypeOK, PendingType, Founded, CommitOnBranch, current, index, command, result,
         bounds

\* The record of a session's commit in the metadata keeps the types.
LEMMA RecordType == TypeOK /\ Founded /\ Record => TypeOK' /\ Founded'
<1> SUFFICES ASSUME TypeOK, Founded, Record PROVE TypeOK' /\ Founded'
  OBVIOUS
<1>1. Indices' = Indices /\ Sessions' = Sessions
  BY DEF Record, Indices, Sessions
<1>2. recorded' \subseteq Sessions'
  BY <1>1 DEF TypeOK, Record
<1>3. QED
  BY <1>1, <1>2 DEF TypeOK, Founded, Record, current, index, command, result, bounds

\* No other action touches the branch's commits.
LabKept == UNCHANGED <<branch, baseline>>

\* The commits are named by their positions, so the names stay while the branch does.
LEMMA SameIndices == LabKept => Indices' = Indices /\ Sessions' = Sessions
BY DEF LabKept, Indices, Sessions

\* The loss of the branch keeps the types.
LEMMA DestroyBranchType == TypeOK /\ Founded /\ DestroyBranch => TypeOK' /\ Founded'
<1> SUFFICES ASSUME TypeOK, Founded, DestroyBranch PROVE TypeOK' /\ Founded'
  OBVIOUS
<1>1. Indices' = Indices /\ Sessions' = Sessions
  BY DEF DestroyBranch, Indices, Sessions
<1>2. exists' \in BOOLEAN
  BY DEF DestroyBranch
<1>3. UNCHANGED <<branch, baseline, recorded, host, patches, merged, squashed, pending, mine, pc,
                  asked, todo, cherry, applied, skipped, outcome, at, raced, edits,
                  runs>>
  BY DEF DestroyBranch, current, index, command, result, bounds
<1>4. QED
  BY <1>1, <1>2, <1>3 DEF TypeOK, Founded

\* What the user stages keeps the types.
LEMMA UserStagesType == TypeOK /\ Founded /\ UserStages => TypeOK' /\ Founded'
<1> SUFFICES ASSUME TypeOK, Founded, UserStages PROVE TypeOK' /\ Founded'
  OBVIOUS
<1>1. raced' \in BOOLEAN
  BY DEF TypeOK, UserStages, UserActs
<1>2. QED
  BY <1>1, SameIndices DEF LabKept, TypeOK, Founded, UserStages, lab, current, command, result,
     bounds

\* So does the user's commit, which takes the index along.
LEMMA UserCommitsType == TypeOK /\ Founded /\ UserCommits => TypeOK' /\ Founded'
<1> SUFFICES ASSUME TypeOK, Founded, UserCommits PROVE TypeOK' /\ Founded'
  OBVIOUS
<1>1. raced' \in BOOLEAN
  BY DEF TypeOK, UserCommits, UserActs
<1>2. host' \in Trees
  BY ApplyAssumption DEF TypeOK, UserCommits, Trees
<1>3. patches' \subseteq SUBSET (Files \X Values \X Values)
  BY <1>2, PatchType DEF TypeOK, UserCommits
<1>4. LabKept /\ Indices' = Indices /\ Sessions' = Sessions
  BY SameIndices DEF LabKept, UserCommits, lab
<1>5. pending' \in PendingType'
  BY <1>4, NothingType DEF LabKept, TypeOK, UserCommits, PendingType
<1>6. edits' \in 0..MaxEdits /\ runs' \in 0..MaxRuns
  BY ApplyAssumption DEF TypeOK, UserCommits
<1>7. mine' \in {"none", "staged", "committed", "swept"}
  BY DEF TypeOK, UserCommits, Took
<1>8. UNCHANGED <<lab, merged, squashed, command>>
  BY DEF UserCommits
<1>9. QED
  BY <1>1, <1>2, <1>3, <1>4, <1>5, <1>6, <1>7, <1>8
     DEF TypeOK, Founded, PendingType, lab, command, result

\* So does the user's resolution of a conflict, for each kind of stop.
LEMMA ResolveType == TypeOK /\ Founded /\ Resolve => TypeOK' /\ Founded'
<1> SUFFICES ASSUME TypeOK, Founded, Resolve PROVE TypeOK' /\ Founded'
  OBVIOUS
<1>1. raced' \in BOOLEAN
  BY DEF TypeOK, Resolve, UserActs
<1>2. host' \in Trees
  BY DEF Resolve
<1>3. patches' \subseteq SUBSET (Files \X Values \X Values)
  BY <1>2, PatchType DEF TypeOK, Resolve
<1>4. LabKept /\ Indices' = Indices /\ Sessions' = Sessions
  BY SameIndices DEF LabKept, Resolve, lab
<1>5. pending' \in PendingType'
  BY <1>4, NothingType DEF LabKept, TypeOK, Resolve, PendingType
<1>6. merged' \in 0..Len(branch) /\ squashed' \subseteq Indices
  BY DEF TypeOK, Resolve
<1>8. mine' \in {"none", "staged", "committed", "swept"}
  BY DEF TypeOK, Resolve, Took
<1>9. UNCHANGED <<lab, command, bounds>>
  BY DEF Resolve
<1>10. QED
  BY <1>1, <1>2, <1>3, <1>4, <1>5, <1>6, <1>8, <1>9
     DEF TypeOK, Founded, PendingType, lab, command, result, bounds

\* So does giving up on the stopped command.
LEMMA AbandonType == TypeOK /\ Founded /\ Abandon => TypeOK' /\ Founded'
<1> SUFFICES ASSUME TypeOK, Founded, Abandon PROVE TypeOK' /\ Founded'
  OBVIOUS
<1>1. raced' \in BOOLEAN
  BY DEF TypeOK, Abandon, UserActs
<1>4. LabKept /\ Indices' = Indices /\ Sessions' = Sessions
  BY SameIndices DEF LabKept, Abandon, lab
<1>5. pending' \in PendingType'
  BY <1>4, NothingType DEF LabKept, TypeOK, Abandon, PendingType
<1>8. QED
  BY <1>1, <1>4, <1>5
     DEF LabKept, TypeOK, Founded, PendingType, Abandon, lab, current, command, result, bounds

\* A command that starts keeps the types, and has commits to apply.
LEMMA StartType == TypeOK /\ Founded /\ Start => TypeOK' /\ Founded'
<1> SUFFICES ASSUME TypeOK, Founded, Start PROVE TypeOK' /\ Founded'
  OBVIOUS
<1>1. LabKept /\ Indices' = Indices /\ Sessions' = Sessions
  BY SameIndices DEF LabKept, Start, lab
<1>2. asked' \in [mode : Modes, session : 0..MaxCommits, include : BOOLEAN]
  BY DEF Start
<1>3. Candidates(asked') \subseteq Indices
  <2>1. baseline => 1 \in Indices
    BY NotEmpty DEF TypeOK, Founded, Indices
  <2>2. recorded \subseteq Indices
    BY DEF TypeOK, Sessions
  <2>3. QED
    BY <2>1, <2>2 DEF Candidates
<1>4. todo' \subseteq Indices' /\ at' \in 0..Len(branch)
  BY <1>1, <1>3 DEF Start, Ends, TypeOK
<1>5. pc' \in Pcs /\ outcome' \in Outcomes
  BY DEF Start, Ends, Entry, Pcs, Outcomes
<1>6. cherry' \in [succeeded : BOOLEAN, unapplied : SUBSET Indices']
  BY DEF Start
<1>7. runs' \in 0..MaxRuns
  BY ApplyAssumption DEF TypeOK, Start
<1>8. TypeOK'
  BY <1>1, <1>2, <1>4, <1>5, <1>6, <1>7
     DEF LabKept, TypeOK, Start, lab, current, index
<1>9. pc' # "idle" => branch # <<>>
  <2>1. pc' # "idle" => Indices # {}
    BY <1>3 DEF Start, Ends
  <2>2. QED
    BY <2>1 DEF Indices
<1>10. pc' \in {"index", "diff"} => baseline /\ todo' \subseteq Sessions
  <2>1. SUFFICES ASSUME pc' \in {"index", "diff"} PROVE baseline /\ todo' \subseteq Sessions
    OBVIOUS
  <2>2. ExcludesBaseline(asked') /\ todo' = Candidates(asked')
    BY <2>1 DEF Start, Ends, Entry, ExcludesBaseline
  <2>3. QED
    BY <1>1, <2>2 DEF LabKept, ExcludesBaseline, Candidates, TypeOK
<1>11. QED
  BY <1>1, <1>8, <1>9, <1>10 DEF LabKept, Founded

\* The comparison by `git cherry` keeps the types.
LEMMA CherryType == TypeOK /\ Founded /\ Cherry => TypeOK' /\ Founded'
<1> SUFFICES ASSUME TypeOK, Founded, Cherry PROVE TypeOK' /\ Founded'
  OBVIOUS
<1>1. UNCHANGED <<branch, baseline>> /\ Indices' = Indices /\ Sessions' = Sessions
  BY DEF Cherry, lab, Indices, Sessions
<1>2. cherry' \in [succeeded : BOOLEAN, unapplied : SUBSET Indices]
  <2>1. {i \in Indices : exists /\ merged < i /\ PatchOf(i) \notin patches} \in SUBSET Indices
    OBVIOUS
  <2>2. exists \in BOOLEAN
    BY DEF TypeOK
  <2>3. CherrySummary \in [succeeded : BOOLEAN, unapplied : SUBSET Indices]
    BY <2>1, <2>2 DEF CherrySummary
  <2>4. [succeeded |-> FALSE, unapplied |-> {}]
           \in [succeeded : BOOLEAN, unapplied : SUBSET Indices]
    OBVIOUS
  <2>5. QED
    BY <2>3, <2>4 DEF Cherry
<1>3. UNCHANGED <<lab, current, index, asked, todo, result, raced, bounds>> /\ pc' = "pick"
      /\ pc = "cherry"
  BY DEF Cherry
<1>4. QED
  BY <1>1, <1>2, <1>3
     DEF TypeOK, Founded, lab, current, index, result, bounds, Pcs

\* A skipped candidate keeps the types.
LEMMA SkipType == TypeOK /\ Founded /\ (\E i \in todo : Skip(i)) => TypeOK' /\ Founded'
<1> SUFFICES ASSUME TypeOK, Founded, NEW i \in todo, Skip(i) PROVE TypeOK' /\ Founded'
  OBVIOUS
<1>1. UNCHANGED <<branch, baseline>> /\ Indices' = Indices /\ Sessions' = Sessions
  BY DEF Skip, lab, Indices, Sessions
<1>2. todo' \subseteq Indices /\ skipped' \subseteq Indices /\ pc = "pick"
  BY DEF Skip, TypeOK
<1>3. UNCHANGED <<lab, current, index, pc, asked, cherry, applied, outcome, at, raced, bounds>>
  BY DEF Skip
<1>4. QED
  BY <1>1, <1>2, <1>3 DEF TypeOK, Founded, lab, current, index, bounds

\* A candidate that is picked keeps the types.
LEMMA PickType == TypeOK /\ Founded /\ (\E i \in todo : Pick(i)) => TypeOK' /\ Founded'
<1> SUFFICES ASSUME TypeOK, Founded, NEW i \in todo, Pick(i) PROVE TypeOK' /\ Founded'
  OBVIOUS
<1>1. LabKept /\ Indices' = Indices /\ Sessions' = Sessions
  BY SameIndices DEF LabKept, Pick, lab
<1>2. todo' \subseteq Indices /\ applied' \subseteq Indices /\ pc = "pick"
  BY DEF Pick, TypeOK
<1>3. Tree(i - 1) \in Trees /\ Tree(i) \in Trees
  BY TreeType DEF TypeOK, Indices
<1>4. host' \in Trees
  BY <1>3, MergeType DEF Pick, TypeOK
<1>5. patches' \subseteq SUBSET (Files \X Values \X Values)
  BY <1>4, PatchType DEF Pick, TypeOK
<1>6. pending' \in PendingType'
  BY <1>1, NothingType DEF LabKept, Pick, TypeOK, PendingType
<1>7. UNCHANGED <<lab, merged, squashed, mine, pc, asked, cherry, skipped, outcome, at, raced,
                  bounds>>
  BY DEF Pick
<1>8. QED
  BY <1>1, <1>2, <1>4, <1>5, <1>6, <1>7
     DEF TypeOK, Founded, PendingType, lab, bounds

\* So does one that conflicts or turns out empty.
LEMMA PickStopsType == TypeOK /\ Founded /\ (\E i \in todo : PickStops(i)) => TypeOK' /\ Founded'
<1> SUFFICES ASSUME TypeOK, Founded, NEW i \in todo, PickStops(i) PROVE TypeOK' /\ Founded'
  OBVIOUS
<1>1. LabKept /\ Indices' = Indices /\ Sessions' = Sessions
  BY SameIndices DEF LabKept, PickStops, lab
<1>2. pc' = "idle" /\ outcome' = "conflict" /\ at' \in 0..Len(branch)
  BY DEF PickStops, Ends, TypeOK, Indices
<1>3. Tree(i - 1) \in Trees /\ Tree(i) \in Trees /\ Fork \in Trees /\ i \in 0..Len(branch)
  BY TreeType, ApplyAssumption DEF TypeOK, Indices
<1>4. pending' \in PendingType
  <2>1. CASE pending' = Half("pick", Tree(i - 1), Tree(i), i, {})
    BY <1>3, <2>1, HalfType
  <2>2. CASE pending' = Half("empty", Fork, Fork, i, {})
    BY <1>3, <2>2, HalfType
  <2>3. CASE UNCHANGED pending
    BY <2>3 DEF TypeOK, PendingType
  <2>4. QED
    BY <2>1, <2>2, <2>3 DEF PickStops
<1>5. UNCHANGED <<lab, current, mine, asked, todo, cherry, applied, skipped, raced, bounds>>
  BY DEF PickStops
<1>6. QED
  BY <1>1, <1>2, <1>4, <1>5
     DEF LabKept, TypeOK, Founded, PendingType, Pcs, Outcomes, lab, current, bounds

\* The report after the last pick keeps the types.
LEMMA PicksDoneType == TypeOK /\ Founded /\ PicksDone => TypeOK' /\ Founded'
<1> SUFFICES ASSUME TypeOK, Founded, PicksDone PROVE TypeOK' /\ Founded'
  OBVIOUS
<1>1. UNCHANGED <<branch, baseline>> /\ Indices' = Indices /\ Sessions' = Sessions
  BY DEF PicksDone, lab, Indices, Sessions
<1>2. pc' = "idle" /\ outcome' = "ok" /\ at' = 0
  BY DEF PicksDone, Ends
<1>3. at' \in 0..Len(branch)
  BY <1>2 DEF TypeOK
<1>4. UNCHANGED <<lab, current, index, asked, todo, cherry, applied, skipped, raced, bounds>>
  BY DEF PicksDone
<1>5. QED
  BY <1>1, <1>2, <1>3, <1>4
     DEF TypeOK, Founded, Pcs, Outcomes, lab, current, index, bounds

\* The gate on the user's index keeps the types.
LEMMA CheckIndexType == TypeOK /\ Founded /\ CheckIndex => TypeOK' /\ Founded'
<1> SUFFICES ASSUME TypeOK, Founded, CheckIndex PROVE TypeOK' /\ Founded'
  OBVIOUS
<1>1. UNCHANGED <<branch, baseline>> /\ Indices' = Indices /\ Sessions' = Sessions
  BY DEF CheckIndex, lab, Indices, Sessions
<1>2. pc = "index" /\ pc' \in {"idle", "diff"} /\ outcome' \in Outcomes
  BY DEF CheckIndex, Ends, Outcomes, TypeOK
<1>3. at' \in 0..Len(branch)
  BY DEF CheckIndex, Ends, TypeOK
<1>4. UNCHANGED <<lab, current, index, asked, todo, cherry, applied, skipped, raced, bounds>>
  BY DEF CheckIndex
<1>5. QED
  BY <1>1, <1>2, <1>3, <1>4
     DEF TypeOK, Founded, Pcs, lab, current, index, bounds

\* Staging the difference from a base to the tip keeps the types of what it writes.
LEMMA StageType ==
    ASSUME TypeOK, NEW base \in Trees, NEW range \in SUBSET Indices, Stage(base, range)
    PROVE  pending' \in PendingType /\ squashed' \subseteq Indices
<1>1. Tip \in Trees /\ 0 \in 0..Len(branch)
  BY TipType DEF TypeOK
<1>2. QED
  BY <1>1, HalfType, NothingType DEF Stage, TypeOK

\* The squash of the sessions alone keeps the types.
LEMMA ApplyDiffType == TypeOK /\ Founded /\ ApplyDiff => TypeOK' /\ Founded'
<1> SUFFICES ASSUME TypeOK, Founded, ApplyDiff PROVE TypeOK' /\ Founded'
  OBVIOUS
<1>1. LabKept /\ Indices' = Indices /\ Sessions' = Sessions
  BY SameIndices DEF LabKept, ApplyDiff, lab
<1>2. pc = "diff" /\ pc' \in {"idle", "commit"} /\ outcome' \in Outcomes
  BY DEF ApplyDiff, Ends, Outcomes, TypeOK
<1>3. at' \in 0..Len(branch)
  BY DEF ApplyDiff, Ends, TypeOK
<1>4. pending' \in PendingType /\ squashed' \subseteq Indices
  <2>1. Tree(1) \in Trees
    BY <1>2, NotEmpty, TreeType DEF Founded, TypeOK
  <2>2. CASE Stage(Tree(1), Indices \ {1})
    BY <2>1, <2>2, StageType
  <2>3. CASE UNCHANGED <<pending, squashed>>
    BY <2>3 DEF TypeOK, PendingType
  <2>4. QED
    BY <2>2, <2>3 DEF ApplyDiff
<1>5. UNCHANGED <<lab, host, patches, merged, mine, asked, todo, cherry, applied, skipped,
                  raced, bounds>>
  BY DEF ApplyDiff
<1>6. QED
  BY <1>1, <1>2, <1>3, <1>4, <1>5
     DEF LabKept, TypeOK, Founded, PendingType, Pcs, lab, bounds

\* The merge of the branch keeps the types.
LEMMA MergeCommitType == TypeOK /\ Founded /\ MergeCommit => TypeOK' /\ Founded'
<1> SUFFICES ASSUME TypeOK, Founded, MergeCommit PROVE TypeOK' /\ Founded'
  OBVIOUS
<1>1. UNCHANGED <<branch, baseline>> /\ Indices' = Indices /\ Sessions' = Sessions
  BY DEF MergeCommit, lab, Indices, Sessions
<1>2. pc' = "idle" /\ outcome' = "ok" /\ at' \in 0..Len(branch)
  BY DEF MergeCommit, Ends, TypeOK
<1>3. Tree(merged) \in Trees /\ Tip \in Trees
  BY TreeType, TipType DEF TypeOK
<1>4. host' \in Trees
  BY <1>3, MergeType DEF MergeCommit, TypeOK
<1>5. merged' \in 0..Len(branch) /\ applied' \subseteq Indices /\ todo' \subseteq Indices
  BY DEF MergeCommit, TypeOK
<1>6. UNCHANGED <<lab, patches, squashed, index, asked, cherry, skipped, raced, bounds>>
  BY DEF MergeCommit
<1>7. QED
  BY <1>1, <1>2, <1>4, <1>5, <1>6
     DEF TypeOK, Founded, Pcs, Outcomes, lab, index, bounds

\* The squash of the whole branch keeps the types.
LEMMA MergeSquashType == TypeOK /\ Founded /\ MergeSquash => TypeOK' /\ Founded'
<1> SUFFICES ASSUME TypeOK, Founded, MergeSquash PROVE TypeOK' /\ Founded'
  OBVIOUS
<1>1. LabKept /\ Indices' = Indices /\ Sessions' = Sessions
  BY SameIndices DEF LabKept, MergeSquash, lab
<1>2. pc = "merge" /\ pc' = "commit"
  BY DEF MergeSquash
<1>3. pending' \in PendingType /\ squashed' \subseteq Indices
  <2>1. Tree(merged) \in Trees
    BY TreeType DEF TypeOK
  <2>2. CASE Stage(Tree(merged), Indices)
    BY <2>1, <2>2, StageType
  <2>3. CASE UNCHANGED <<pending, squashed>>
    BY <2>3 DEF TypeOK, PendingType
  <2>4. QED
    BY <2>2, <2>3 DEF MergeSquash
<1>4. UNCHANGED <<lab, host, patches, merged, mine, asked, todo, cherry, result, raced, bounds>>
  BY DEF MergeSquash
<1>5. QED
  BY <1>1, <1>2, <1>3, <1>4
     DEF LabKept, TypeOK, Founded, PendingType, Pcs, lab, result, bounds

\* A merge that conflicts keeps the types.
LEMMA MergeStopsType == TypeOK /\ Founded /\ MergeStops => TypeOK' /\ Founded'
<1> SUFFICES ASSUME TypeOK, Founded, MergeStops PROVE TypeOK' /\ Founded'
  OBVIOUS
<1>1. LabKept /\ Indices' = Indices /\ Sessions' = Sessions
  BY SameIndices DEF LabKept, MergeStops, lab
<1>2. pc' = "idle" /\ outcome' = "conflict" /\ at' \in 0..Len(branch)
  BY DEF MergeStops, Ends, TypeOK
<1>3. Tree(merged) \in Trees /\ Tip \in Trees /\ Len(branch) \in 0..Len(branch)
  BY TreeType, TipType DEF TypeOK
<1>4. pending' \in PendingType
  BY <1>3, HalfType DEF MergeStops, TypeOK, PendingType
<1>5. UNCHANGED <<lab, current, mine, asked, todo, cherry, applied, skipped, raced, bounds>>
  BY DEF MergeStops
<1>6. QED
  BY <1>1, <1>2, <1>4, <1>5
     DEF LabKept, TypeOK, Founded, PendingType, Pcs, Outcomes, lab, current, bounds

\* The commit of the squash keeps the types.
LEMMA CommitSquashType == TypeOK /\ Founded /\ CommitSquash => TypeOK' /\ Founded'
<1> SUFFICES ASSUME TypeOK, Founded, CommitSquash PROVE TypeOK' /\ Founded'
  OBVIOUS
<1>1. LabKept /\ Indices' = Indices /\ Sessions' = Sessions
  BY SameIndices DEF LabKept, CommitSquash, lab
<1>2. pc' = "idle" /\ outcome' = "ok" /\ at' \in 0..Len(branch)
  BY DEF CommitSquash, Ends, TypeOK
<1>3. host' \in Trees
  BY MergeType DEF CommitSquash, Staged, TypeOK
<1>4. patches' \subseteq SUBSET (Files \X Values \X Values)
  BY <1>3, PatchType DEF CommitSquash, TypeOK
<1>5. pending' \in PendingType'
  BY <1>1, NothingType DEF LabKept, CommitSquash, TypeOK, PendingType
<1>6. squashed' \subseteq Indices /\ applied' \subseteq Indices /\ todo' \subseteq Indices
  BY DEF CommitSquash, TypeOK
<1>7. mine' \in {"none", "staged", "committed", "swept"}
  BY DEF CommitSquash, TypeOK
<1>8. UNCHANGED <<lab, merged, asked, cherry, skipped, raced, bounds>>
  BY DEF CommitSquash
<1>9. QED
  BY <1>1, <1>2, <1>3, <1>4, <1>5, <1>6, <1>7, <1>8
     DEF TypeOK, Founded, PendingType, Pcs, Outcomes, lab, bounds

\* So does the commit that fails.
LEMMA CommitFailsType == TypeOK /\ Founded /\ CommitFails => TypeOK' /\ Founded'
<1> SUFFICES ASSUME TypeOK, Founded, CommitFails PROVE TypeOK' /\ Founded'
  OBVIOUS
<1>1. UNCHANGED <<branch, baseline>> /\ Indices' = Indices /\ Sessions' = Sessions
  BY DEF CommitFails, lab, Indices, Sessions
<1>2. pc' = "idle" /\ outcome' = "conflict" /\ at' = 0
  BY DEF CommitFails, Ends
<1>3. at' \in 0..Len(branch)
  BY <1>2 DEF TypeOK
<1>4. UNCHANGED <<lab, current, index, asked, todo, cherry, applied, skipped, raced, bounds>>
  BY DEF CommitFails
<1>5. QED
  BY <1>1, <1>2, <1>3, <1>4
     DEF TypeOK, Founded, Pcs, Outcomes, lab, current, index, bounds

\* The types are of the variables alone.
LEMMA TypeStutter == TypeOK /\ Founded /\ UNCHANGED vars => TypeOK' /\ Founded'
<1> SUFFICES ASSUME TypeOK, Founded, UNCHANGED vars PROVE TypeOK' /\ Founded'
  OBVIOUS
<1>1. Indices' = Indices /\ Sessions' = Sessions
  BY DEF vars, lab, Indices, Sessions
<1>2. QED
  BY <1>1 DEF TypeOK, Founded, vars, lab, current, index, command, result, bounds

\* Every action keeps the types and Founded.
LEMMA TypeNext == TypeOK /\ Founded /\ [Next]_vars => TypeOK' /\ Founded'
BY CommitOnBranchType, RecordType, DestroyBranchType, UserStagesType, UserCommitsType,
   ResolveType, AbandonType, StartType, CherryType, SkipType, PickType, PickStopsType,
   PicksDoneType, CheckIndexType, ApplyDiffType, MergeCommitType, MergeSquashType,
   MergeStopsType, CommitSquashType, CommitFailsType, TypeStutter
   DEF Next, Apply, Others

\* The types and Founded hold always.
LEMMA TypeInvariant == Spec => [](TypeOK /\ Founded)
BY TypeInit, TypeNext, PTL DEF Spec

\* Every value the commands, the index and the branches take is one of its kind.
THEOREM TypeCorrect == Spec => []TypeOK
BY TypeInvariant, PTL

-----------------------------------------------------------------------------
(***************************************************************************)
(* What the report says is there.                                           *)
(***************************************************************************)
There(i) == PatchOf(i) \in patches \/ i <= merged \/ i \in squashed

\* A merge stopped by a conflict is of commits after those merged.
MergeAhead == pending.kind = "merge" => merged <= pending.commit

\* What the summary leaves out is there; a candidate keeps its commit when others follow.
SummaryHolds == cherry.succeeded => \A i \in todo : i \in cherry.unapplied \/ There(i)

\* What a squash is about to report is there or in the index.
SquashHolds ==
    pc = "commit" /\ ~raced =>
        \A i \in todo : There(i) \/ (pending.kind = "squash" /\ i \in pending.range)

\* A commit changes one file.
OneFile == \A i \in Indices : \E f \in Files, v \in Values :
               Tree(i) = [Tree(i - 1) EXCEPT ![f] = v]

ReportInv == MergeAhead /\ SummaryHolds /\ SquashHolds /\ OneFile /\ ReportIsTrue

\* The patchlab branch only grows, by a commit of one file at its tip.
LEMMA BranchGrows ==
    TypeOK /\ [Next]_vars =>
        \/ branch' = branch
        \/ \E f \in Files, v \in Values : branch' = Append(branch, [Tip EXCEPT ![f] = v])
<1> SUFFICES ASSUME TypeOK, [Next]_vars, branch' # branch
             PROVE  \E f \in Files, v \in Values : branch' = Append(branch, [Tip EXCEPT ![f] = v])
  OBVIOUS
<1>1. CommitOnBranch
  BY DEF Next, Apply, Others, vars, lab, Record, DestroyBranch, UserStages, UserCommits,
     Resolve, Abandon, Start, Cherry, Skip, Pick, PickStops, PicksDone, CheckIndex, ApplyDiff,
     MergeCommit, MergeSquash, MergeStops, CommitSquash, CommitFails
<1>2. QED
  BY <1>1, ApplyAssumption DEF CommitOnBranch

\* So it gets longer by at most one commit.
LEMMA LengthGrows ==
    ASSUME TypeOK, [Next]_vars
    PROVE  Len(branch) \in Nat /\ Len(branch') \in {Len(branch), Len(branch) + 1}
<1>1. branch \in Seq(Trees)
  BY DEF TypeOK
<1>2. CASE branch' = branch
  BY <1>1, <1>2
<1>3. CASE \E f \in Files, v \in Values : branch' = Append(branch, [Tip EXCEPT ![f] = v])
  <2>1. PICK f \in Files, v \in Values : branch' = Append(branch, [Tip EXCEPT ![f] = v])
    BY <1>3
  <2>2. [Tip EXCEPT ![f] = v] \in Trees
    BY <1>1, TipType DEF Trees
  <2>3. QED
    BY <1>1, <2>1, <2>2
<1>4. QED
  BY <1>2, <1>3, BranchGrows

\* What the branch holds does not change: neither the trees nor the patches of its commits.
LEMMA TreesKept ==
    ASSUME TypeOK, [Next]_vars
    PROVE  /\ \A i \in 0..Len(branch) : Tree(i)' = Tree(i)
           /\ \A i \in Indices : PatchOf(i)' = PatchOf(i)
<1>1. \A i \in 0..Len(branch) : Tree(i)' = Tree(i)
  <2>1. CASE branch' = branch
    BY <2>1 DEF Tree
  <2>2. CASE \E f \in Files, v \in Values : branch' = Append(branch, [Tip EXCEPT ![f] = v])
    BY <2>2 DEF Tree, TypeOK
  <2>3. QED
    BY <2>1, <2>2, BranchGrows
<1>2. ASSUME NEW i \in Indices PROVE PatchOf(i)' = PatchOf(i)
  <2>1. i \in 0..Len(branch) /\ i - 1 \in 0..Len(branch)
    BY DEF Indices, TypeOK
  <2>2. Tree(i)' = Tree(i) /\ Tree(i - 1)' = Tree(i - 1)
    BY <1>1, <2>1
  <2>3. QED
    BY <2>2 DEF PatchOf, Patch
<1>3. QED
  BY <1>1, <1>2

\* What has landed on the host stays landed, in each of the three ways a commit lands.
LEMMA LandedKept ==
    ASSUME TypeOK, MergeAhead, [Next]_vars
    PROVE  patches \subseteq patches' /\ merged <= merged' /\ squashed \subseteq squashed'
BY DEF TypeOK, MergeAhead, Next, Apply, Others, vars, current, CommitOnBranch, Record,
   DestroyBranch, UserStages, UserCommits, Resolve, Abandon, Start, Cherry, Skip, Pick,
   PickStops, PicksDone, CheckIndex, ApplyDiff, Stage, MergeCommit, MergeSquash, MergeStops,
   CommitSquash, CommitFails

\* So a commit that is there stays there.
LEMMA ThereStays ==
    ASSUME TypeOK, TypeOK', MergeAhead, [Next]_vars
    PROVE  \A i \in Indices : There(i) => There(i)'
<1> SUFFICES ASSUME NEW i \in Indices, There(i) PROVE There(i)'
  OBVIOUS
<1>2. PatchOf(i)' = PatchOf(i)
  BY TreesKept
<1>3. CASE PatchOf(i) \in patches
  BY <1>2, <1>3, LandedKept DEF There
<1>4. CASE i \in squashed
  BY <1>4, LandedKept DEF There
<1>5. CASE i <= merged
  <2>1. i \in Int /\ merged \in Int /\ merged' \in Int
    BY DEF TypeOK, Indices
  <2>2. merged <= merged'
    BY LandedKept
  <2>3. QED
    BY <1>5, <2>1, <2>2 DEF There
<1>6. QED
  BY <1>3, <1>4, <1>5 DEF There

\* Every action keeps MergeAhead.
LEMMA MergeAheadNext ==
    ASSUME TypeOK, MergeAhead, [Next]_vars PROVE MergeAhead'
BY DEF TypeOK, MergeAhead, Half, Nothing, MayMerge, Next, Apply, Others, vars, lab, current,
   index, command, result, CommitOnBranch, Record, DestroyBranch, UserStages, UserCommits,
   Resolve, Abandon, Start, Cherry, Skip, Pick, PickStops, PicksDone, CheckIndex, ApplyDiff,
   Stage, MergeCommit, MergeSquash, MergeStops, CommitSquash, CommitFails

\* Every action keeps OneFile.
LEMMA OneFileNext ==
    ASSUME TypeOK, OneFile, [Next]_vars PROVE OneFile'
<1> SUFFICES ASSUME NEW i \in Indices'
             PROVE  \E f \in Files, v \in Values : Tree(i)' = [Tree(i - 1)' EXCEPT ![f] = v]
  BY DEF OneFile
<1>1. CASE i \in Indices
  <2>1. i \in 0..Len(branch) /\ i - 1 \in 0..Len(branch)
    BY <1>1 DEF Indices, TypeOK
  <2>2. Tree(i)' = Tree(i) /\ Tree(i - 1)' = Tree(i - 1)
    BY <2>1, TreesKept
  <2>3. QED
    BY <1>1, <2>2 DEF OneFile
<1>2. CASE i \notin Indices
  <2>1. PICK f \in Files, v \in Values : branch' = Append(branch, [Tip EXCEPT ![f] = v])
    BY <1>2, BranchGrows DEF Indices
  <2>2. i = Len(branch) + 1 /\ Len(branch) \in Nat
    BY <1>2, <2>1 DEF Indices, TypeOK
  <2>3. Tree(i)' = [Tip EXCEPT ![f] = v]
    BY <2>1, <2>2 DEF Tree, TypeOK
  <2>4. Tree(i - 1)' = Tip
    <3>1. i - 1 = Len(branch) /\ i - 1 \in 0..Len(branch)
      BY <2>2
    <3>2. Tree(i - 1)' = Tree(i - 1)
      BY <3>1, TreesKept
    <3>3. QED
      BY <3>1, <3>2 DEF Tip
  <2>5. QED
    BY <2>3, <2>4
<1>3. QED
  BY <1>1, <1>2

\* All steps but these leave the summary alone and take no candidate up.
SummaryKept == cherry' = cherry /\ todo' \subseteq todo

\* Every action keeps what the summary of `git cherry` left out on the host.
LEMMA SummaryNext ==
    ASSUME TypeOK, TypeOK', MergeAhead, SummaryHolds, [Next]_vars PROVE SummaryHolds'
<1>1. CASE Start
  BY <1>1 DEF Start, SummaryHolds
<1>2. CASE Cherry
  <2>1. UNCHANGED <<branch, patches, merged, squashed, todo>>
    BY <1>2 DEF Cherry, lab, current
  <2>2. CASE cherry' = CherrySummary
    <3>1. SUFFICES ASSUME cherry'.succeeded, NEW i \in todo, ~There(i)
                   PROVE  i \in cherry'.unapplied
      BY <2>1, <1>2, ThereStays DEF SummaryHolds, TypeOK
    <3>2. exists /\ i \in Indices /\ ~(i <= merged) /\ PatchOf(i) \notin patches
      BY <2>2, <3>1 DEF CherrySummary, There, TypeOK
    <3>3. merged < i
      BY <3>2 DEF TypeOK, Indices
    <3>4. QED
      BY <2>2, <3>2, <3>3 DEF CherrySummary
  <2>3. CASE cherry' = [succeeded |-> FALSE, unapplied |-> {}]
    BY <2>3 DEF SummaryHolds
  <2>4. QED
    BY <1>2, <2>2, <2>3 DEF Cherry
<1>3. ASSUME SummaryKept PROVE SummaryHolds'
  BY <1>3, ThereStays DEF SummaryKept, SummaryHolds, TypeOK
<1>4. CASE ~Start /\ ~Cherry
  <2>1. SummaryKept
    BY <1>4 DEF SummaryKept, Next, Apply, Others, vars, command, CommitOnBranch, Record,
       DestroyBranch, UserStages, UserCommits, Resolve, Abandon, Skip, Pick, PickStops,
       PicksDone, CheckIndex, ApplyDiff, MergeCommit, MergeSquash, MergeStops, CommitSquash,
       CommitFails
  <2>2. QED
    BY <1>3, <2>1
<1>5. QED
  BY <1>1, <1>2, <1>4

\* Staging puts in the index, or finds on the current branch, what it covers.
LEMMA StageCovers ==
    ASSUME TypeOK, NEW base, NEW range \in SUBSET Indices, Stage(base, range)
    PROVE  \A i \in range : i \in squashed' \/ (pending'.kind = "squash" /\ i \in pending'.range)
BY DEF Stage, Half

\* Every action keeps what a squash is about to report there or in the index.
LEMMA SquashNext ==
    ASSUME TypeOK, TypeOK', Founded, MergeAhead, SquashHolds, [Next]_vars PROVE SquashHolds'
<1> SUFFICES ASSUME pc' = "commit", ~raced', NEW i \in todo'
             PROVE  There(i)' \/ (pending'.kind = "squash" /\ i \in pending'.range)
  BY DEF SquashHolds
<1>1. CASE ApplyDiff
  <2>1. Stage(Tree(1), Indices \ {1}) /\ todo' = todo
    BY <1>1 DEF ApplyDiff, Ends
  <2>2. i \in Indices \ {1}
    BY <1>1, <2>1 DEF ApplyDiff, Founded, Sessions, TypeOK
  <2>3. Indices \ {1} \in SUBSET Indices
    OBVIOUS
  <2>4. QED
    BY <2>1, <2>2, <2>3, StageCovers DEF There
<1>2. CASE MergeSquash
  <2>1. todo' = todo /\ i \in Indices /\ UNCHANGED <<branch, merged>>
    BY <1>2 DEF MergeSquash, TypeOK, lab
  <2>2. CASE UpToDate
    <3>1. i <= merged
      BY <2>1, <2>2 DEF UpToDate, TypeOK, Indices
    <3>2. QED
      BY <2>1, <3>1 DEF There
  <2>3. CASE Stage(Tree(merged), Indices)
    <3>1. Indices \in SUBSET Indices
      OBVIOUS
    <3>2. QED
      BY <2>1, <2>3, <3>1, StageCovers DEF There
  <2>4. QED
    BY <1>2, <2>2, <2>3 DEF MergeSquash
<1>3. CASE ~ApplyDiff /\ ~MergeSquash
  <2>1. CASE CommitOnBranch \/ Record \/ DestroyBranch \/ UNCHANGED vars
    BY <2>1, ThereStays DEF SquashHolds, CommitOnBranch, Record, DestroyBranch, vars, command,
       index, TypeOK
  <2>2. CASE UserStages \/ UserCommits \/ Resolve \/ Abandon
    BY <2>2 DEF UserStages, UserCommits, Resolve, Abandon, UserActs, command, TypeOK
  <2>3. CASE Apply
    BY <1>3, <2>3 DEF Apply, Start, Entry, Ends, Cherry, Skip, Pick, PickStops, PicksDone,
       CheckIndex, MergeCommit, MergeStops, CommitSquash, CommitFails
  <2>4. QED
    BY <2>1, <2>2, <2>3 DEF Next, Others
<1>4. QED
  BY <1>1, <1>2, <1>3

\* A pick that goes through lands exactly the commit's patch.
LEMMA PickLands ==
    ASSUME TypeOK, OneFile, NEW i \in todo, Pick(i) PROVE PatchOf(i) \in patches'
<1>1. PICK f \in Files, v \in Values : Tree(i) = [Tree(i - 1) EXCEPT ![f] = v]
  BY DEF OneFile, TypeOK
<1>2. Tree(i - 1) \in Trees /\ Tree(i) \in Trees /\ host \in Trees
  BY TreeType DEF TypeOK, Indices
<1>3. host' = Merge(Tree(i - 1), Tree(i)) /\ host' # host /\ Clean(Tree(i - 1), Tree(i))
  BY DEF Pick
<1>4. \A g \in Files : g # f => Tree(i)[g] = Tree(i - 1)[g] /\ host'[g] = host[g]
  BY <1>1, <1>2, <1>3 DEF Merge, Trees
<1>5. Tree(i)[f] # Tree(i - 1)[f] /\ host'[f] = Tree(i)[f] /\ host[f] = Tree(i - 1)[f]
  <2>1. host'[f] # host[f]
    <3>1. SUFFICES ASSUME host'[f] = host[f] PROVE host' = host
      BY <1>3
    <3>2. \A g \in Files : host'[g] = host[g]
      BY <1>4, <3>1
    <3>3. host' \in Trees
      BY <1>2, <1>3, MergeType
    <3>4. QED
      BY <1>2, <3>2, <3>3 DEF Trees
  <2>2. QED
    BY <1>2, <1>3, <2>1 DEF Merge, Clean, Trees
<1>6. Patch(host, host') = PatchOf(i)
  <2>1. {g \in Files : host[g] # host'[g]} = {g \in Files : Tree(i - 1)[g] # Tree(i)[g]}
    BY <1>4, <1>5
  <2>2. \A g \in {h \in Files : host[h] # host'[h]} :
           <<g, host[g], host'[g]>> = <<g, Tree(i - 1)[g], Tree(i)[g]>>
    BY <1>4, <1>5
  <2>3. QED
    BY <2>1, <2>2 DEF Patch, PatchOf
<1>7. QED
  BY <1>6 DEF Pick

\* So what a command reports as applied is there.
LEMMA ReportNext ==
    ASSUME TypeOK, TypeOK', Founded, ReportInv, [Next]_vars PROVE ReportIsTrue'
<1> USE DEF ReportInv
<1>0. \A i \in Indices : There(i) => There(i)'
  BY ThereStays
<1>1. ReportIsTrue <=> (raced \/ \A i \in applied \cup skipped : There(i))
  BY DEF ReportIsTrue, There
<1>2. ReportIsTrue' <=> (raced' \/ \A i \in applied' \cup skipped' : There(i)')
  BY DEF ReportIsTrue, There
<1>3. CASE Start
  BY <1>2, <1>3 DEF Start
<1>4. CASE \E i \in todo : Skip(i)
  <2>1. PICK i \in todo : Skip(i)
    BY <1>4
  <2>2. There(i)
    BY <2>1 DEF Skip, AlreadyApplied, SummaryHolds
  <2>3. QED
    BY <1>0, <1>1, <1>2, <2>1, <2>2 DEF Skip, TypeOK
<1>5. CASE \E i \in todo : Pick(i)
  <2>1. PICK i \in todo : Pick(i)
    BY <1>5
  <2>2. There(i)'
    <3>1. PatchOf(i)' = PatchOf(i)
      BY TreesKept DEF TypeOK
    <3>2. QED
      BY <2>1, <3>1, PickLands DEF There
  <2>3. QED
    BY <1>0, <1>1, <1>2, <2>1, <2>2 DEF Pick, TypeOK
<1>6. CASE MergeCommit
  <2>1. \A i \in todo : There(i)'
    BY <1>6 DEF MergeCommit, There, TypeOK, Indices
  <2>2. QED
    BY <1>0, <1>1, <1>2, <1>6, <2>1 DEF MergeCommit, TypeOK
<1>7. CASE CommitSquash
  <2>1. ~raced => \A i \in todo : There(i)'
    <3>1. SUFFICES ASSUME ~raced, NEW i \in todo PROVE There(i)'
      OBVIOUS
    <3>2. There(i) \/ i \in pending.range
      BY <1>7, <3>1 DEF CommitSquash, SquashHolds
    <3>3. CASE There(i)
      BY <1>0, <3>3 DEF TypeOK
    <3>4. CASE i \in pending.range
      BY <1>7, <3>4 DEF CommitSquash, There
    <3>5. QED
      BY <3>2, <3>3, <3>4
  <2>2. QED
    BY <1>0, <1>1, <1>2, <1>7, <2>1 DEF CommitSquash, TypeOK
<1>8. CASE /\ applied' = applied /\ skipped' = skipped
           /\ raced => raced'
  BY <1>0, <1>1, <1>2, <1>8 DEF TypeOK
<1>9. CASE /\ ~Start /\ ~MergeCommit /\ ~CommitSquash
           /\ \A i \in todo : ~Skip(i) /\ ~Pick(i)
  <2>1. applied' = applied /\ skipped' = skipped /\ (raced => raced')
    <3>1. CASE Others
      BY <3>1 DEF Others, command, result, CommitOnBranch, Record, DestroyBranch,
         UserStages, UserCommits, Resolve, Abandon, UserActs, TypeOK
    <3>2. CASE Apply
      BY <1>9, <3>2 DEF Apply, result, Cherry, PickStops, PicksDone, CheckIndex,
         ApplyDiff, MergeSquash, MergeStops, CommitFails
    <3>3. CASE UNCHANGED vars
      BY <3>3 DEF vars, command, result
    <3>4. QED
      BY <3>1, <3>2, <3>3 DEF Next
  <2>2. QED
    BY <1>8, <2>1
<1>10. QED
  BY <1>3, <1>4, <1>5, <1>6, <1>7, <1>9

\* Whatever a command that nobody disturbed reports as applied or as already applied has its
\* patch on the current branch, or came in with a merge or a squash.
THEOREM ReportsAreTrue == Spec => []ReportIsTrue
<1>1. Init => ReportInv
  BY DEF Init, ReportInv, MergeAhead, Nothing, SummaryHolds, SquashHolds, OneFile, Indices,
     ReportIsTrue
<1>2. (TypeOK /\ Founded) /\ (TypeOK /\ Founded)' /\ ReportInv /\ [Next]_vars => ReportInv'
  BY MergeAheadNext, SummaryNext, SquashNext, OneFileNext, ReportNext DEF ReportInv
<1>3. ReportInv => ReportIsTrue
  BY DEF ReportInv
<1>4. QED
  BY <1>1, <1>2, <1>3, TypeInvariant, PTL DEF Spec

-----------------------------------------------------------------------------
(***************************************************************************)
(* The user's staged work, and the baseline's edits.                        *)
(***************************************************************************)
Untouched(f) == \A i \in Sessions : Tree(i)[f] = Tree(i - 1)[f]

\* Only a command asked to include the baseline merges a branch that has one, and the others
\* have only sessions to apply.
AskedHolds ==
    /\ pc = "merge" /\ baseline => asked.include
    /\ pc # "idle" /\ ~asked.include => todo \subseteq Sessions

\* After the gate nothing of the user's is staged, unless the user has acted since.
GateHolds == pc \in {"diff", "commit"} /\ ExcludesBaseline(asked) /\ ~raced => mine # "staged"

\* A file no session changes is what the baseline made it, and the squash that leaves the
\* baseline out does not change it.
BaselineHolds ==
    baseline => \A f \in Files : Untouched(f) => \A i \in Sessions : Tree(i)[f] = Tree(1)[f]
SquashSpares ==
    pc = "commit" /\ baseline /\ ~asked.include /\ pending.kind = "squash" =>
        \A f \in Files : Untouched(f) => pending.base[f] = pending.theirs[f]

KeptInv == AskedHolds /\ GateHolds /\ BaselineHolds /\ SquashSpares

\* A branch with commits gets no baseline while a command runs.
LEMMA BaselineFixed ==
    ASSUME TypeOK, Founded, pc # "idle", [Next]_vars PROVE baseline' = baseline
BY DEF TypeOK, Founded, Next, Apply, Others, vars, lab, CommitOnBranch, Record, DestroyBranch,
   UserStages, UserCommits, Resolve, Abandon, Start, Cherry, Skip, Pick, PickStops, PicksDone,
   CheckIndex, ApplyDiff, MergeCommit, MergeSquash, MergeStops, CommitSquash, CommitFails

\* Sessions only come after those there are.
LEMMA SessionsGrow ==
    ASSUME TypeOK, Founded, [Next]_vars, branch # <<>>
    PROVE  Sessions \subseteq Sessions' /\ baseline' = baseline
<1>1. CASE CommitOnBranch
  <2>1. baseline' = baseline
    BY <1>1 DEF CommitOnBranch
  <2>2. Len(branch') = Len(branch) + 1 /\ Len(branch) \in Nat
    BY <1>1, BranchGrows DEF TypeOK, CommitOnBranch
  <2>3. QED
    BY <2>1, <2>2 DEF Sessions, Indices
<1>2. CASE ~CommitOnBranch
  <2>1. LabKept
    BY <1>2 DEF LabKept, Next, Apply, Others, vars, lab, Record, DestroyBranch, UserStages,
       UserCommits, Resolve, Abandon, Start, Cherry, Skip, Pick, PickStops, PicksDone,
       CheckIndex, ApplyDiff, MergeCommit, MergeSquash, MergeStops, CommitSquash, CommitFails
  <2>2. QED
    BY <2>1, SameIndices DEF LabKept
<1>3. QED
  BY <1>1, <1>2

\* A file the sessions leave alone later was left alone before.
LEMMA UntouchedShrinks ==
    ASSUME TypeOK, Founded, [Next]_vars, branch # <<>>, NEW f, Untouched(f)'
    PROVE  Untouched(f)
<1> SUFFICES ASSUME NEW i \in Sessions PROVE Tree(i)[f] = Tree(i - 1)[f]
  BY DEF Untouched
<1>1. i \in 0..Len(branch) /\ i - 1 \in 0..Len(branch)
  BY DEF Sessions, Indices, TypeOK
<1>2. Tree(i)' = Tree(i) /\ Tree(i - 1)' = Tree(i - 1)
  BY <1>1, TreesKept
<1>3. i \in Sessions'
  BY SessionsGrow
<1>4. QED
  BY <1>2, <1>3 DEF Untouched

\* Every action keeps AskedHolds.
LEMMA AskedNext ==
    ASSUME TypeOK, Founded, AskedHolds, [Next]_vars PROVE AskedHolds'
<1>1. CASE Start
  <2>1. UNCHANGED <<branch, baseline>> /\ Sessions' = Sessions
    BY <1>1, SameIndices DEF LabKept, Start, lab
  <2>2. CASE pc' # "idle"
    <3>1. ~Rejected(asked') /\ todo' = Candidates(asked') /\ pc' = Entry(asked')
      BY <1>1, <2>2 DEF Start, Ends
    <3>2. asked' \in [mode : Modes, session : 0..MaxCommits, include : BOOLEAN]
      BY <1>1 DEF Start
    <3>3. pc' = "merge" /\ baseline => asked'.include
      BY <3>1, <3>2 DEF Rejected, Entry, ExcludesBaseline, Modes
    <3>4. ~asked'.include => todo' \subseteq Sessions
      BY <3>1 DEF Candidates, TypeOK
    <3>5. QED
      BY <2>1, <3>3, <3>4 DEF AskedHolds
  <2>3. QED
    BY <2>2 DEF AskedHolds
<1>2. CASE ~Start
  <2>1. asked' = asked /\ todo' \subseteq todo /\ (pc' # "idle" => pc # "idle")
    BY <1>2 DEF Next, Apply, Others, vars, command, CommitOnBranch, Record, DestroyBranch,
       UserStages, UserCommits, Resolve, Abandon, Cherry, Skip, Pick, PickStops, PicksDone,
       CheckIndex, ApplyDiff, MergeCommit, MergeSquash, MergeStops, CommitSquash, CommitFails,
       Ends
  <2>2. pc' = "merge" => pc = "merge"
    BY <1>2 DEF Next, Apply, Others, vars, command, CommitOnBranch, Record, DestroyBranch,
       UserStages, UserCommits, Resolve, Abandon, Cherry, Skip, Pick, PickStops, PicksDone,
       CheckIndex, ApplyDiff, MergeCommit, MergeSquash, MergeStops, CommitSquash, CommitFails,
       Ends
  <2>3. pc' # "idle" => baseline' = baseline /\ Sessions \subseteq Sessions'
    BY <2>1, SessionsGrow DEF Founded
  <2>4. QED
    BY <2>1, <2>2, <2>3 DEF AskedHolds
<1>3. QED
  BY <1>1, <1>2

\* Every action keeps the index empty of the user's work after the gate.
LEMMA GateNext ==
    ASSUME TypeOK, Founded, AskedHolds, GateHolds, [Next]_vars PROVE GateHolds'
<1> SUFFICES ASSUME pc' \in {"diff", "commit"}, ExcludesBaseline(asked)', ~raced'
             PROVE  mine' # "staged"
  BY DEF GateHolds
<1>1. CASE Others \/ UNCHANGED vars
  <2>1. pc' = pc /\ asked' = asked
    BY <1>1 DEF Others, vars, command, CommitOnBranch, Record, DestroyBranch, UserStages,
       UserCommits, Resolve, Abandon
  <2>2. baseline' = baseline
    BY <2>1, BaselineFixed
  <2>3. ~raced /\ mine' = mine
    BY <1>1, <2>1 DEF Others, vars, index, CommitOnBranch, Record, DestroyBranch,
       UserStages, UserCommits, Resolve, Abandon, UserActs, TypeOK
  <2>4. QED
    BY <2>1, <2>2, <2>3 DEF GateHolds, ExcludesBaseline
<1>2. CASE CheckIndex
  BY <1>2 DEF CheckIndex, Ends, IndexClean, index
<1>3. CASE ApplyDiff
  BY <1>3 DEF ApplyDiff, lab, GateHolds, ExcludesBaseline
<1>4. CASE MergeSquash
  BY <1>4 DEF MergeSquash, lab, AskedHolds, ExcludesBaseline
<1>5. CASE Apply /\ ~CheckIndex /\ ~ApplyDiff /\ ~MergeSquash
  BY <1>5 DEF Apply, Start, Entry, Ends, Cherry, Skip, Pick, PickStops, PicksDone, MergeCommit,
     MergeStops, CommitSquash, CommitFails
<1>6. QED
  BY <1>1, <1>2, <1>3, <1>4, <1>5 DEF Next

\* Every action keeps what the baseline made of the files no session changes.
LEMMA BaselineNext ==
    ASSUME TypeOK, TypeOK', Founded, BaselineHolds, [Next]_vars PROVE BaselineHolds'
<1> SUFFICES ASSUME baseline', NEW f \in Files, Untouched(f)', NEW i \in Sessions'
             PROVE  Tree(i)'[f] = Tree(1)'[f]
  BY DEF BaselineHolds
<1>0. \A j \in 0..Len(branch) : Tree(j)' = Tree(j)
  BY TreesKept
<1>1. i \in 1..Len(branch') /\ i > 1
  BY DEF Sessions, Indices
<1>2. branch # <<>>
  <2>1. SUFFICES ASSUME branch = <<>> PROVE Len(branch') <= 1
    BY <1>1
  <2>2. Len(branch) = 0
    BY <2>1
  <2>3. QED
    BY <2>2, LengthGrows
<1>3. baseline /\ Untouched(f) /\ Len(branch) \in Nat \ {0}
  BY <1>2, SessionsGrow, UntouchedShrinks, NotEmpty DEF TypeOK
<1>4. \A j \in 1..Len(branch) : Tree(j)[f] = Tree(1)[f] /\ Tree(j)' = Tree(j)
  <2>1. SUFFICES ASSUME NEW j \in 1..Len(branch)
                 PROVE  Tree(j)[f] = Tree(1)[f] /\ Tree(j)' = Tree(j)
    OBVIOUS
  <2>2. Tree(j)' = Tree(j)
    <3>1. j \in 0..Len(branch)
      BY <1>3
    <3>2. QED
      BY <1>0, <3>1
  <2>3. CASE j = 1
    BY <2>2, <2>3
  <2>4. CASE j # 1
    <3>1. j \in Sessions
      BY <1>3, <2>4 DEF Sessions, Indices
    <3>2. QED
      BY <1>3, <2>2, <3>1 DEF BaselineHolds
  <2>5. QED
    BY <2>3, <2>4
<1>5. CASE i \in 1..Len(branch)
  BY <1>3, <1>4, <1>5
<1>6. CASE i \notin 1..Len(branch)
  <2>1. i - 1 = Len(branch)
    BY <1>1, <1>3, <1>6, LengthGrows
  <2>2. i - 1 \in 1..Len(branch) /\ 1 \in 1..Len(branch)
    BY <1>3, <2>1
  <2>3. Tree(i)'[f] = Tree(i - 1)'[f]
    BY DEF Untouched
  <2>4. Tree(i - 1)'[f] = Tree(1)'[f]
    BY <1>4, <2>2
  <2>5. QED
    BY <2>3, <2>4
<1>7. QED
  BY <1>5, <1>6

\* Every action keeps those files out of the squash that leaves the baseline out.
LEMMA SquashSparesNext ==
    ASSUME TypeOK, Founded, AskedHolds, BaselineHolds, SquashSpares, [Next]_vars
    PROVE  SquashSpares'
<1> SUFFICES ASSUME pc' = "commit", baseline', ~asked'.include, pending'.kind = "squash",
                    NEW f \in Files, Untouched(f)'
             PROVE  pending'.base[f] = pending'.theirs[f]
  BY DEF SquashSpares
<1>1. CASE Others \/ UNCHANGED vars
  <2>1. pc = "commit" /\ asked' = asked /\ (pending' = pending \/ pending' = Nothing)
    BY <1>1 DEF Others, vars, command, index, CommitOnBranch, Record, DestroyBranch, UserStages,
       UserCommits, Resolve, Abandon
  <2>2. branch # <<>> /\ baseline
    BY <2>1, BaselineFixed DEF Founded
  <2>3. Untouched(f)
    BY <2>2, UntouchedShrinks
  <2>4. Nothing.kind = "none"
    BY DEF Nothing
  <2>5. pending' = pending
    BY <2>1, <2>4
  <2>6. QED
    BY <2>1, <2>2, <2>3, <2>5 DEF SquashSpares
<1>2. CASE ApplyDiff
  <2>1. baseline /\ branch # <<>> /\ Untouched(f)
    BY <1>2, UntouchedShrinks DEF ApplyDiff, Founded
  <2>2. Len(branch) \in Nat \ {0}
    BY <2>1, NotEmpty DEF TypeOK
  <2>3. Tip[f] = Tree(1)[f]
    <3>1. CASE Len(branch) = 1
      BY <3>1 DEF Tip
    <3>2. CASE Len(branch) # 1
      <4>1. Len(branch) \in 1..Len(branch) /\ Len(branch) > 1
        <5>1. \A n \in Nat \ {0} : n # 1 => n \in 1..n /\ n > 1
          OBVIOUS
        <5>2. QED
          BY <2>2, <3>2, <5>1
      <4>2. Len(branch) \in Sessions
        BY <4>1 DEF Sessions, Indices
      <4>3. QED
        BY <2>1, <4>2 DEF BaselineHolds, Tip
    <3>3. QED
      BY <3>1, <3>2
  <2>4. pending' = Half("squash", Tree(1), Tip, 0, Indices \ {1})
    BY <1>2 DEF ApplyDiff, Ends, Stage, Nothing
  <2>5. QED
    BY <2>3, <2>4 DEF Half
<1>3. CASE MergeSquash
  BY <1>3 DEF MergeSquash, lab, AskedHolds
<1>4. CASE Apply /\ ~ApplyDiff /\ ~MergeSquash
  BY <1>4 DEF Apply, Start, Entry, Ends, Cherry, Skip, Pick, PickStops, PicksDone, CheckIndex,
     MergeCommit, MergeStops, CommitSquash, CommitFails
<1>5. QED
  BY <1>1, <1>2, <1>3, <1>4 DEF Next

\* The four hold always, whatever the order of commands and the user's own work.
LEMMA KeptInvariant == Spec => [](TypeOK /\ Founded /\ KeptInv)
<1>1. Init => KeptInv
  BY DEF Init, KeptInv, AskedHolds, GateHolds, BaselineHolds, SquashSpares
<1>2. (TypeOK /\ Founded) /\ (TypeOK /\ Founded)' /\ KeptInv /\ [Next]_vars => KeptInv'
  BY AskedNext, GateNext, BaselineNext, SquashSparesNext DEF KeptInv
<1>3. QED
  BY <1>1, <1>2, TypeInvariant, PTL DEF Spec

\* The squash that leaves the baseline out never commits what the user had staged before it,
\* unless the user acts while it runs.
THEOREM StagedWorkSafe == Spec => StagedWorkIsKept
<1>1. TypeOK /\ Founded /\ KeptInv /\ [Next]_vars =>
        [mine = "staged" /\ mine' = "swept" => raced \/ ~ExcludesBaseline(asked)]_vars
  <2>1. SUFFICES ASSUME KeptInv, Next, mine = "staged", mine' = "swept"
                 PROVE  raced \/ ~ExcludesBaseline(asked)
    OBVIOUS
  <2>2. CommitSquash
    BY <2>1 DEF Next, Apply, Others, index, CommitOnBranch, Record, DestroyBranch, UserStages,
       UserCommits, Resolve, Abandon, Took, Start, Cherry, Skip, Pick, PickStops, PicksDone,
       CheckIndex, ApplyDiff, MergeCommit, MergeSquash, MergeStops, CommitFails
  <2>3. QED
    BY <2>1, <2>2 DEF KeptInv, GateHolds, CommitSquash
<1>2. QED
  BY <1>1, KeptInvariant, PTL DEF Spec, StagedWorkIsKept

\* Without --include-baseline no step of an apply changes a file that only the baseline, or
\* nothing on the patchlab branch, has changed.
THEOREM BaselineStaysOut == Spec => BaselineOnlyWhenAsked
<1>1. ASSUME TypeOK, Founded, KeptInv, Apply, baseline, pc # "idle", ~asked.include,
             NEW f \in Files, Untouched(f)
      PROVE  host'[f] = host[f]
  <2>1. CASE \E i \in todo : Pick(i)
    <3>1. PICK i \in todo : Pick(i)
      BY <2>1
    <3>2. Tree(i)[f] = Tree(i - 1)[f]
      BY <1>1, <3>1 DEF KeptInv, AskedHolds, Untouched
    <3>3. QED
      BY <3>1, <3>2 DEF Pick, Merge
  <2>2. CASE MergeCommit
    BY <1>1, <2>2 DEF MergeCommit, KeptInv, AskedHolds
  <2>3. CASE CommitSquash
    BY <1>1, <2>3 DEF CommitSquash, Staged, Merge, KeptInv, SquashSpares
  <2>4. CASE UNCHANGED host
    BY <2>4
  <2>5. QED
    BY <1>1, <2>1, <2>2, <2>3, <2>4 DEF Apply, current, Start, Cherry, Skip, PickStops,
       PicksDone, CheckIndex, ApplyDiff, MergeSquash, MergeStops, CommitFails
<1>2. TypeOK /\ Founded /\ KeptInv /\ [Next]_vars =>
        [Apply /\ baseline /\ pc # "idle" /\ ~asked.include =>
            \A f \in Files : (\A i \in Sessions : Tree(i)[f] = Tree(i - 1)[f]) =>
                host'[f] = host[f]]_vars
  BY <1>1 DEF Untouched
<1>3. QED
  BY <1>2, KeptInvariant, PTL DEF Spec, BaselineOnlyWhenAsked
=============================================================================
