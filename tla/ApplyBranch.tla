----------------------------- MODULE ApplyBranch -----------------------------
(***************************************************************************)
(* `patchlab apply`: the session commits of a patchlab branch land on the   *)
(* current branch of one host repository (src/branch/apply.ts), one command *)
(* after the other.  Beside it sessions exit and put commits on the         *)
(* patchlab branch, and the user edits, stages, resolves conflicts and may  *)
(* destroy the patchlab.  Git works on trees: a tree gives every file a     *)
(* value, a commit is the tree it makes of its parent's; one commit changes *)
(* one file.                                                                *)
(***************************************************************************)
EXTENDS Integers, Sequences, FiniteSets

CONSTANTS
    Files, Values,
    Fork,           \* the tree of the commit the patchlab branch was made at
    SessionValues,  \* the values sessions write, and those the user writes
    UserValues,
    MaxCommits,     \* the commits the patchlab branch may get
    MaxEdits,       \* the commits of their own the user makes
    MaxRuns         \* the apply commands

Trees == [Files -> Values]

ASSUME ApplyAssumption ==
    /\ Fork \in Trees
    /\ SessionValues \subseteq Values /\ UserValues \subseteq Values
    /\ MaxCommits \in Nat /\ MaxEdits \in Nat /\ MaxRuns \in Nat

VARIABLES
    \* the patchlab branch: its commits' trees, whether the first is a baseline commit,
    \* which are in the session metadata, whether the branch still exists
    branch, baseline, recorded, exists,
    \* the current branch: its tree, the patches of its commits since the fork, the last
    \* patchlab commit it has merged, and those squash commits have carried in
    host, patches, merged, squashed,
    \* what a command left half done (a conflict, an empty cherry-pick, a squash that is not
    \* committed), and the user's own staged work, in a file no session touches
    pending, mine,
    \* the command: its step, arguments, remaining candidates, cherry summary and result
    pc, asked, todo, cherry, applied, skipped, outcome, at,
    \* history: whether the user acted during the command
    raced,
    edits, runs

lab     == <<branch, baseline, recorded, exists>>
current == <<host, patches, merged, squashed>>
result  == <<applied, skipped, outcome, at>>
command == <<pc, asked, todo, cherry, result>>
index   == <<pending, mine>>
bounds  == <<edits, runs>>
vars == <<lab, current, index, command, raced, bounds>>

Modes    == {"cherry-pick", "merge-commit", "merge-squash"}
Pcs      == {"idle", "cherry", "pick", "index", "diff", "merge", "commit"}
Outcomes == {"none", "ok", "conflict", "nothing", "refused"}

Indices   == 1..Len(branch)
Tree(i)   == IF i = 0 THEN Fork ELSE branch[i]
Tip       == Tree(Len(branch))
Ahead     == patches # {} \/ merged # 0  \* HEAD has left the fork

\* The patch from one tree to another is what `git cherry` compares by its id.
Patch(from, to) == {<<f, from[f], to[f]>> : f \in {g \in Files : from[g] # to[g]}}
PatchOf(i)      == Patch(Tree(i - 1), Tree(i))

\* Git's three-way merge, of `git cherry-pick`, `git merge` and `git apply --3way`.
Clean(base, theirs) == \A f \in Files : \/ base[f] = theirs[f]
                                        \/ host[f] \in {base[f], theirs[f]}
Merge(base, theirs) == [f \in Files |-> IF base[f] = theirs[f] THEN host[f] ELSE theirs[f]]

Nothing == [kind |-> "none", base |-> Fork, theirs |-> Fork, commit |-> 0, range |-> {}]
Half(kind, base, theirs, commit, range) ==
    [kind |-> kind, base |-> base, theirs |-> theirs, commit |-> commit, range |-> range]
IndexClean == pending.kind \in {"none", "empty"} /\ mine # "staged"

Init ==
    /\ branch = <<>> /\ baseline = FALSE /\ recorded = {} /\ exists = TRUE
    /\ host = Fork /\ patches = {} /\ merged = 0 /\ squashed = {}
    /\ pending = Nothing /\ mine = "none"
    /\ pc = "idle" /\ todo = {}
    /\ asked = [mode |-> "cherry-pick", session |-> 0, include |-> FALSE]
    /\ cherry = [succeeded |-> FALSE, unapplied |-> {}]
    /\ applied = {} /\ skipped = {} /\ outcome = "none" /\ at = 0
    /\ raced = FALSE /\ edits = 0 /\ runs = 0

-----------------------------------------------------------------------------
(***************************************************************************)
(* The sessions and the user                                                *)
(***************************************************************************)
\* A create of a dirty tree makes a baseline commit, every exit with work a commit; the
\* commit is on the branch before the metadata names it, which a kill may prevent.
CommitOnBranch ==
    /\ exists /\ Len(branch) < MaxCommits
    /\ \E f \in Files, v \in SessionValues :
          v # Tip[f] /\ branch' = Append(branch, [Tip EXCEPT ![f] = v])
    /\ baseline' \in IF branch = <<>> THEN BOOLEAN ELSE {baseline}
    /\ UNCHANGED <<recorded, exists, current, index, command, raced, bounds>>

Sessions == {i \in Indices : baseline => i > 1}

Record ==
    /\ \E i \in Sessions \ recorded : recorded' = recorded \cup {i}
    /\ UNCHANGED <<branch, baseline, exists, current, index, command, raced, bounds>>

DestroyBranch ==
    /\ exists /\ exists' = FALSE
    /\ UNCHANGED <<branch, baseline, recorded, current, index, command, raced, bounds>>

UserActs == raced' = (raced \/ pc # "idle")

UserStages ==
    /\ mine = "none" /\ mine' = "staged"
    /\ UserActs
    /\ UNCHANGED <<lab, current, pending, command, bounds>>

\* A commit takes along what the user has staged.
Took == IF mine = "staged" THEN "committed" ELSE mine

UserCommits ==
    /\ edits < MaxEdits /\ pending.kind \in {"none", "empty"} /\ pending' = Nothing
    /\ \E f \in Files, v \in UserValues :
          v # host[f] /\ host' = [host EXCEPT ![f] = v]
    /\ patches' = patches \cup {Patch(host, host')}
    /\ mine' = Took /\ edits' = edits + 1
    /\ UserActs
    /\ UNCHANGED <<lab, merged, squashed, command, runs>>

\* The user completes what a command left half way, with any value where it conflicts.
Resolve ==
    /\ pending.kind \in {"pick", "merge", "squash"}
    /\ host' \in Trees /\ host' # host
    /\ \A f \in Files : Merge(pending.base, pending.theirs)[f] # host'[f] =>
          pending.base[f] # pending.theirs[f]
             /\ host[f] \notin {pending.base[f], pending.theirs[f]}
    /\ pending' = Nothing /\ mine' = Took
    /\ merged' = IF pending.kind = "merge" THEN pending.commit ELSE merged
    /\ squashed' = IF pending.kind = "squash" THEN squashed \cup pending.range ELSE squashed
    /\ patches' = IF pending.kind = "merge" THEN patches
                                             ELSE patches \cup {Patch(host, host')}
    /\ UserActs
    /\ UNCHANGED <<lab, command, bounds>>

Abandon ==
    /\ pending.kind # "none" /\ pending' = Nothing
    /\ UserActs
    /\ UNCHANGED <<lab, current, mine, command, bounds>>

-----------------------------------------------------------------------------
(***************************************************************************)
(* apply_patchlab_branch: the checks and the candidates                     *)
(***************************************************************************)
\* Mutant: merging the whole branch does not need --include-baseline.
RejectsSessionOnly(a) == a.mode # "cherry-pick" /\ a.session # 0

\* reject_unsupported_merge_combinations
Rejected(a) ==
    /\ a.mode # "cherry-pick"
    /\ a.session # 0 \/ (a.mode = "merge-commit" /\ ~a.include /\ baseline)

\* collect_apply_candidates, from the metadata; --session may name a session without one.
Candidates(a) ==
    {i \in recorded : a.session \in {0, i}}
       \cup (IF a.include /\ baseline THEN {1} ELSE {})

ExcludesBaseline(a) == a.mode = "merge-squash" /\ ~a.include /\ baseline

Entry(a) == IF a.mode = "cherry-pick" THEN "cherry"
            ELSE IF ExcludesBaseline(a) THEN "index" ELSE "merge"

Ends(o, i) == pc' = "idle" /\ outcome' = o /\ at' = i

Start ==
    /\ pc = "idle" /\ runs < MaxRuns /\ runs' = runs + 1
    /\ asked' \in [mode : Modes, session : 0..MaxCommits, include : BOOLEAN]
    /\ raced' = FALSE /\ applied' = {} /\ skipped' = {}
    /\ cherry' = [succeeded |-> FALSE, unapplied |-> {}]
    /\ IF ~exists \/ Rejected(asked')
       THEN Ends("refused", 0) /\ todo' = {}
       ELSE /\ todo' = Candidates(asked')
            /\ IF todo' = {} THEN Ends("nothing", 0)
               ELSE pc' = Entry(asked') /\ outcome' = "none" /\ at' = 0
    /\ UNCHANGED <<lab, current, index, edits>>

(***************************************************************************)
(* cherry_pick_candidates                                                   *)
(***************************************************************************)
\* compute_cherry_summary, once and before the loop; without a summary nothing is skipped.
CherrySummary ==
    [succeeded |-> exists,
     unapplied |-> {i \in Indices : exists /\ merged < i /\ PatchOf(i) \notin patches}]

Cherry ==
    /\ pc = "cherry" /\ pc' = "pick"
    /\ cherry' \in {CherrySummary, [succeeded |-> FALSE, unapplied |-> {}]}
    /\ UNCHANGED <<lab, current, index, asked, todo, result, raced, bounds>>

IsNext(i) == i \in todo /\ \A j \in todo : i <= j

\* Mutant: a summary that failed has no unapplied commit either.
NotInSummary(i) == i \notin cherry.unapplied

AlreadyApplied(i) == cherry.succeeded /\ i \notin cherry.unapplied

Skip(i) ==
    /\ pc = "pick" /\ IsNext(i) /\ AlreadyApplied(i)
    /\ skipped' = skipped \cup {i} /\ todo' = todo \ {i}
    /\ UNCHANGED <<lab, current, index, pc, asked, cherry, applied, outcome, at, raced,
                   bounds>>

Pick(i) ==
    /\ pc = "pick" /\ IsNext(i) /\ ~AlreadyApplied(i)
    /\ IndexClean /\ Clean(Tree(i - 1), Tree(i))
    /\ host' = Merge(Tree(i - 1), Tree(i)) /\ host' # host
    /\ patches' = patches \cup {Patch(host, host')} /\ pending' = Nothing
    /\ applied' = applied \cup {i} /\ todo' = todo \ {i}
    /\ UNCHANGED <<lab, merged, squashed, mine, pc, asked, cherry, skipped, outcome, at,
                   raced, bounds>>

\* A conflict stays in the index, a pick that changes nothing stays unfinished; a dirty index
\* or file or a hook that fails leaves nothing.  The loop stops at once.
PickStops(i) ==
    /\ pc = "pick" /\ IsNext(i) /\ ~AlreadyApplied(i)
    /\ \/ /\ IndexClean /\ ~Clean(Tree(i - 1), Tree(i))
          /\ pending' = Half("pick", Tree(i - 1), Tree(i), i, {})
       \/ /\ IndexClean /\ Clean(Tree(i - 1), Tree(i)) /\ Merge(Tree(i - 1), Tree(i)) = host
          /\ pending' = Half("empty", Fork, Fork, i, {})
       \/ UNCHANGED pending
    /\ Ends("conflict", i)
    /\ UNCHANGED <<lab, current, mine, asked, todo, cherry, applied, skipped, raced, bounds>>

PicksDone ==
    /\ pc = "pick" /\ todo = {}
    /\ Ends("ok", 0)
    /\ UNCHANGED <<lab, current, index, asked, todo, cherry, applied, skipped, raced, bounds>>

(***************************************************************************)
(* squash_excluding_baseline                                                *)
(***************************************************************************)
\* Mutant: the squash does not look at the index.
SkipsIndexCheck ==
    /\ pc = "index" /\ pc' = "diff"
    /\ UNCHANGED <<lab, current, index, asked, todo, cherry, result, raced, bounds>>

\* The gate: an index that differs from HEAD, or a check that fails, refuses.
CheckIndex ==
    /\ pc = "index"
    /\ \/ IndexClean /\ pc' = "diff" /\ UNCHANGED <<outcome, at>>
       \/ Ends("refused", 0)
    /\ UNCHANGED <<lab, current, index, asked, todo, cherry, applied, skipped, raced, bounds>>

\* The difference from base to the tip goes into the index, unless it is all there.
Stage(base, range) ==
    LET there == Clean(base, Tip) /\ Merge(base, Tip) = host
    IN  /\ pending' = IF there THEN Nothing ELSE Half("squash", base, Tip, 0, range)
        /\ squashed' = IF there THEN squashed \cup range ELSE squashed

\* git diff baseline..branch and git apply --index --3way.  A difference that is clean is
\* staged, one that conflicts stays; a file git cannot touch changes nothing.
ApplyDiff ==
    /\ pc = "diff"
    /\ \/ ~exists /\ Ends("refused", 0) /\ UNCHANGED <<pending, squashed>>
       \/ exists /\ Tip = Tree(1) /\ Ends("nothing", 0) /\ UNCHANGED <<pending, squashed>>
       \/ /\ exists /\ Tip # Tree(1) /\ pending.kind \in {"none", "empty"}
          /\ Stage(Tree(1), Indices \ {1})
          /\ IF Clean(Tree(1), Tip) THEN pc' = "commit" /\ UNCHANGED <<outcome, at>>
                                     ELSE Ends("conflict", 0)
       \/ exists /\ Tip # Tree(1) /\ Ends("conflict", 0) /\ UNCHANGED <<pending, squashed>>
    /\ UNCHANGED <<lab, host, patches, merged, mine, asked, todo, cherry, applied, skipped,
                   raced, bounds>>

(***************************************************************************)
(* merge_patchlab_branch, and the commit both squashes end with             *)
(***************************************************************************)
UpToDate == merged = Len(branch)

\* Git merges nothing while something else is unfinished.
MayMerge == pending.kind = "none"
            \/ (pending.kind = "squash" /\ Clean(pending.base, pending.theirs))

\* git merge --no-ff: a merge commit, nothing when it is up to date.
MergeCommit ==
    /\ pc = "merge" /\ asked.mode = "merge-commit" /\ exists /\ MayMerge
    /\ UpToDate \/ (IndexClean /\ Clean(Tree(merged), Tip))
    /\ host' = IF UpToDate THEN host ELSE Merge(Tree(merged), Tip)
    /\ merged' = Len(branch)
    /\ applied' = todo /\ todo' = {} /\ Ends("ok", 0)
    /\ UNCHANGED <<lab, patches, squashed, index, asked, cherry, skipped, raced, bounds>>

\* git merge --squash: a fast-forward keeps what the user has staged, a real merge needs an
\* index that matches HEAD.
MergeSquash ==
    /\ pc = "merge" /\ asked.mode = "merge-squash" /\ exists /\ MayMerge
    /\ \/ UpToDate /\ UNCHANGED <<pending, squashed>>
       \/ /\ ~UpToDate
          /\ IF Ahead THEN IndexClean
                      ELSE pending.kind = "none" \/ pending.theirs = Tip
          /\ Clean(Tree(merged), Tip) /\ Stage(Tree(merged), Indices)
    /\ pc' = "commit"
    /\ UNCHANGED <<lab, host, patches, merged, mine, asked, todo, cherry, result, raced,
                   bounds>>

MergeStops ==
    /\ pc = "merge"
    /\ \/ /\ exists /\ MayMerge /\ ~UpToDate /\ IndexClean /\ ~Clean(Tree(merged), Tip)
          /\ pending' = Half(IF asked.mode = "merge-commit" THEN "merge" ELSE "squash",
                             Tree(merged), Tip, Len(branch), Indices)
       \/ UNCHANGED pending
    /\ Ends("conflict", 0)
    /\ UNCHANGED <<lab, current, mine, asked, todo, cherry, applied, skipped, raced, bounds>>

\* git commit takes the whole index.
Staged == IF pending.kind = "squash" THEN Merge(pending.base, pending.theirs) ELSE host

CommitSquash ==
    /\ pc = "commit"
    /\ pending.kind = "squash" => Clean(pending.base, pending.theirs)
    /\ Staged # host \/ mine = "staged"
    /\ host' = Staged
    /\ patches' = patches \cup {Patch(host, host')}
    /\ squashed' = squashed \cup pending.range
    /\ pending' = Nothing /\ mine' = IF mine = "staged" THEN "swept" ELSE mine
    /\ applied' = todo /\ todo' = {} /\ Ends("ok", 0)
    /\ UNCHANGED <<lab, merged, asked, cherry, skipped, raced, bounds>>

\* Nothing to commit, a hook, no identity: the squash stays staged.
CommitFails ==
    /\ pc = "commit" /\ Ends("conflict", 0)
    /\ UNCHANGED <<lab, current, index, asked, todo, cherry, applied, skipped, raced, bounds>>

-----------------------------------------------------------------------------
Apply ==
    \/ Start \/ Cherry \/ PicksDone
    \/ \E i \in todo : Skip(i) \/ Pick(i) \/ PickStops(i)
    \/ CheckIndex \/ ApplyDiff
    \/ MergeCommit \/ MergeSquash \/ MergeStops
    \/ CommitSquash \/ CommitFails

Others == CommitOnBranch \/ Record \/ DestroyBranch
          \/ UserStages \/ UserCommits \/ Resolve \/ Abandon

Next == Apply \/ Others

Spec == Init /\ [][Next]_vars

-----------------------------------------------------------------------------
TypeOK ==
    /\ branch \in Seq(Trees) /\ Len(branch) <= MaxCommits
    /\ baseline \in BOOLEAN /\ exists \in BOOLEAN
    /\ recorded \subseteq Sessions
    /\ host \in Trees
    /\ patches \subseteq SUBSET (Files \X Values \X Values)
    /\ merged \in 0..Len(branch) /\ squashed \subseteq Indices
    /\ pending \in [kind : {"none", "pick", "empty", "merge", "squash"}, base : Trees, theirs : Trees,
                    commit : 0..Len(branch), range : SUBSET Indices]
    /\ mine \in {"none", "staged", "committed", "swept"}
    /\ pc \in Pcs /\ outcome \in Outcomes
    /\ asked \in [mode : Modes, session : 0..MaxCommits, include : BOOLEAN]
    /\ todo \subseteq Indices /\ applied \subseteq Indices /\ skipped \subseteq Indices
    /\ cherry \in [succeeded : BOOLEAN, unapplied : SUBSET Indices]
    /\ at \in 0..Len(branch)
    /\ raced \in BOOLEAN
    /\ edits \in 0..MaxEdits /\ runs \in 0..MaxRuns

\* What the result calls applied or already applied has its patch on the current branch, or
\* came in with a merge or a squash commit: a summary that failed skips nothing, a commit
\* that failed applies nothing (Applied_Item and Skipped_Item, apply.ts:116-126).  The user
\* may have taken a squash out of the index before it was committed.
ReportIsTrue ==
    raced \/ \A i \in applied \cup skipped :
        PatchOf(i) \in patches \/ i <= merged \/ i \in squashed

\* The squash that leaves the baseline out commits no work the user had staged before it: its
\* gate looks at the index before it changes anything (apply.ts:341-357).
StagedWorkIsKept ==
    [][mine = "staged" /\ mine' = "swept" => raced \/ ~ExcludesBaseline(asked)]_vars

\* Without --include-baseline no mode brings in the user's uncommitted edits of the baseline
\* commit: a file no session commit changes stays as it is (apply.ts:152-153, 232-236).
BaselineOnlyWhenAsked ==
    [][Apply /\ baseline /\ pc # "idle" /\ ~asked.include =>
          \A f \in Files : (\A i \in Sessions : Tree(i)[f] = Tree(i - 1)[f]) =>
              host'[f] = host[f]]_vars
=============================================================================
