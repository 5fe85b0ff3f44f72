---------------------------- MODULE SessionCommit ----------------------------
(***************************************************************************)
(* The exit of one session: extract_session_to_branch (src/cli.ts) and the  *)
(* fan-out of the staged diff onto the patchlab branch of every repository  *)
(* (src/branch/session_commit.ts), with everything that runs beside it:     *)
(* `patchlab exec` editing the workspace, `patchlab diff` staging and       *)
(* resetting the same index, the container stopping, the user deleting the  *)
(* branch or committing to it, and the CLI being killed.                    *)
(*                                                                          *)
(* A tree is the set of the changes it contains.  The diff between two      *)
(* trees is the set difference; reverting a change is a change of its own.  *)
(***************************************************************************)
EXTENDS FiniteSets

CONSTANTS
    Repos,          \* manifest_repositories(manifest)
    Changes,        \* every change anyone may make
    Edits,          \* the changes made inside the container
    HostChanges,    \* the changes the user may commit to the patchlab branch
    Big,            \* the changes that push a slice over max_diff_size_bytes
    Owner,          \* the repository whose mount holds a change, or Unmounted
    Unmounted,      \* workspace paths below no source's mount
    Basename,       \* path.basename(repository_root)
    Canonical,      \* the digest of realpath(repository_root)
    ConcurrentDiff  \* may `patchlab diff` overlap the session's exit?

ASSUME ReposAssumption == Repos # {} /\ IsFiniteSet(Repos) /\ Unmounted \notin Repos
ASSUME ChangesAssumption ==
    /\ Edits \subseteq Changes /\ HostChanges \subseteq Changes /\ Big \subseteq Changes
    /\ Owner \in [Changes -> Repos \cup {Unmounted}]
ASSUME NamesAssumption ==
    /\ \A r, s \in Repos : Canonical[r] = Canonical[s] => r = s
    /\ ConcurrentDiff \in BOOLEAN

VARIABLES
    \* the container and its private git repository
    running, work, index, head,
    \* `patchlab diff` of another terminal: "idle" or "staged"
    reader,
    \* the host repositories: which have the branch, and its tree
    exists, content,
    \* the CLI process
    pc, cur, slice, base, tree, outcome, threw, lost,
    \* the archive: fallback files, metadata maps, status
    saved, recorded, status,
    \* history: the work that the exit's staging found, and the tree that the branch
    \* had when a repository was decided without a fallback
    promise, landed

container == <<running, work, index, head>>
host      == <<exists, content>>
fanout    == <<cur, slice, base, tree, outcome, threw>>
archive   == <<saved, recorded, status>>
history   == <<promise, landed>>
vars == <<container, reader, host, pc, fanout, lost, archive, history>>

NoRepo == Unmounted

Pcs == {"tool", "artifacts", "stage", "fanout", "confirm", "check", "tip", "apply",
        "update", "fallback", "record", "finalize", "done", "crashed"}
\* Where a repository is being worked on.
InRepo == {"confirm", "check", "tip", "apply", "update", "fallback"}

Owned(r) == {c \in Changes : Owner[c] = r}
Pending  == {r \in Repos : outcome[r] = "pending"}
Oversized(s) == s \cap Big # {}

(***************************************************************************)
(* Names of the fallback patches.  Two repositories with one basename get   *)
(* the digest of their canonical path appended.                             *)
(***************************************************************************)
PlainFallbackName(r) == <<Basename[r]>>

FallbackName(r) ==
    IF \E s \in Repos \ {r} : Basename[s] = Basename[r]
    THEN <<Basename[r], Canonical[r]>>
    ELSE <<Basename[r]>>

FallbackNames == {FallbackName(r) : r \in Repos} \cup {PlainFallbackName(r) : r \in Repos}

-----------------------------------------------------------------------------
Init ==
    /\ running = TRUE /\ work = {} /\ index = {} /\ head = {}
    /\ reader = "idle"
    /\ exists = Repos /\ content = [r \in Repos |-> {}]
    /\ pc = "tool" /\ cur = NoRepo /\ slice = {} /\ base = {} /\ tree = {}
    /\ outcome = [r \in Repos |-> "pending"] /\ threw = FALSE /\ lost = FALSE
    /\ saved = [n \in FallbackNames |-> {}]
    /\ recorded = [r \in Repos |-> "null"] /\ status = "interrupted"
    /\ promise = {} /\ landed = [r \in Repos |-> {}]

(***************************************************************************)
(* The session around the fan-out                                           *)
(***************************************************************************)
\* exec_interactive returns, whatever the tool's exit code: the extraction starts.
ToolExits ==
    /\ pc = "tool"
    /\ ConcurrentDiff \/ reader = "idle"
    /\ pc' = "artifacts"
    /\ UNCHANGED <<container, reader, host, fanout, lost, archive, history>>

\* Workspace copies, history, conversation: best effort; only the conversation's failures
\* are remembered, as lost data.
ExtractArtifacts ==
    /\ pc = "artifacts"
    /\ lost' \in BOOLEAN
    /\ pc' = "stage"
    /\ UNCHANGED <<container, reader, host, fanout, archive, history>>

\* An exception out of commit_session_to_branch: run_branch_commit_step catches it, the
\* outcomes found so far are dropped and nothing is recorded.
Abort ==
    /\ threw' = TRUE
    /\ cur' = NoRepo
    /\ pc' = "finalize"
    /\ UNCHANGED <<slice, base, tree, outcome>>

\* stage_sandbox_changes: one `git add -A` for all repositories.
StageChanges ==
    /\ pc = "stage"
    /\ running
    /\ index' = work
    /\ promise' = work
    /\ pc' = "fanout"
    /\ UNCHANGED <<running, work, head, reader, host, fanout, lost, archive, landed>>

StageFails ==
    /\ pc = "stage"
    /\ Abort
    /\ UNCHANGED <<container, reader, host, lost, archive, history>>

(***************************************************************************)
(* The fan-out, one repository after the other                              *)
(***************************************************************************)
\* Mutant: the loop forgets that the repository was handled.
DecideForgets(r, o) ==
    /\ outcome' = [outcome EXCEPT ![r] = IF o = "unchanged" THEN "pending" ELSE o]
    /\ cur' = NoRepo
    /\ pc' = "fanout"
    /\ UNCHANGED threw

\* fan_out_to_one_repository returned: the loop goes on with the next repository.
Decide(r, o) ==
    /\ outcome' = [outcome EXCEPT ![r] = o]
    /\ cur' = NoRepo
    /\ pc' = "fanout"
    /\ UNCHANGED threw

\* The staged diff below the repository's mounts, written to a file in the container.
StagedSlice(r) == (index \ head) \cap Owned(r)

AfterSlice(r, s) ==
    /\ slice' = s
    /\ IF s = {} THEN Decide(r, "unchanged")
       ELSE /\ cur' = r
            /\ pc' = IF Oversized(s) THEN "confirm" ELSE "check"
            /\ UNCHANGED <<outcome, threw>>

SliceRepository(r) ==
    /\ pc = "fanout"
    /\ r \in Pending
    /\ running
    /\ AfterSlice(r, StagedSlice(r))
    /\ UNCHANGED <<container, reader, host, base, tree, lost, archive, history>>

\* The slice is taken outside every try: its failure ends the whole fan-out.
SliceFails ==
    /\ pc = "fanout"
    /\ Pending # {}
    /\ Abort
    /\ UNCHANGED <<container, reader, host, lost, archive, history>>

\* The user's answer to the size prompt; no prompter means no.
AnswerOversized ==
    /\ pc = "confirm"
    /\ \E proceed \in BOOLEAN : pc' = IF proceed THEN "check" ELSE "fallback"
    /\ UNCHANGED <<container, reader, host, fanout, lost, archive, history>>

CheckBranch ==
    /\ pc = "check"
    /\ pc' = IF cur \in exists THEN "tip" ELSE "fallback"
    /\ UNCHANGED <<container, reader, host, fanout, lost, archive, history>>

\* rev_parse of the branch tip: the last read before the commit.
ReadTip ==
    /\ pc = "tip"
    /\ cur \in exists
    /\ base' = content[cur]
    /\ pc' = "apply"
    /\ UNCHANGED <<container, reader, host, cur, slice, tree, outcome, threw, lost, archive, history>>

\* The branch is gone by now, and rev_parse stands before the try.
ReadTipFails ==
    /\ pc = "tip"
    /\ cur \notin exists
    /\ Abort
    /\ UNCHANGED <<container, reader, host, lost, archive, history>>

\* stream_apply_from_sandbox settles when both children have closed, and resolves only
\* when both exited with 0: a `cat` that fails lets `git apply` succeed on less input.
Resolves(cat_ok, apply_ok) == cat_ok /\ apply_ok

\* read-tree, the streamed apply, write-tree, the comparison with the parent's tree and
\* commit-tree.  They touch only the temporary index and the object store.
StreamApply ==
    /\ pc = "apply"
    /\ \E cat_ok, apply_ok \in BOOLEAN : \E read \in SUBSET slice :
      /\ cat_ok => running /\ read = slice
      /\ \/ /\ ~Resolves(cat_ok, apply_ok)
           /\ pc' = "fallback"
           /\ UNCHANGED <<cur, tree, outcome, threw, landed>>
        \/ /\ Resolves(cat_ok, apply_ok)
           /\ base \cup read = base
           /\ Decide(cur, "unchanged")
           /\ landed' = [landed EXCEPT ![cur] = base]
           /\ UNCHANGED tree
        \/ /\ Resolves(cat_ok, apply_ok)
           /\ base \cup read # base
           /\ tree' = base \cup read
           /\ pc' = "update"
           /\ UNCHANGED <<cur, outcome, threw, landed>>
    /\ UNCHANGED <<container, reader, host, slice, base, lost, archive, promise>>

\* `git update-ref` with no expected old value: it also overwrites a tip that moved and
\* creates a branch that was deleted.
UpdateRef ==
    /\ pc = "update"
    /\ exists' = exists \cup {cur}
    /\ content' = [content EXCEPT ![cur] = tree]
    /\ landed' = [landed EXCEPT ![cur] = tree]
    /\ Decide(cur, "committed")
    /\ UNCHANGED <<container, reader, slice, base, tree, lost, archive, promise>>

UpdateRefFails ==
    /\ pc = "update"
    /\ pc' = "fallback"
    /\ UNCHANGED <<container, reader, host, fanout, lost, archive, history>>

CopyFallback ==
    /\ pc = "fallback"
    /\ running
    /\ saved' = [saved EXCEPT ![FallbackName(cur)] = slice]
    /\ Decide(cur, "fallback")
    /\ UNCHANGED <<container, reader, host, slice, base, tree, lost, recorded, status, history>>

\* Nothing catches a failing copy: it ends the whole fan-out.
CopyFallbackFails ==
    /\ pc = "fallback"
    /\ Abort
    /\ UNCHANGED <<container, reader, host, lost, archive, history>>

\* Mutant: HEAD is advanced before the loop is through.
AdvanceHeadEarly ==
    /\ pc = "fanout"
    /\ pc' = IF Pending = {} THEN "record" ELSE "fanout"
    /\ \/ running /\ index' = work /\ head' = work
       \/ running /\ index' = work /\ UNCHANGED head
       \/ UNCHANGED <<index, head>>
    /\ UNCHANGED <<running, work, reader, host, fanout, lost, archive, history>>

\* After the loop: `git add -A` again and a commit, so that HEAD also takes what was
\* edited since the staging and what lies outside every mount.  A failure is only
\* logged, and may leave the index staged.
AdvanceHead ==
    /\ pc = "fanout"
    /\ Pending = {}
    /\ pc' = "record"
    /\ \/ running /\ index' = work /\ head' = work
       \/ running /\ index' = work /\ UNCHANGED head
       \/ UNCHANGED <<index, head>>
    /\ UNCHANGED <<running, work, reader, host, fanout, lost, archive, history>>

(***************************************************************************)
(* The session's metadata                                                   *)
(***************************************************************************)
RecordOf(o) == IF o \in {"committed", "fallback"} THEN o ELSE "null"

\* record_extraction_outcome, for exactly the manifest's repositories.  Its failure is
\* only a warning.
RecordOutcome ==
    /\ pc = "record"
    /\ pc' = "finalize"
    /\ \/ recorded' = [r \in Repos |-> RecordOf(outcome[r])]
       \/ UNCHANGED recorded
    /\ UNCHANGED <<container, reader, host, fanout, lost, saved, status, history>>

\* Mutant: an exception out of the fan-out no longer marks the session interrupted.
FinalStatusIgnoresThrow == IF lost THEN "interrupted" ELSE "completed"

FinalStatus == IF threw \/ lost THEN "interrupted" ELSE "completed"

FinalizeSession ==
    /\ pc = "finalize"
    /\ pc' = "done"
    /\ \/ status' = FinalStatus
       \/ UNCHANGED status
    /\ UNCHANGED <<container, reader, host, fanout, lost, saved, recorded, history>>

(***************************************************************************)
(* Everything beside the extraction                                         *)
(***************************************************************************)
CliKilled ==
    /\ pc \notin {"done", "crashed"}
    /\ pc' = "crashed"
    /\ UNCHANGED <<container, reader, host, fanout, lost, archive, history>>

\* The tool, or a command run with `patchlab exec` in another terminal.
EditWorkspace(e) ==
    /\ running
    /\ e \notin work
    /\ work' = work \cup {e}
    /\ UNCHANGED <<running, index, head, reader, host, pc, fanout, lost, archive, history>>

ContainerStops ==
    /\ running
    /\ running' = FALSE
    /\ UNCHANGED <<work, index, head, reader, host, pc, fanout, lost, archive, history>>

\* diff_sandbox (`patchlab diff`), and read_container_pending_diff for the patches of a
\* single repository: stage everything, read the diff, and in the finally block reset
\* the index.
DiffStages ==
    /\ ConcurrentDiff \/ pc \in {"tool", "done", "crashed"}
    /\ reader = "idle"
    /\ running
    /\ reader' = "staged"
    /\ index' = work
    /\ UNCHANGED <<running, work, head, host, pc, fanout, lost, archive, history>>

DiffResets ==
    /\ reader = "staged"
    /\ reader' = "idle"
    /\ index' = IF running THEN head ELSE index
    /\ UNCHANGED <<running, work, head, host, pc, fanout, lost, archive, history>>

BranchDeleted(r) ==
    /\ r \in exists
    /\ exists' = exists \ {r}
    /\ content' = [content EXCEPT ![r] = {}]
    /\ UNCHANGED <<container, reader, pc, fanout, lost, archive, history>>

HostCommit(c) ==
    /\ Owner[c] \in exists
    /\ c \notin content[Owner[c]]
    /\ content' = [content EXCEPT ![Owner[c]] = @ \cup {c}]
    /\ UNCHANGED <<container, reader, exists, pc, fanout, lost, archive, history>>

-----------------------------------------------------------------------------
\* The steps the CLI takes by itself: neither the user's answer nor the tool's exit.
Extraction ==
    \/ ExtractArtifacts \/ StageChanges \/ StageFails
    \/ \E r \in Repos : SliceRepository(r)
    \/ SliceFails \/ CheckBranch \/ ReadTip \/ ReadTipFails \/ StreamApply
    \/ UpdateRef \/ UpdateRefFails \/ CopyFallback \/ CopyFallbackFails
    \/ AdvanceHead \/ RecordOutcome \/ FinalizeSession

Environment ==
    \/ CliKilled \/ ContainerStops \/ DiffStages \/ DiffResets
    \/ \E e \in Edits : EditWorkspace(e)
    \/ \E r \in Repos : BranchDeleted(r)
    \/ \E c \in HostChanges : HostCommit(c)

Next == ToolExits \/ AnswerOversized \/ Extraction \/ Environment

Spec == Init /\ [][Next]_vars

FairSpec == Spec /\ WF_vars(Extraction)

-----------------------------------------------------------------------------
\* The types of the variables, and that a repository is being handled where one must be.
TypeOK ==
    /\ running \in BOOLEAN
    /\ work \subseteq Edits /\ index \subseteq Edits /\ head \subseteq Edits
    /\ reader \in {"idle", "staged"}
    /\ exists \subseteq Repos /\ content \in [Repos -> SUBSET Changes]
    /\ pc \in Pcs /\ cur \in Repos \cup {NoRepo}
    /\ pc \in InRepo => cur \in Repos
    /\ slice \subseteq Edits /\ base \subseteq Changes /\ tree \subseteq Changes
    /\ outcome \in [Repos -> {"pending", "unchanged", "committed", "fallback"}]
    /\ threw \in BOOLEAN /\ lost \in BOOLEAN
    /\ saved \in [FallbackNames -> SUBSET Edits]
    /\ recorded \in [Repos -> {"null", "committed", "fallback"}]
    /\ status \in {"interrupted", "completed"}
    /\ promise \subseteq Edits /\ landed \in [Repos -> SUBSET Changes]

\* Where the work of repository r is once r is decided: in the tree its branch had at
\* that moment, or in its fallback patch.
Delivered(r) ==
    landed[r] \cup IF outcome[r] = "fallback" THEN saved[FallbackName(r)] ELSE {}

\* A session is marked "completed" only if everything its exit found in the repositories'
\* mounts reached the host: on the repository's branch, or in the repository's own
\* fallback patch (the silent commit of nothing that stream_apply_from_sandbox guards
\* against, and two repositories sharing one fallback file, are what would break it).
CompletedMeansDelivered ==
    status = "completed" =>
        \A r \in Repos : promise \cap Owned(r) \subseteq Delivered(r)

\* The container's HEAD is the marker `patchlab diff` compares with: a change it hides
\* has reached the host.  advance_container_head stages once more, so two kinds of
\* changes are hidden although no repository received them, and no others are: those
\* made after the exit's staging, and those outside every mount.
HeadHidesOnlyLateOrUnmounted ==
    \A c \in head : \/ c \notin promise
                    \/ Owner[c] = Unmounted
                    \/ c \in Delivered(Owner[c])

(***************************************************************************)
(* The inductive invariant behind the two properties above                  *)
(***************************************************************************)
\* No diff overlaps the extraction, and from the staging on the index holds all that the
\* staging found.
StagedInv ==
    /\ pc \notin {"tool", "done", "crashed"} => reader = "idle"
    /\ promise \subseteq work
    /\ pc \notin {"record", "finalize", "done", "crashed"} => head = {}
    /\ pc \in InRepo \cup {"fanout"} => promise \subseteq index

\* The repository at hand is undecided, and its slice holds all that was found there.
SliceInv ==
    /\ pc \in InRepo => /\ outcome[cur] = "pending"
                        /\ promise \cap Owned(cur) \subseteq slice
    /\ pc = "update" => slice \subseteq tree

\* What is decided is delivered, and stays so.
DecidedInv ==
    /\ pc \in {"tool", "artifacts", "stage"} => Pending = Repos
    /\ \A r \in Repos \ Pending : promise \cap Owned(r) \subseteq Delivered(r)

\* The loop is through before HEAD moves or the session is completed.
PhaseInv ==
    /\ pc \notin {"finalize", "done", "crashed"} => ~threw
    /\ pc = "record" \/ (pc = "finalize" /\ ~threw) \/ head # {} => Pending = {}
    /\ status = "completed" => pc = "done" /\ Pending = {}

IInv == StagedInv /\ SliceInv /\ DecidedInv /\ PhaseInv

\* The exit implements what it promises: each repository decided once, the record made
\* of the decisions, "completed" only when all are decided.
Promise == INSTANCE SessionOutcome
               WITH Repos <- Repos, outcome <- outcome, recorded <- recorded, status <- status
ImplementsSessionOutcome == Promise!Spec

\* Once the tool has exited, the extraction ends unless the user leaves its question
\* unanswered.
ExtractionEnds == (pc # "tool") ~> (pc \in {"confirm", "done", "crashed"})
=============================================================================
