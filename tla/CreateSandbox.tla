---------------------------- MODULE CreateSandbox ----------------------------
(***************************************************************************)
(* `patchlab create`: create_sandbox (src/sandbox/provisioning.ts) with the *)
(* two phases of src/sandbox/branch_handshake.ts, create_patchlab_branch    *)
(* (src/branch/create.ts), the provisioning of the container and the        *)
(* rollbacks.  Beside it the user edits and commits in the repositories, a  *)
(* `patchlab gc` removes orphan branches, and the CLI may be killed.        *)
(*                                                                          *)
(* Each loop handles its repositories in any order.                         *)
(***************************************************************************)
EXTENDS FiniteSets

CONSTANTS
    Repos,          \* collect_unique_repositories(sources)
    Changes,        \* what the user may edit,
    Editable,       \* and of it in each repository
    Submodules,     \* the repositories with submodules
    LeftOut,        \* changes to files no source's copy takes: outside the sources'
                    \* paths, filtered out by --include, --exclude or the secret
                    \* patterns, or behind a link that is broken or leads out
    Contents,       \* what the submodules of a repository hold
    Ignored,        \* what a repository holds that git ignores
    CopyPaths,      \* the --copy specifications,
    Target,         \* the repository in whose mount the destination of each lies,
    Replaces,       \* and the changes to the files that the destination names
    NoRepo

ASSUME CreateAssumption ==
    /\ Repos # {} /\ IsFiniteSet(Repos) /\ NoRepo \notin Repos
    /\ Submodules \subseteq Repos
    /\ Editable \in [Repos -> SUBSET Changes]
    /\ Target \in [CopyPaths -> Repos] /\ Replaces \in [CopyPaths -> SUBSET Changes]
    /\ {Contents, Ignored} \cap Changes = {} /\ CopyPaths \cap Changes = {}

VARIABLES
    \* the host repositories: HEAD's tree and the working tree; which have the
    \* patchlab branch, and the tree of its tip
    head, work, exists, tip,
    \* allow_submodules and allow_dirty_tree as the gates hold them, a prompter at hand,
    \* and options.allow_submodules as the copy reads it
    allow_submodules, allow_dirty_tree, interactive, with_submodules,
    \* the CLI: where it is, the repositories left in its loop, the one whose
    \* baseline is being committed
    pc, todo, cur,
    \* dirty_repositories, created_branch_repositories, baseline_commit_shas # null
    dirty, created, baseline,
    \* the archive ~/.patchlab/{id}, the manifest and the session's metadata in it
    archive, manifest, session,
    \* the container, the host proxy, and what each mount of the workspace holds
    container, proxy, workspace,
    \* what a best-effort removal failed to remove: branches, the container, the archive
    leftover, stuck, kept,
    \* history: the repositories edited after their check
    touched

host      == <<head, work, exists, tip>>
options   == <<allow_submodules, allow_dirty_tree, interactive, with_submodules>>
branching == <<dirty, created, baseline>>
files     == <<archive, manifest, session>>
sandbox   == <<container, proxy, workspace>>
unremoved == <<leftover, stuck, kept>>
vars == <<host, options, pc, todo, cur, branching, files, sandbox, unremoved, touched>>

Answers == {"undecided", "yes", "no"}
Pcs == {"preflight", "branches", "baseline", "container", "copy", "manifest", "session",
        "extras", "teardown", "rollback", "done", "failed", "crashed"}
Reading == {"preflight", "branches", "baseline", "container", "copy"}
Ended == {"done", "failed", "crashed"}

\* A tree is the set of the changes made since the HEAD the create finds.
Init ==
    /\ head = [r \in Repos |-> {}]
    /\ work \in {w \in [Repos -> SUBSET Changes] : \A r \in Repos : w[r] \subseteq Editable[r]}
    /\ exists = {} /\ tip = [r \in Repos |-> {}]
    /\ allow_submodules \in Answers /\ allow_dirty_tree \in Answers /\ interactive \in BOOLEAN
    /\ with_submodules = (allow_submodules = "yes")
    /\ pc = "preflight" /\ todo = Repos /\ cur = NoRepo
    /\ dirty = {} /\ created = {} /\ baseline = {}
    /\ archive = FALSE /\ manifest = FALSE /\ session = FALSE
    /\ container = FALSE /\ proxy = FALSE /\ workspace = [r \in Repos |-> {}]
    /\ leftover = {} /\ stuck = FALSE /\ kept = FALSE
    /\ touched = {}

-----------------------------------------------------------------------------
(***************************************************************************)
(* Phase 1: checks only                                                     *)
(***************************************************************************)
IsDirty(r) == work[r] # head[r]

\* A gate lets a repository through when it is clear, when the option says so, or when
\* the user is asked and agrees.  An agreement holds for the repositories that follow.
Passes(clear, option, agrees) ==
    \/ clear
    \/ option = "yes"
    \/ option = "undecided" /\ interactive /\ agrees

OptionAfter(clear, option) == IF clear THEN option ELSE "yes"

\* Mutant: a repository that is let through without a question is not recorded as dirty.
RecordDirtyWhenAsked(r) == IsDirty(r) /\ allow_dirty_tree = "undecided"

RecordDirty(r) == IsDirty(r)

Preflight(r) ==
    /\ pc = "preflight" /\ r \in todo
    /\ \E agrees \in BOOLEAN : Passes(r \notin Submodules, allow_submodules, agrees)
    /\ \E agrees \in BOOLEAN : Passes(~IsDirty(r), allow_dirty_tree, agrees)
    /\ r \notin exists
    /\ allow_submodules' = OptionAfter(r \notin Submodules, allow_submodules)
    /\ allow_dirty_tree' = OptionAfter(~IsDirty(r), allow_dirty_tree)
    /\ dirty' = IF RecordDirty(r) THEN dirty \cup {r} ELSE dirty
    /\ todo' = todo \ {r}
    /\ UNCHANGED <<host, interactive, with_submodules, pc, cur, created, baseline, files, sandbox, unremoved, touched>>

\* A gate refuses, git fails, or (once every repository passed) the tool, the image or a
\* prompt is refused: nothing was changed, nothing is rolled back.
PreflightFails ==
    /\ pc = "preflight"
    /\ pc' = "failed"
    /\ UNCHANGED <<host, options, todo, cur, branching, files, sandbox, unremoved, touched>>

(***************************************************************************)
(* Phase 2: the branches                                                    *)
(***************************************************************************)
\* Mutant: the archive directory is made only with the manifest.
LateArchive ==
    /\ pc = "preflight" /\ todo = {}
    /\ pc' = "branches"
    /\ todo' = Repos
    /\ UNCHANGED <<host, options, cur, branching, files, sandbox, unremoved, touched>>

MakeArchive ==
    /\ pc = "preflight" /\ todo = {}
    /\ archive' = TRUE
    /\ pc' = "branches"
    /\ todo' = Repos
    /\ UNCHANGED <<host, options, cur, branching, manifest, session, sandbox, unremoved, touched>>

\* The branch of r is made: execute_phase_2_mutations tracks it.
Track(r) ==
    /\ created' = created \cup {r}
    /\ todo' = todo \ {r}
    /\ cur' = NoRepo
    /\ pc' = "branches"

\* `git branch` at HEAD; a repository found dirty in phase 1 gets a baseline commit next.
CreateBranch(r) ==
    /\ pc = "branches" /\ r \in todo
    /\ r \notin exists
    /\ exists' = exists \cup {r}
    /\ tip' = [tip EXCEPT ![r] = head[r]]
    /\ IF r \in dirty THEN pc' = "baseline" /\ cur' = r /\ UNCHANGED <<created, todo>>
                      ELSE Track(r)
    /\ UNCHANGED <<head, work, options, dirty, baseline, files, sandbox, unremoved, touched>>

\* The working tree as it is now, committed on the branch through a temporary index; no
\* commit if it equals the branch's tree.
CommitBaseline ==
    /\ pc = "baseline"
    /\ tip' = [tip EXCEPT ![cur] = work[cur]]
    /\ baseline' = IF work[cur] = tip[cur] THEN baseline ELSE baseline \cup {cur}
    /\ Track(cur)
    /\ UNCHANGED <<head, work, exists, options, dirty, files, sandbox, unremoved, touched>>

\* `git branch -D`, best effort.
DeleteBranch(r) ==
    \/ exists' = exists \ {r} /\ UNCHANGED leftover
    \/ r \in exists /\ leftover' = leftover \cup {r} /\ UNCHANGED exists

\* Mutant: the branch is left to the caller's rollback, which does not know it yet.
BaselineFailsOnly ==
    /\ pc = "baseline"
    /\ cur' = NoRepo
    /\ pc' = "rollback"
    /\ UNCHANGED <<host, options, todo, branching, files, sandbox, unremoved, touched>>

\* create_patchlab_branch removes the branch of its own failed baseline.
BaselineFails ==
    /\ pc = "baseline"
    /\ DeleteBranch(cur)
    /\ cur' = NoRepo
    /\ pc' = "rollback"
    /\ UNCHANGED <<head, work, tip, options, todo, branching, files, sandbox, stuck, kept, touched>>

CreateBranchFails ==
    /\ pc = "branches" /\ todo # {}
    /\ pc' = "rollback"
    /\ UNCHANGED <<host, options, todo, cur, branching, files, sandbox, unremoved, touched>>

(***************************************************************************)
(* Provisioning                                                             *)
(***************************************************************************)
PrepareHostAccess ==
    /\ pc = "branches" /\ todo = {}
    /\ proxy' \in BOOLEAN
    /\ pc' = "container"
    /\ UNCHANGED <<host, options, todo, cur, branching, files, container, workspace, unremoved, touched>>

CreateContainer ==
    /\ pc = "container"
    /\ container' = TRUE
    /\ pc' = "copy"
    /\ todo' = Repos
    /\ UNCHANGED <<host, options, cur, branching, files, proxy, workspace, unremoved, touched>>

\* What the copy of a repository's sources takes: the files git lists, tracked and
\* untracked, and the contents of submodules if the option (not the answer at the gate)
\* says so; when git cannot list them, whatever a glob finds.
Taken(r, listed) ==
    (work[r] \ LeftOut)
        \cup {x \in {Contents} : r \in Submodules /\ (with_submodules \/ ~listed)}
        \cup {x \in {Ignored} : ~listed}

\* The sources of one repository are copied into the workspace, as they are now.
CopySources(r) ==
    /\ pc = "copy" /\ r \in todo
    /\ \E listed \in BOOLEAN : workspace' = [workspace EXCEPT ![r] = Taken(r, listed)]
    /\ todo' = todo \ {r}
    /\ UNCHANGED <<host, options, pc, cur, branching, files, container, proxy, unremoved, touched>>

\* The files of every --copy whose source is there, in the place of the sources' own.
CopyAdditional ==
    /\ pc = "copy" /\ todo = {}
    /\ \E present \in SUBSET CopyPaths :
          LET Into(r) == {s \in present : Target[s] = r}
          IN  workspace' = [r \in Repos |->
                 (workspace[r] \ UNION {Replaces[s] : s \in Into(r)}) \cup Into(r)]
    /\ pc' = "manifest"
    /\ UNCHANGED <<host, options, todo, cur, branching, files, container, proxy, unremoved, touched>>

\* The container's own baseline and the installs (see Workspace), then the manifest.
WriteManifest ==
    /\ pc = "manifest"
    /\ archive' = TRUE /\ manifest' = TRUE
    /\ pc' = "session"
    /\ UNCHANGED <<host, options, todo, cur, branching, session, sandbox, unremoved, touched>>

WriteSession ==
    /\ pc = "session"
    /\ session' = TRUE
    /\ pc' = "extras"
    /\ UNCHANGED <<host, options, todo, cur, branching, archive, manifest, sandbox, unremoved, touched>>

\* The context bundle and the workspace copies.
Finish ==
    /\ pc = "extras"
    /\ pc' = "done"
    /\ UNCHANGED <<host, options, todo, cur, branching, files, sandbox, unremoved, touched>>

\* Any step of provision_new_sandbox throws; `create` and `start` are two calls, so the
\* container may be there already.  The catch stops the proxy.
ProvisionFails ==
    /\ \/ pc = "branches" /\ todo = {} /\ UNCHANGED container
       \/ pc = "container" /\ container' \in BOOLEAN
       \/ pc \in {"copy", "manifest", "session", "extras"} /\ UNCHANGED container
    /\ proxy' = FALSE
    /\ pc' = "teardown"
    /\ UNCHANGED <<host, options, todo, cur, branching, files, workspace, unremoved, touched>>

(***************************************************************************)
(* Rollback                                                                 *)
(***************************************************************************)
\* stop_and_remove_container_best_effort may leave the container: with a warning, unless
\* the runtime cannot even be asked whether it is still there.
TearDown ==
    /\ pc = "teardown"
    /\ \/ container' = FALSE /\ workspace' = [r \in Repos |-> {}] /\ UNCHANGED stuck
       \/ container /\ stuck' = TRUE /\ UNCHANGED <<container, workspace>>
    /\ proxy' = FALSE
    /\ pc' = "rollback"
    /\ UNCHANGED <<host, options, todo, cur, branching, files, leftover, kept, touched>>

RollBackBranch(r) ==
    /\ pc = "rollback" /\ r \in created
    /\ DeleteBranch(r)
    /\ created' = created \ {r}
    /\ UNCHANGED <<head, work, tip, options, pc, todo, cur, dirty, baseline, files, sandbox,
                   stuck, kept, touched>>

\* The recursive removal of the archive may throw half way; the create has failed anyway.
RemoveArchive ==
    /\ pc = "rollback" /\ created = {}
    /\ \/ archive' = FALSE /\ manifest' = FALSE /\ session' = FALSE /\ UNCHANGED kept
       \/ /\ kept' = TRUE /\ UNCHANGED archive
          /\ manifest' \in {FALSE, manifest} /\ session' \in {FALSE, session}
    /\ pc' = "failed"
    /\ UNCHANGED <<host, options, todo, cur, branching, sandbox, leftover, stuck, touched>>

(***************************************************************************)
(* Everything beside the create                                             *)
(***************************************************************************)
CliKilled ==
    /\ pc \notin Ended
    /\ pc' = "crashed"
    /\ UNCHANGED <<host, options, todo, cur, branching, files, sandbox, unremoved, touched>>

\* The user's edits and commits, up to the copy: after it the create reads neither the
\* repositories' working trees nor their HEADs.
HostEdit(r, c) ==
    /\ pc \in Reading
    /\ c \in Editable[r] \ work[r]
    /\ work' = [work EXCEPT ![r] = @ \cup {c}]
    /\ touched' = IF pc = "preflight" /\ r \in todo THEN touched ELSE touched \cup {r}
    /\ UNCHANGED <<head, exists, tip, options, pc, todo, cur, branching, files, sandbox, unremoved>>

HostCommit(r) ==
    /\ pc \in Reading
    /\ IsDirty(r)
    /\ head' = [head EXCEPT ![r] = work[r]]
    /\ UNCHANGED <<work, exists, tip, options, pc, todo, cur, branching, files, sandbox, unremoved, touched>>

\* clean_up_orphan_branches of a `patchlab gc`: a branch with no archive directory goes,
\* confirmed by the user if it has commits of its own.
GcOrphan(r) ==
    /\ r \in exists
    /\ ~archive
    /\ exists' = exists \ {r}
    /\ UNCHANGED <<head, work, tip, options, pc, todo, cur, branching, files, sandbox, unremoved, touched>>

-----------------------------------------------------------------------------
\* The steps after the questions of phase 1.
Provisioning ==
    \/ \E r \in Repos : CreateBranch(r) \/ CopySources(r) \/ RollBackBranch(r)
    \/ CommitBaseline \/ BaselineFails \/ CreateBranchFails
    \/ PrepareHostAccess \/ CreateContainer \/ CopyAdditional \/ WriteManifest \/ WriteSession \/ Finish
    \/ ProvisionFails \/ TearDown \/ RemoveArchive

Environment ==
    \/ CliKilled
    \/ \E r \in Repos : HostCommit(r) \/ GcOrphan(r)
    \/ \E r \in Repos, c \in Changes : HostEdit(r, c)

Next ==
    \/ \E r \in Repos : Preflight(r)
    \/ PreflightFails \/ MakeArchive
    \/ Provisioning
    \/ Environment

Spec == Init /\ [][Next]_vars

-----------------------------------------------------------------------------
\* The types of the variables, and that a repository is at hand during its baseline.
TypeOK ==
    /\ head \in [Repos -> SUBSET Changes] /\ work \in [Repos -> SUBSET Changes]
    /\ exists \subseteq Repos /\ tip \in [Repos -> SUBSET Changes]
    /\ allow_submodules \in Answers /\ allow_dirty_tree \in Answers
    /\ interactive \in BOOLEAN /\ with_submodules \in BOOLEAN
    /\ pc \in Pcs /\ todo \subseteq Repos /\ cur \in Repos \cup {NoRepo}
    /\ pc = "baseline" => cur \in Repos
    /\ dirty \subseteq Repos /\ created \subseteq Repos /\ baseline \subseteq Repos
    /\ archive \in BOOLEAN /\ manifest \in BOOLEAN /\ session \in BOOLEAN
    /\ container \in BOOLEAN /\ proxy \in BOOLEAN
    /\ workspace \in [Repos -> SUBSET (Changes \cup CopyPaths \cup {Contents, Ignored})]
    /\ leftover \subseteq Repos /\ stuck \in BOOLEAN /\ kept \in BOOLEAN
    /\ touched \subseteq Repos

\* A create that succeeds has the branch in every repository, the archive with the
\* manifest and the session, and the container: no gc beside it takes a branch away,
\* because the archive directory is there before the first branch.
CreatedIsWhole ==
    pc = "done" => exists = Repos /\ archive /\ manifest /\ session /\ container

\* A create that fails leaves no branch, container, proxy or archive behind, except
\* what its rollback tried and failed to remove.
FailedLeavesNothing ==
    pc = "failed" =>
        /\ exists \subseteq leftover
        /\ container => stuck
        /\ ~proxy
        /\ archive => kept

\* What the branch of r and its mount must agree on: all but the changes to files that
\* the copy leaves out or that a --copy may have replaced there.
Followed(r) ==
    Changes \ (LeftOut \cup UNION {Replaces[s] : s \in {k \in CopyPaths : Target[k] = r}})

\* The container starts from the tree of the branch, so that a session's diff applies to
\* the branch: in every repository nobody edited after its check, the two hold the same
\* of the changes that the copy takes and no --copy replaces.
BaselineIsWorkspace ==
    pc = "done" =>
        \A r \in Repos \ touched : workspace[r] \cap Followed(r) = tip[r] \cap Followed(r)
=============================================================================
