--------------------------- MODULE DestroySandbox ---------------------------
(***************************************************************************)
(* `patchlab destroy` and `patchlab gc` of one patchlab: destroy_sandbox    *)
(* and garbage_collect_sandboxes (src/sandbox/garbage_collection.ts) with   *)
(* the branch deletion and its gate (src/branch/delete.ts).  Several of     *)
(* them may run at once.  Beside them the user applies session commits to   *)
(* other branches, deletes branches and moves repositories away, and a      *)
(* session's exit puts a commit on a branch.                                *)
(***************************************************************************)
EXTENDS FiniteSets

CONSTANTS
    Repos,          \* manifest_repositories(manifest)
    Commits,        \* the commits a patchlab branch may carry
    Baseline,       \* among them the baseline commit of a dirty working tree
    Dirty,          \* the repositories whose branch has one: baseline_commit_shas
    Destroyers,     \* the processes that run a destroy or a gc, once each
    Collectors,     \* those that run a gc
    Movable,        \* the repositories that may be moved away and back
    Overlap,        \* whether a session's exit may overlap a destroyer
    NoRepo

ASSUME DestroyAssumption ==
    /\ Repos # {} /\ NoRepo \notin Repos
    /\ Baseline \in Commits /\ Dirty \subseteq Repos
    /\ Collectors \subseteq Destroyers /\ Movable \subseteq Repos
    /\ Overlap \in BOOLEAN

VARIABLES
    \* the host repositories: which are still git repositories, which have the patchlab
    \* branch, its commits, and the commits some other local branch carries (git cherry)
    reachable, exists, tip, applied,
    \* the archive directory, whether its manifest can be read, and the repository roots
    \* found in a manifest that parses but cannot be read
    archive, readable, roots,
    container,
    \* each destroyer: its phase, the step within it, the repositories left in the loop,
    \* the one at hand with its unapplied commits, whether the manifest was read, --force,
    \* and branch_outcomes
    pc, step, todo, cur, counted, read, force, outcome,
    \* the session's exit: the repository at hand and the tip it has read
    exiting, parent,
    \* history: the commits the user has given up, with --force or by an answer, and the
    \* repositories that have been away
    given_up, moved

host    == <<reachable, exists, tip, applied>>
files   == <<archive, readable, roots>>
gate    == <<step, cur, counted>>
session == <<exiting, parent>>
history == <<given_up, moved>>
vars == <<host, files, container, pc, gate, todo, read, force, outcome, session, history>>

Outcomes == {"none", "deleted", "missing", "skipped", "error"}
Pcs == {"idle", "listed", "branches", "orphans", "ended"}

Init ==
    /\ reachable = Repos /\ exists = Repos
    /\ tip = [r \in Repos |-> IF r \in Dirty THEN {Baseline} ELSE {}]
    /\ applied = [r \in Repos |-> {}]
    /\ archive = TRUE
    /\ \/ readable = TRUE /\ roots = Repos
       \/ readable = FALSE /\ roots \in SUBSET Repos
    /\ container = TRUE
    /\ pc = [d \in Destroyers |-> "idle"] /\ step = [d \in Destroyers |-> "next"]
    /\ todo = [d \in Destroyers |-> {}] /\ cur = [d \in Destroyers |-> NoRepo]
    /\ counted = [d \in Destroyers |-> {}] /\ read = [d \in Destroyers |-> FALSE]
    /\ force \in [Destroyers -> BOOLEAN]
    /\ outcome = [d \in Destroyers |-> [r \in Repos |-> "none"]]
    /\ exiting = NoRepo /\ parent = {}
    /\ given_up = [r \in Repos |-> {}] /\ moved = {}

-----------------------------------------------------------------------------
\* Neither a destroyer nor an exit begins beside the other, unless they may overlap.
MayDestroy == Overlap \/ exiting = NoRepo
MayExit    == Overlap \/ \A d \in Destroyers : pc[d] \in {"idle", "ended"}

(***************************************************************************)
(* garbage_collect_sandboxes                                                *)
(***************************************************************************)
\* A patchlab is listed when its manifest can be read; it is destroyed if it is old or its
\* container is missing, which the user has confirmed.  Either way its repositories are
\* scanned for orphans, and so are those of other patchlabs.
GcLists(d) ==
    /\ d \in Collectors /\ pc[d] = "idle" /\ MayDestroy
    /\ \/ archive /\ readable /\ pc' = [pc EXCEPT ![d] = "listed"] /\ UNCHANGED todo
       \/ /\ pc' = [pc EXCEPT ![d] = "orphans"]
          /\ \E scan \in SUBSET Repos :
                /\ archive /\ readable => scan = Repos
                /\ todo' = [todo EXCEPT ![d] = scan]
    /\ UNCHANGED <<host, files, container, gate, read, force, outcome, session, history>>

(***************************************************************************)
(* destroy_sandbox                                                          *)
(***************************************************************************)
\* read_manifest, then the proxy and the container go, whatever the branches hold.  With
\* no manifest only --force goes on, with the repositories it recovered.
Begin(d) ==
    /\ \/ d \in Collectors /\ pc[d] = "listed"
       \/ d \notin Collectors /\ pc[d] = "idle" /\ MayDestroy
    /\ read' = [read EXCEPT ![d] = archive /\ readable]
    /\ todo' = [todo EXCEPT ![d] = IF archive /\ readable THEN Repos
                                   ELSE IF archive /\ force[d] THEN roots ELSE {}]
    /\ container' \in {FALSE, container}
    /\ pc' = [pc EXCEPT ![d] = "branches"]
    /\ UNCHANGED <<host, files, gate, force, outcome, session, history>>

\* Repository r is done with outcome o; the loop goes on.
Conclude(d, r, o) ==
    /\ outcome' = IF pc[d] = "branches" THEN [outcome EXCEPT ![d][r] = o] ELSE outcome
    /\ todo' = [todo EXCEPT ![d] = @ \ {r}]
    /\ step' = [step EXCEPT ![d] = "next"]
    /\ cur' = [cur EXCEPT ![d] = NoRepo]
    /\ counted' = [counted EXCEPT ![d] = {}]
    /\ UNCHANGED <<files, container, pc, read, force, session>>

\* The repository is no git repository any more, or has no such branch; the scan for
\* orphans also leaves a branch whose archive directory exists.
NothingToDelete(d, r) ==
    /\ pc[d] \in {"branches", "orphans"} /\ step[d] = "next" /\ r \in todo[d]
    /\ \/ r \notin reachable /\ Conclude(d, r, "error")
       \/ r \in reachable /\ r \notin exists /\ Conclude(d, r, "missing")
       \/ r \in reachable \cap exists /\ pc[d] = "orphans" /\ archive /\ Conclude(d, r, "none")
    /\ UNCHANGED <<host, history>>

Deletable(d, r) ==
    /\ pc[d] = "branches" \/ (pc[d] = "orphans" /\ ~archive)
    /\ step[d] = "next" /\ r \in todo[d] /\ r \in reachable \cap exists

\* unapplied_session_commits: the commits no other local branch carries.  The baseline is
\* left out when the manifest says which commit it is.
Unapplied(d, r) ==
    tip[r] \ (applied[r] \cup (IF pc[d] = "branches" /\ read[d] THEN {Baseline} ELSE {}))

\* The gate is open with --force and for a branch with nothing unapplied; else the user
\* is asked about the commits counted now.
Gate(d, r) ==
    /\ Deletable(d, r)
    /\ cur' = [cur EXCEPT ![d] = r]
    /\ counted' = [counted EXCEPT ![d] = IF force[d] THEN {} ELSE Unapplied(d, r)]
    /\ step' = [step EXCEPT ![d] = IF counted'[d] = {} THEN "delete" ELSE "ask"]
    /\ UNCHANGED <<host, files, container, pc, todo, read, force, outcome, session, history>>

\* Mutant: a failure to list the commits counts as none to list.
GateFailsOpen(d, r) ==
    /\ Deletable(d, r) /\ ~force[d]
    /\ cur' = [cur EXCEPT ![d] = r]
    /\ step' = [step EXCEPT ![d] = "delete"]
    /\ UNCHANGED <<host, files, container, pc, counted, todo, read, force, outcome, session,
                   history>>

\* git cannot tell what is unapplied: fail closed.
GateFails(d, r) ==
    /\ Deletable(d, r) /\ ~force[d]
    /\ Conclude(d, r, "skipped")
    /\ UNCHANGED <<host, history>>

\* The user gives up the commits of the prompt.
Agree(d) ==
    /\ step[d] = "ask"
    /\ given_up' = [given_up EXCEPT ![cur[d]] = @ \cup counted[d]]
    /\ step' = [step EXCEPT ![d] = "delete"]
    /\ UNCHANGED <<host, files, container, pc, cur, counted, todo, read, force, outcome, session,
                   moved>>

\* Declined, or nobody there to ask.
Decline(d) ==
    /\ step[d] = "ask"
    /\ Conclude(d, cur[d], "skipped")
    /\ UNCHANGED <<host, history>>

\* `git branch -D`, whatever the branch carries by now; --force gives all of it up.
Delete(d) ==
    /\ step[d] = "delete"
    /\ cur[d] \in reachable \cap exists
    /\ exists' = exists \ {cur[d]}
    /\ given_up' = IF force[d] THEN [given_up EXCEPT ![cur[d]] = @ \cup tip[cur[d]]]
                               ELSE given_up
    /\ Conclude(d, cur[d], "deleted")
    /\ UNCHANGED <<reachable, tip, applied, moved>>

\* Mutant: the failure is filed as an unreachable repository.
DeleteFailsError(d) ==
    /\ step[d] = "delete"
    /\ Conclude(d, cur[d], "error")
    /\ UNCHANGED <<host, history>>

\* git refuses: the branch is checked out in a worktree, or somebody else deleted it.
DeleteFails(d) ==
    /\ step[d] = "delete"
    /\ Conclude(d, cur[d], "skipped")
    /\ UNCHANGED <<host, history>>

MayRemoveArchive(d) ==
    /\ archive
    /\ \A r \in Repos : outcome[d][r] # "skipped"
    /\ read[d] \/ (force[d] /\ \E r \in Repos : outcome[d][r] # "none")

\* The archive is removed or kept; the removal may throw half way, which ends a gc too.
\* The locals of the call go with it.
Finish(d) ==
    /\ pc[d] = "branches" /\ todo[d] = {}
    /\ \/ /\ IF MayRemoveArchive(d)
             THEN archive' = FALSE /\ readable' = FALSE /\ roots' = {}
             ELSE UNCHANGED files
          /\ pc' = [pc EXCEPT ![d] = IF d \in Collectors THEN "orphans" ELSE "ended"]
          /\ todo' = [todo EXCEPT ![d] = IF d \in Collectors THEN Repos ELSE {}]
       \/ /\ MayRemoveArchive(d)
          /\ UNCHANGED archive
          /\ \/ readable' = FALSE /\ roots' = {}
             \/ UNCHANGED <<readable, roots>>
          /\ pc' = [pc EXCEPT ![d] = "ended"]
          /\ UNCHANGED todo
    /\ outcome' = [outcome EXCEPT ![d] = [r \in Repos |-> "none"]]
    /\ read' = [read EXCEPT ![d] = FALSE]
    /\ UNCHANGED <<host, container, gate, force, session, history>>

GcEnds(d) ==
    /\ pc[d] = "orphans" /\ todo[d] = {}
    /\ pc' = [pc EXCEPT ![d] = "ended"]
    /\ UNCHANGED <<host, files, container, gate, todo, read, force, outcome, session, history>>

(***************************************************************************)
(* Everything beside the destroyers                                         *)
(***************************************************************************)
\* A session's exit has read the tip of a branch and applied the slice, which it still
\* could read from the container.
ExitReads(r) ==
    /\ exiting = NoRepo /\ MayExit
    /\ container /\ r \in reachable \cap exists
    /\ exiting' = r /\ parent' = tip[r]
    /\ UNCHANGED <<host, files, container, pc, gate, todo, read, force, outcome, history>>

\* `update-ref` creates the branch if it is gone.
ExitCommits(c) ==
    /\ exiting \in reachable
    /\ c \notin {Baseline} \cup tip[exiting] \cup applied[exiting] \cup given_up[exiting]
    /\ exists' = exists \cup {exiting}
    /\ tip' = [tip EXCEPT ![exiting] = parent \cup {c}]
    /\ exiting' = NoRepo /\ parent' = {}
    /\ UNCHANGED <<reachable, applied, files, container, pc, gate, todo, read, force, outcome,
                   history>>

ExitFails ==
    /\ exiting # NoRepo
    /\ exiting' = NoRepo /\ parent' = {}
    /\ UNCHANGED <<host, files, container, pc, gate, todo, read, force, outcome, history>>

Apply(r, c) ==
    /\ r \in reachable \cap exists /\ c \in tip[r] \ applied[r]
    /\ applied' = [applied EXCEPT ![r] = @ \cup {c}]
    /\ UNCHANGED <<reachable, exists, tip, files, container, pc, gate, todo, read, force,
                   outcome, session, history>>

BranchDeleted(r) ==
    /\ r \in reachable \cap exists /\ exiting # r
    /\ exists' = exists \ {r}
    /\ given_up' = [given_up EXCEPT ![r] = @ \cup tip[r]]
    /\ UNCHANGED <<reachable, tip, applied, files, container, pc, gate, todo, read, force,
                   outcome, session, moved>>

MoveAway(r) ==
    /\ r \in reachable \cap Movable
    /\ reachable' = reachable \ {r} /\ moved' = moved \cup {r}
    /\ UNCHANGED <<exists, tip, applied, files, container, pc, gate, todo, read, force,
                   outcome, session, given_up>>

MoveBack(r) ==
    /\ r \in Repos \ reachable
    /\ reachable' = reachable \cup {r}
    /\ UNCHANGED <<exists, tip, applied, files, container, pc, gate, todo, read, force,
                   outcome, session, history>>

-----------------------------------------------------------------------------
Destroy(d) ==
    \/ GcLists(d) \/ Begin(d)
    \/ \E r \in Repos : NothingToDelete(d, r) \/ Gate(d, r) \/ GateFails(d, r)
    \/ Agree(d) \/ Decline(d) \/ Delete(d) \/ DeleteFails(d)
    \/ Finish(d) \/ GcEnds(d)

Environment ==
    \/ \E r \in Repos : ExitReads(r) \/ BranchDeleted(r) \/ MoveAway(r) \/ MoveBack(r)
    \/ \E c \in Commits : ExitCommits(c)
    \/ ExitFails
    \/ \E r \in Repos, c \in Commits : Apply(r, c)

Next == (\E d \in Destroyers : Destroy(d)) \/ Environment

Spec == Init /\ [][Next]_vars

-----------------------------------------------------------------------------
\* The types of the variables; a destroyer at a branch has a repository at hand.
TypeOK ==
    /\ reachable \subseteq Repos /\ exists \subseteq Repos
    /\ tip \in [Repos -> SUBSET Commits] /\ applied \in [Repos -> SUBSET Commits]
    /\ archive \in BOOLEAN /\ readable \in BOOLEAN /\ roots \subseteq Repos
    /\ container \in BOOLEAN
    /\ pc \in [Destroyers -> Pcs] /\ step \in [Destroyers -> {"next", "ask", "delete"}]
    /\ todo \in [Destroyers -> SUBSET Repos] /\ cur \in [Destroyers -> Repos \cup {NoRepo}]
    /\ counted \in [Destroyers -> SUBSET Commits] /\ read \in [Destroyers -> BOOLEAN]
    /\ force \in [Destroyers -> BOOLEAN]
    /\ outcome \in [Destroyers -> [Repos -> Outcomes]]
    /\ exiting \in Repos \cup {NoRepo} /\ parent \subseteq Commits
    /\ given_up \in [Repos -> SUBSET Commits] /\ moved \subseteq Repos
    /\ \A d \in Destroyers :
          step[d] # "next" => cur[d] \in todo[d] /\ pc[d] \in {"branches", "orphans"}

\* The commits of the patchlab branch of r, none if the branch is gone.
Held(r) == IF r \in exists THEN tip[r] ELSE {}

\* No step takes a session commit off a patchlab branch, unless another branch carries it
\* or the user has given it up: the gate of delete.ts refuses "to delete rather than risk
\* destroying the only copy".
UnappliedKept ==
    [][\A r \in Repos :
        Held(r) \ (Held(r)' \cup {Baseline}) \subseteq applied'[r] \cup given_up'[r]]_vars

\* The step with which d is through with the branches.
Concludes(d) == pc[d] = "branches" /\ pc'[d] # "branches"

\* Whoever removes the archive leaves no repository with the branch, save those that it
\* found away and, if it went on with --force and no manifest, those that were not
\* recovered from one.
ArchiveGoesLast ==
    [][archive /\ ~archive' =>
        \E d \in Destroyers :
            /\ Concludes(d)
            /\ \A r \in exists : \/ r \in moved /\ outcome[d][r] = "error"
                                 \/ ~read[d] /\ force[d] /\ outcome[d][r] = "none"]_vars
=============================================================================
