------------------------------ MODULE Workspace ------------------------------
(***************************************************************************)
(* What a container's workspace is filled with, and what comes back: the   *)
(* sources copied by `patchlab create` (src/sandbox/workspace_staging.ts), *)
(* the branch tip and the host files below it of `patchlab resume`         *)
(* (src/branch/archive.ts, src/branch/diff_read.ts), the files of --copy,  *)
(* carried from session to session (src/sandbox/workspace_copies.ts), and  *)
(* the slice a session's exit applies to the branch.                       *)
(*                                                                         *)
(* A tree is a function from the files of the workspace to their contents, *)
(* a link's being its target.  The names are such as git lists unquoted.   *)
(* What a failed resume does to containers is in ResumeSandbox, the steps  *)
(* of the exit in SessionCommit.                                           *)
(***************************************************************************)
EXTENDS Integers

CONSTANTS
    Files, Contents, Absent,
    Ignored,        \* by .gitignore, which the workspace shares
    Secret,         \* matched by DEFAULT_SECRET_EXCLUDES
    UserExcluded,   \* matched by --exclude or missed by --include
    Outward,        \* links whose target is, by its name, out of their source
    Chained,        \* links within it to nothing, or to a link that leads out
    Submodule,      \* the files below a gitlink
    CopyTargets,    \* destinations a --copy may name
    Locks,          \* files the package managers write
    Checkouts,      \* what a user may start with: records of Checkout
    MaxEdits,       \* bound: changes by the user
    MaxChanges,     \* bound: changes by the tool, in all sessions
    MaxSessions     \* bound: the create and the resumes begun after it

ASSUME WorkspaceAssumption ==
    /\ Absent \notin Contents
    /\ Checkouts \subseteq
        [tree : [Files -> Contents \cup {Absent}], index : SUBSET (Files \ Submodule),
         copies : [Files -> Contents \cup {Absent}]]
    /\ \A S \in {Ignored, Secret, UserExcluded, Outward, Chained, Submodule, CopyTargets, Locks} :
        S \subseteq Files
    /\ {MaxEdits, MaxChanges} \subseteq Nat /\ MaxSessions \in Nat \ {0}

VARIABLES
    \* the host: working tree, index, tip of the patchlab branch, what the
    \* sources of --copy hold, by destination
    host, tracked, branch, offered,
    \* the container: workspace, HEAD of its own repository
    work, base,
    \* workspace-copies, by destination, in the highest session directory and in
    \* the one before it, which is the highest again when a resume fails
    archive, previous,
    \* the process: its options, the listing of the branch, the staged overlay
    pc, command, secrets, submodules, given, listed, staged,
    \* history: the files the branch had when it was listed, the branch as a
    \* resume exported it, what the tool and failed installs changed, the copies
    \* restored, what the exit put on the branch
    had, exported, touched, leftovers, restored, delivered,
    \* history: each copy as the user gave it or a session left it, those of which
    \* only an older form was saved, and those that were dropped
    last, stale, gone,
    edits, changes, sessions

repository == <<host, tracked, branch, offered>>
container  == <<work, base>>
copies     == <<archive, previous>>
process    == <<pc, command, secrets, submodules, given, listed, staged>>
session    == <<had, exported, touched, leftovers, restored, delivered>>
fate       == <<last, stale, gone>>
vars       == <<repository, container, copies, process, session, fate, edits, changes, sessions>>

Trees   == [Files -> Contents \cup {Absent}]
Nowhere == [f \in Files |-> Absent]
Of(tree) == {f \in Files : tree[f] # Absent}

\* The files of `set` as tree a has them, the others as tree b does.
Overwrite(b, set, a) == [f \in Files |-> IF f \in set THEN a[f] ELSE b[f]]

(***************************************************************************)
(* resolve_files: what git lists, tracked files that are gone included; or *)
(* everything there is, when git's listing cannot be had (it fails, or is  *)
(* longer than the buffer of execSync).                                    *)
(***************************************************************************)
GitListed == (tracked \cup (Of(host) \ Ignored)) \ Submodule
Listings  == {GitListed, Of(host)}

\* include_secret_files is an option of the create alone.
Excluded(opt_in) == UserExcluded \cup (IF opt_in THEN {} ELSE Secret)

\* stage_one_source_file goes by the real path: what is gone, broken or leads out,
\* by however many links, is skipped.
Stageable(set) == (set \cap Of(host)) \ (Outward \cup Chained)

\* stage_one_overlay_file goes by the target's name: a link within the source is
\* made again, or becomes a placeholder, wherever it leads.
Overlaid(set) == set \ Outward

\* stage_submodule lists the submodule by its own git.
SubmoduleFiles(allowed) == IF allowed THEN Submodule ELSE {}

\* list_branch_files: nothing where `git ls-tree` fails.
BranchLists == {Of(branch), {}}

Init ==
    /\ \E checkout \in Checkouts :
        host = checkout.tree /\ tracked = checkout.index /\ offered = checkout.copies
    /\ branch = Overwrite(Nowhere, GitListed, host)
    /\ work = Nowhere /\ base = Nowhere /\ archive = Nowhere /\ previous = Nowhere
    /\ pc = "sources" /\ command = "create"
    /\ secrets \in BOOLEAN /\ submodules \in BOOLEAN /\ given \in SUBSET CopyTargets
    /\ listed = {} /\ staged = Nowhere
    /\ had = {} /\ exported = Nowhere /\ touched = {} /\ leftovers = {} /\ restored = {}
    /\ delivered = {} /\ last = Nowhere /\ stale = {} /\ gone = {} 
    /\ edits = 0 /\ changes = 0
    /\ sessions = 1

Goto(next) == pc' = next

\* A source that is missing is skipped.
Offered == given \cap Of(offered)

(***************************************************************************)
(* create                                                                  *)
(***************************************************************************)
\* initialize_submodule clones into the submodule's directory on the host.
InitialiseSubmodule ==
    /\ pc = "sources" /\ submodules /\ Submodule # {} /\ Submodule \cap Of(host) = {}
    /\ \E content \in Contents :
        host' = Overwrite(host, Submodule, [f \in Files |-> content])
    /\ UNCHANGED <<tracked, branch, offered, container, copies, process, session, fate, edits,
                   changes, sessions>>

\* copy_multi_source_files into the emptied workspace.
CopySourceFiles ==
    /\ pc = "sources"
    /\ \E names \in Listings :
        LET entries == names \cup SubmoduleFiles(submodules)
        IN  work' = Overwrite(Nowhere, Stageable(entries \ Excluded(secrets)), host)
    /\ Goto("copies")
    /\ UNCHANGED <<repository, base, copies, command, secrets, submodules, given, listed, staged,
                   session, fate, edits, changes, sessions>>

\* copy_additional_paths
CopyAdditional ==
    /\ pc = "copies"
    /\ work' = Overwrite(work, Offered, offered)
    /\ last' = Overwrite(last, Offered, offered)
    /\ Goto("baseline")
    /\ UNCHANGED <<repository, base, copies, command, secrets, submodules, given, listed, staged,
                   session, stale, gone, edits, changes, sessions>>

\* `git add -A` in the container's own repository, and a commit.
Committed(tree) == Overwrite(tree, Ignored, Nowhere)

\* Mutant: the baseline of a resume is committed before the overlay is in.
BaselineBeforeOverlay ==
    /\ pc = "baseline"
    /\ base' = Committed(IF command = "resume" THEN exported ELSE work)
    /\ Goto("install")
    /\ UNCHANGED <<repository, work, copies, command, secrets, submodules, given, listed, staged,
                   session, fate, edits, changes, sessions>>

\* initialize_sandbox_git_baseline
Baseline ==
    /\ pc = "baseline"
    /\ base' = Committed(work)
    /\ Goto("install")
    /\ UNCHANGED <<repository, work, copies, command, secrets, submodules, given, listed, staged,
                   session, fate, edits, changes, sessions>>

\* install_dependencies and install_npm_packages: a failure is a warning, and
\* leaves what it wrote uncommitted.
Install ==
    /\ pc = "install"
    /\ \E written \in SUBSET Locks, content \in Contents, succeeded \in BOOLEAN :
        /\ work' = Overwrite(work, written, [f \in Files |-> content])
        /\ base' = IF succeeded THEN Committed(work') ELSE base
        /\ leftovers' = IF succeeded THEN {} ELSE written
    /\ Goto(IF command = "create" THEN "archive" ELSE "claim")
    /\ UNCHANGED <<repository, copies, command, secrets, submodules, given, listed, staged,
                   had, exported, touched, restored, delivered, fate, edits, changes, sessions>>

\* copy_workspace_copies_to_archive reads the sources once more, which the user may
\* have changed or removed since they were copied into the workspace.
ArchiveCopies ==
    /\ pc = "archive"
    /\ archive' = Overwrite(Nowhere, Offered, offered)
    /\ stale' = {f \in given : offered[f] # last[f]} /\ gone' = given \ Offered
    /\ Goto("session")
    /\ UNCHANGED <<repository, container, previous, command, secrets, submodules, given, listed,
                   staged, session, last, edits, changes, sessions>>

(***************************************************************************)
(* The session and its exit                                                *)
(***************************************************************************)
Tool ==
    /\ pc = "session" /\ changes < MaxChanges /\ changes' = changes + 1
    /\ \E f \in Files, content \in Contents \cup {Absent} :
        /\ work' = [work EXCEPT ![f] = content]
        /\ touched' = touched \cup {f}
    /\ UNCHANGED <<repository, base, copies, process, had, exported, leftovers, restored,
                   delivered, fate, edits, sessions>>

\* The copies a session has when it ends, whether or not they are saved.
Left == Of(last) \cap Of(work)

\* extract_workspace_copies: a copy the tool removed, or one that cannot be
\* read, stays as it was archived.
ExtractCopies ==
    /\ pc = "session"
    /\ \E unreadable \in SUBSET Of(archive) :
        LET extracted == (Of(archive) \cap Of(work)) \ unreadable
        IN  /\ archive' = Overwrite(archive, extracted, work)
            /\ stale' = (stale \ extracted) \cup (Left \cap unreadable)
    /\ last' = Overwrite(last, Left, work)
    /\ Goto("deliver")
    /\ UNCHANGED <<repository, container, previous, command, secrets, submodules, given, listed,
                   staged, session, gone, edits, changes, sessions>>

\* Mutant: the slice is taken from the workspace's files, not from the index.
SliceOfWorkspace == {f \in Files : work[f] # base[f]}

\* What `git add -A` and a diff against HEAD show.
Slice == {f \in Files \ Ignored : work[f] # base[f]}

\* The slice is applied as a whole, or saved as a fallback patch.
Deliver ==
    /\ pc = "deliver"
    /\ \/ /\ \A f \in Slice : branch[f] = base[f]
          /\ branch' = Overwrite(branch, Slice, work)
          /\ delivered' = Slice
       \/ /\ \E f \in Slice : branch[f] # base[f]
          /\ UNCHANGED <<branch, delivered>>
    /\ Goto("exited")
    /\ UNCHANGED <<host, tracked, offered, container, copies, command, secrets, submodules, given,
                   listed, staged, had, exported, touched, leftovers, restored, fate, edits,
                   changes, sessions>>

\* The CLI is killed during the session, and the copies are not saved, or during its
\* exit.
Killed ==
    /\ \/ /\ pc = "session"
          /\ last' = Overwrite(last, Left, work) /\ stale' = stale \cup Left
       \/ /\ pc = "deliver"
          /\ UNCHANGED <<last, stale>>
    /\ Goto("exited")
    /\ UNCHANGED <<repository, container, copies, command, secrets, submodules, given, listed,
                   staged, session, gone, edits, changes, sessions>>

(***************************************************************************)
(* resume                                                                  *)
(***************************************************************************)
\* A new container; where the resume fails, ResumeSandbox puts the last one back.
Begin ==
    /\ pc = "exited" /\ sessions < MaxSessions
    /\ sessions' = sessions + 1 /\ command' = "resume"
    /\ given' \in SUBSET CopyTargets /\ secrets' = FALSE /\ submodules' = FALSE
    /\ listed' = {} /\ staged' = Nowhere
    /\ work' = Nowhere /\ base' = Nowhere /\ had' = {} /\ exported' = Nowhere
    /\ touched' = {} /\ leftovers' = {} /\ restored' = {} /\ delivered' = {}
    /\ Goto("overlay")
    /\ UNCHANGED <<repository, copies, fate, edits, changes>>

\* Mutant: the overlay relies on the create having left the excluded files out.
WantedWithExcluded(names, list) == names \ list

\* The files the branch lacks.
Wanted(names, list) == names \ (Excluded(secrets) \cup list)

\* build_branch_file_set and overlay_multi_source_host_files.
StageOverlay ==
    /\ pc = "overlay"
    /\ \E names \in Listings, list \in BranchLists :
        /\ Wanted(names, list) \subseteq Of(host)
        /\ staged' = Overwrite(Nowhere, Overlaid(Wanted(names, list)), host)
        /\ listed' = list
    /\ had' = Of(branch)
    /\ Goto("export")
    /\ UNCHANGED <<repository, container, copies, command, secrets, submodules, given, exported,
                   touched, leftovers, restored, delivered, fate, edits, changes, sessions>>

\* lstat of a listed file that is gone throws.
StageOverlayFails ==
    /\ pc = "overlay"
    /\ \E names \in Listings, list \in BranchLists : ~(Wanted(names, list) \subseteq Of(host))
    /\ Goto("exited")
    /\ UNCHANGED <<repository, container, copies, command, secrets, submodules, given, listed,
                   staged, session, fate, edits, changes, sessions>>

\* prepare_workspace and export_per_source_branch_tip_to_container
ExportBranch ==
    /\ pc = "export"
    /\ work' = branch /\ exported' = branch
    /\ Goto("place")
    /\ UNCHANGED <<repository, base, copies, command, secrets, submodules, given, listed, staged,
                   had, touched, leftovers, restored, delivered, fate, edits, changes, sessions>>

\* The archive is too large and not confirmed, or tar fails.
ExportFails ==
    /\ pc = "export"
    /\ Goto("exited")
    /\ UNCHANGED <<repository, container, copies, command, secrets, submodules, given, listed,
                   staged, session, fate, edits, changes, sessions>>

\* overlay_into_container
PlaceOverlay ==
    /\ pc = "place"
    /\ work' = Overwrite(work, Of(staged), staged) /\ staged' = Nowhere
    /\ Goto("baseline")
    /\ UNCHANGED <<repository, base, copies, command, secrets, submodules, given, listed,
                   session, fate, edits, changes, sessions>>

\* claim_session_directory: one more than the highest directory, with nothing in it.
Claim ==
    /\ pc = "claim"
    /\ archive' = Nowhere /\ previous' = archive
    /\ Goto("merge")
    /\ UNCHANGED <<repository, container, command, secrets, submodules, given, listed, staged,
                   session, fate, edits, changes, sessions>>

\* Mutant: only the copies of this command are archived for the new session.
NewCopies == Overwrite(Nowhere, given, offered)

\* merge_resume_workspace_copies, from the directory before the claimed one: a
\* destination named again is replaced, even by a source that is missing.
MergedCopies == Overwrite(previous, given, offered)

\* Mutant: the copies go over what the branch has.
RestoreAllCopies ==
    /\ pc = "merge"
    /\ archive' = MergedCopies
    /\ restored' = Of(archive') \ listed
    /\ work' = Overwrite(work, Of(archive'), archive')
    /\ last' = Overwrite(last, Offered, offered)
    /\ stale' = stale \ given /\ gone' = (gone \ given) \cup (given \ Offered)
    /\ Goto("session")
    /\ UNCHANGED <<repository, base, previous, command, secrets, submodules, given, listed, staged,
                   had, exported, touched, leftovers, delivered, edits, changes, sessions>>

\* The merged copies, after the baseline, where the listing has no file of the branch.
RestoreCopies ==
    /\ pc = "merge"
    /\ archive' = MergedCopies
    /\ restored' = Of(archive') \ listed
    /\ work' = Overwrite(work, restored', archive')
    /\ last' = Overwrite(last, Offered, offered)
    /\ stale' = stale \ given /\ gone' = (gone \ given) \cup (given \ Offered)
    /\ Goto("session")
    /\ UNCHANGED <<repository, base, previous, command, secrets, submodules, given, listed, staged,
                   had, exported, touched, leftovers, delivered, edits, changes, sessions>>

\* A step after the claim throws: discard_unwritten_session, and the container goes.
ResumeFails ==
    /\ pc = "merge"
    /\ archive' = previous /\ previous' = Nowhere
    /\ work' = Nowhere /\ base' = Nowhere
    /\ Goto("exited")
    /\ UNCHANGED <<repository, command, secrets, submodules, given, listed, staged, session, fate,
                   edits, changes, sessions>>

\* The CLI is killed there, and the directory stays with what was merged so far.
ResumeKilled ==
    /\ pc = "merge"
    /\ \E merged \in SUBSET CopyTargets :
        /\ archive' = Overwrite(Nowhere, merged, MergedCopies)
        /\ gone' = gone \cup (CopyTargets \ merged) \cup given
    /\ Goto("exited")
    /\ UNCHANGED <<repository, container, previous, command, secrets, submodules, given, listed,
                   staged, session, last, stale, edits, changes, sessions>>

\* The user works on the host, or commits to the patchlab branch.
Edit ==
    /\ edits < MaxEdits /\ edits' = edits + 1
    /\ \E f \in Files, content \in Contents \cup {Absent} :
        \/ host' = [host EXCEPT ![f] = content] /\ UNCHANGED <<tracked, branch, offered>>
        \/ /\ f \notin Submodule /\ host[f] # Absent
           /\ tracked' = tracked \cup {f} /\ UNCHANGED <<host, branch, offered>>
        \/ /\ f \notin Submodule
           /\ branch' = [branch EXCEPT ![f] = content] /\ UNCHANGED <<host, tracked, offered>>
        \/ /\ f \in CopyTargets
           /\ offered' = [offered EXCEPT ![f] = content] /\ UNCHANGED <<host, tracked, branch>>
    /\ UNCHANGED <<container, copies, process, session, fate, changes, sessions>>

Next ==
    \/ InitialiseSubmodule \/ CopySourceFiles \/ CopyAdditional \/ Baseline \/ Install
    \/ ArchiveCopies
    \/ Tool \/ ExtractCopies \/ Deliver \/ Killed
    \/ Begin \/ StageOverlay \/ StageOverlayFails \/ ExportBranch \/ ExportFails \/ PlaceOverlay
    \/ Claim \/ RestoreCopies \/ ResumeFails \/ ResumeKilled
    \/ Edit

Spec == Init /\ [][Next]_vars

-----------------------------------------------------------------------------
TypeOK ==
    /\ {host, branch, offered, work, base, archive, previous, staged, exported, last}
          \subseteq Trees
    /\ tracked \subseteq Files \ Submodule
    /\ pc \in {"sources", "copies", "baseline", "install", "archive", "session", "deliver",
               "exited", "overlay", "export", "place", "claim", "merge"}
    /\ command \in {"create", "resume"} /\ secrets \in BOOLEAN /\ submodules \in BOOLEAN
    /\ given \subseteq CopyTargets /\ listed \subseteq Files /\ had \subseteq Files
    /\ touched \subseteq Files /\ leftovers \subseteq Locks
    /\ restored \subseteq Files /\ delivered \subseteq Files \ Ignored
    /\ stale \subseteq Files /\ gone \subseteq Files
    /\ edits \in 0..MaxEdits /\ changes \in 0..MaxChanges /\ sessions \in 1..MaxSessions

\* Nothing comes to the branch that nobody changed in the container: no host
\* file of the overlay, no --copy of the create and nothing an install wrote.
\* Two exceptions are in the code: copies that a resume restores after its
\* baseline, and files of an install that failed.
OnlyTheToolsWork == delivered \subseteq touched \cup leftovers \cup (restored \ Ignored)

\* A resumed session starts from the branch's content of every file the branch had
\* when it was listed: neither the overlay of the host's files nor a copy goes over
\* it, whatever changed on the host and on the branch while it was put together;
\* provided the listing did not fail (diff_read.ts:214-216, 261-263), after which the
\* resume goes on as if the branch were empty.
BranchWins ==
    (command = "resume" /\ pc \in {"claim", "merge", "session"} /\ listed = had) =>
        \A f \in had \ (touched \cup Locks) : work[f] = exported[f]

\* A file given by --copy is in every later session, unless the branch has it: as the
\* last session left it, or in an older form if that session was killed or the file
\* could not be copied out, over a tool that removed it and resumes that failed. It is
\* dropped (`gone`) in two cases only: when it is named again and its source is missing,
\* and when a resume is killed before it has merged, the next one merging from that
\* resume's directory (provisioning.ts:1031, 1053).
CopiesSurvive ==
    (command = "resume" /\ pc = "session") =>
        \A f \in Of(last) \ (listed \cup touched \cup gone) :
            IF f \in stale THEN f \in Of(work) ELSE work[f] = last[f]

\* An excluded file, and a link whose target is out of its source, is in the workspace
\* only when the tool or an install made it, the user copied it or the branch that a
\* resume exports carries it, whatever git's listings said; a resume forgets
\* --include-secrets and never the exclusion. A create leaves out links that lead out
\* by way of others too; a resume looks at the first target only, and makes them again.
ExcludedStaysOut ==
    pc \in {"session", "deliver"} =>
        (Excluded(secrets) \cup Outward \cup (IF command = "create" THEN Chained ELSE {}))
            \cap Of(work) \subseteq touched \cup given \cup Of(archive) \cup Locks \cup Of(exported)
=============================================================================
