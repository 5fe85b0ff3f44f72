# Verification of patchlab

Patchlab runs a coding tool in a container, on a copy of the user's sources. When
the tool exits, patchlab takes the diff of each repository out of the container
and puts it on a host branch `patchlab/{id}`, without touching the user's working
tree. Everything the host remembers of a patchlab is in its archive
`~/.patchlab/{id}`: the manifest, one directory with `metadata.json` per session,
fallback patches and artifacts.

There is no lock anywhere. Every command is a process of its own that reads the
state it finds (git refs, files, containers), talks to git and to the container
runtime for seconds or minutes, and writes. Two terminals, a user at work in the
repositories, a container that stops, and a kill at any moment are what the
modules here put beside each command.

All modules are written from the TypeScript under `src/src`; `PROJECT.json` maps
each definition to its lines.

## Inventory

What each part keeps, does, and must get right. "Hard" names what makes it so.

| component | state | operations | hard | correct when | model |
|---|---|---|---|---|---|
| Session exit (`branch/session_commit.ts`, `cli.ts`) | container's private index and HEAD, branch tips, session metadata | stage, slice per repository, streamed apply into a temporary index, `update-ref`, fallback patch, advance HEAD, record, finalize | one step of several failing, kill, `diff` beside it, branch deleted or moved meanwhile | "completed" only if the work is on the branch or in a patch of its own; HEAD hides nothing undelivered of what the exit staged in the mounts | `SessionCommit`, `SessionOutcome` |
| Pending diff (`patches.ts`, `branch/diff_read.ts`) | the container's index | stage, read, reset | shares the index with the exit | leaves what the exit reads alone | in `SessionCommit` |
| Create (`sandbox/provisioning.ts`, `branch_handshake.ts`, `branch/create.ts`) | branches, archive, container, proxy | check all repositories, make the branches with baselines, provision, write manifest and session, roll back | partial failure over several repositories, gc beside it, edits between check and use | all or nothing; container starts from the branch's tree | `CreateSandbox` |
| Destroy and gc (`sandbox/garbage_collection.ts`, `branch/delete.ts`) | container, branches, archive | remove container, gate and delete per repository, remove archive, scan for orphans | prompt between count and deletion, several destroyers, unreadable manifest | no only copy of a commit goes unasked; archive last | `DestroySandbox` |
| Resume (`sandbox/provisioning.ts`, `container_runtime/index.ts`) | container names, session directories | preflight, stop previous, staging container, claim, restore, two renames, write, roll back | partial failure between renames, concurrent resumes, kill | session numbers unique; failure puts the previous container back; work kept until committed | `ResumeSandbox` |
| Session archive (`archive.ts`, `sandbox/session_archive.ts`) | `sessions/{n}`, `metadata.json` | claim, write, record, finalize, discard | read-modify-write, crash between mkdir and metadata | a crashed session is never "completed" | in `SessionCommit`, `ResumeSandbox` |
| Manifest (`manifest.ts`) | `manifest.json` | write, validate, migrate legacy fields, recover roots | unreadable but parsable | roots are found when they are there | in `CreateSandbox`, `DestroySandbox` |
| Apply to the host (`branch/apply.ts`) | current branch, index, patchlab branch, session metadata | reject, collect candidates, `git cherry`, cherry-picks; diff and `git apply --3way`; `merge`, `merge --squash`; commit | conflicts and re-runs, the user's own index, a commit that fails, a branch that grows or goes meanwhile | the report is true; the baseline lands only when asked for; staged work of the user's is not committed | `ApplyBranch` |
| Workspace staging, export and copies (`workspace_staging.ts`, `branch/archive.ts`, `workspace_copies.ts`, `sources.ts`) | the container's tree and baseline, copies in the archive | list, exclude, copy, initialise submodules, commit; export the branch, overlay the host's files, restore the copies | listing and export at different times, files that are both tracked and excluded, copies over a killed session | only the tool's work is delivered; the branch wins; copies survive; excluded files stay out | `Workspace` |
| Local model proxy (`local_model_proxy`) | detached daemon, `host-proxy.json` | start or reuse, stop, daemon start and end | pid reuse, torn metadata, two starters, a daemon that starts late | no stranger killed, no orphan, the container's ports are served | `HostProxy` |
| Image tier and images (`images.ts`, `sandbox/image_tier.ts`) | images, tags and labels | find or build the default image, resolve, authenticate, upgrade, commit, promote | tags shared by all creates, labels written before what they say is known | what the labels let a create leave out is there | `ImageTier` |
| Resource limits and configuration (`resource_limits.ts`, `configuration.ts`, `persisted_resource_limits.ts`) | configuration files, limits in session metadata | parse, merge repositories, clamp, persist, carry to a resume | layers, units, zero and boundaries, sessions without metadata | repositories only tighten; a choice survives resumes | `ResourceLimits` |
| Trust of per-source tools, tool registry, default tool (`tools/`) | trust markers, preferences, the registry of the process | register, choose the tool, show, confirm, mark, verify again | hash at the check, use later; registration twice per command | nothing runs that was not confirmed in these bytes; the tool is the one the user chose | `TrustGate` |
| Container runtime, host access, extraction, CLI | none of their own, or the above | | | | partly, inside the modules that call them |
| Safe file system, patch files, diff path rewrite, detection, inspect | none or one file | | | | not modelled, see below |

How they interact: through the host's git refs (exit, create, destroy, apply), the
archive (all commands), the container's name and private repository (exit, diff,
resume, destroy), the machine's images (creates of any patchlab) and the proxy's
metadata file. No messages and no callbacks between commands, except the prompts,
which may take minutes.

`PROJECT.json` lists all 28 components, and under "hazards" the places in the
modelled part that a test would hardly reach, with the properties that cover them.

## Modules

Each module has one action per step between which another process can run, a
program counter `pc` for each process of the CLI, and grouped variables. Data is
abstracted to what the properties tell apart: in the modules of the branches a tree
is the set of the changes it contains, a commit is a change, the diff of two trees a
set difference; in `ApplyBranch`, where conflicts matter, and in `Workspace`, where
the question is whose file it is, a tree gives every file a value. What a step only
reads or prints is left out.

**SessionCommit** (`SessionOutcome`, `SessionCommitProofs`). `pc` follows
`extract_session_to_branch` (artifacts, stage, loop, record, finalize) and within
the loop `fan_out_to_one_repository` (confirm, check, tip, apply, update,
fallback). `running`, `work`, `index`, `head` are the container's; `exists`,
`content` the branches; `saved`, `recorded`, `status` the archive. `Abort` is an
exception out of the fan-out. `diff` may stage and reset the index at any moment before
and after the exit, and with `ConcurrentDiff` during it. `promise` (what the exit
staged) and `landed` (the branch's tree when a repository was decided) are history.
`SessionOutcome` is the abstract promise: each repository is decided once, all are
recorded together, none is pending in a completed session.
`Promise == INSTANCE SessionOutcome WITH ...` names the mapping, in which the
outcomes, the record and the status are the exit's own variables and everything else
is hidden; `ImplementsSessionOutcome` is `Promise!Spec`.

**CreateSandbox** (`CreateSandboxProofs`). Phase 1 (`Preflight`) checks all
repositories, phase 2 makes the archive directory, the branches and, for a dirty
tree, a baseline commit; provisioning follows `provision_new_sandbox`; `TearDown`,
`RollBackBranch`, `RemoveArchive` are the catch blocks. Each removal is best
effort: what could not be removed is in `leftover`, `stuck`, `kept`. `touched`
holds the repositories edited after their check. `Taken` is what the copy takes of a
working tree: not what the filters and the secret excludes drop (`LeftOut`), a
submodule's contents only if it may, ignored files if git's listing failed;
`CopyAdditional` puts the files of `--copy` over it (`Target`, `Replaces`). Files whole
are followed in `Workspace`; here the question is whether branch and workspace agree.

**DestroySandbox** (`DestroySandboxProofs`). Several destroyers, each a `destroy`
or a `gc`. `pc` is the phase, `step` the place within one repository's turn: the
gate counts (`counted`), the user is asked, the branch goes. `read`, `force`,
`outcome` are locals of `destroy_sandbox`. Beside them commits are applied to other
branches (`applied`), branches deleted, repositories moved away, and a session's
exit reads a tip and commits on it. `given_up` is what the user agreed to lose.

**ResumeSandbox** (`ResumeSandboxProofs`). Several resumes of one patchlab. `name`
says under which kind of name each container exists (the canonical one is
`"main"`), `sess` what each session directory is, `checked` the session a preflight
found, `restored` the directory the tool's state and the copies came from. `Discard`,
`ContainersBack`, `ManifestBack` are the rollbacks; `faulted` records that one of their
steps failed, `alone` that no other resume was under way.

**ApplyBranch** (`ApplyBranchProofs`). One command after another on one host
repository, as `apply_patchlab_branch` knows only one. `pc` is where it is: `cherry`
and `pick` for cherry-picks, `index` and `diff` for the squash without the
baseline, `merge` for both kinds of merge, `commit` for both squashes. `Clean` and
`Merge` are git's three-way merge file by file, `Patch` is what `git cherry` compares
by its id. `host`, `patches`, `merged`, `squashed` are the current branch, `pending`
what a command left half done (a conflict, an empty pick, a squash not committed),
`mine` the user's own staged work, `raced` whether the user acted during the
command. The user does not rewrite the patchlab branch itself: a session commit
dropped from it, but still in the metadata, would be reported as already applied.

**Workspace** (`WorkspaceProofs`). One patchlab through its create, its sessions and
its resumes. `host`, `tracked`, `branch`, `offered` are the host's working tree,
index, branch tip and the sources of `--copy`; `work` and `base` the container's tree
and the baseline its exit compares with; `archive` the copies in the highest session
directory and `previous` those in the one before it. `InitialiseSubmodule` to
`ArchiveCopies` are a create, `Begin` to `RestoreCopies` a resume, `Tool`,
`ExtractCopies`, `Deliver` a session and its exit. `Claim` makes a resume's own, empty
directory; it merges from the one before (`RestoreCopies`), or fails and takes its
directory away (`ResumeFails`), or is killed and leaves it (`ResumeKilled`), from where
the next resume merges. `GitListed` is what `git ls-files` says, `Listings` adds the
walk over the file system that `resolve_files` falls back to; `BranchLists` adds to the
branch's files the empty list of a failed `git ls-tree`. A create leaves out a link by
its real path (`Stageable`), the overlay by the target's name alone (`Overlaid`):
`Outward` are the links both leave out, `Chained` those that only a create does, since
they lead to nothing or to a link that leads out. `had` is what the branch held when it
was listed, `last` how a session left each copy whether or not it was saved, `stale` and
`gone` the copies saved in an older form and the dropped ones. The glob patterns of
excludes are the sets of files they match, given as constants. The files are those with
names that git lists as they are (see below for the others).

**HostProxy** (`HostProxyProofs`). The commands of one patchlab and the processes of
the host by their pids. `Begin` to `Reread` are `start_host_proxy` and
`stop_host_proxy` as create, resume, every rollback and destroy call them; `Listen`,
`OpenMetadata`, `WriteMetadata`, `DaemonDies` are `main.ts`, whose write is not
atomic, so that a reader may meet a torn file; `Stranger` is another program that
gets a pid which is free. `baked` is what the container's configuration was written
with. `raced`, `died`, `failed` are history.

**ImageTier** (in `CreateSandboxProofs`). One base image and the tags derived from it, shared by several
creates. An image is what it holds and what its labels say, which is what the module
is about: each step trusts labels. `FindDefault` and `BuildDefault` are
`ensure_default_image`, `Resolve` to `CommitTool` a create's
`resolve_effective_image`, authentication, base upgrade and commit.
A user may edit a manifest or remove an image at any time.

**ResourceLimits** (in `ResumeSandboxProofs`). One field of the limits over a create and its resumes. `Load` is
how a configuration file's value is read, `ParseFlag` how a flag's, `Compose` the
fold over the repositories, `Clamp` and `Resolve` the resolver with the persisted
value, `Argv` what the runtime is told. Fields do not depend on each other, which is
why a behaviour follows one.

**TrustGate** (`TrustGateProofs`). Commands of one process each over repositories
whose manifests are sets of records; the hash of a repository's manifests is the set
itself. `Register`, the choice of the tool (`UseNamed`, `UseStored`, `AskForTool`,
`OptInTool`), `Verify` (skip, confirm, waive, decline), `Build`, and the second
registration and verification inside `create_sandbox` and `resume_sandbox`. A name is
a built-in's as long as no earlier registration of the process has replaced it
(`IsRegisteredBuiltin`). `marker`
and `preference` are files; `registry`, `snapshot`, `loaded` live in the process.
`approved`, `waived`, `executed`, `picked` are history.

## Runs

| run | checks | bounds |
|---|---|---|
| `session_commit` | `CompletedMeansDelivered`, `HeadHidesOnlyLateOrUnmounted`, `ImplementsSessionOutcome`, `ExtractionEnds` | two repositories of one basename, three edits (one oversized, one outside every mount), one host commit equal to an edit |
| `create_sandbox` | `CreatedIsWhole`, `FailedLeavesNothing`, `BaselineIsWorkspace` | two repositories, one with submodules and ignored files, three changes (one secret, one that a `--copy` replaces), a `--copy`, every initial dirt and every option |
| `destroy_sandbox` | `UnappliedKept`, `ArchiveGoesLast` | two repositories, one with a baseline, one movable, one session commit, a destroy and a gc |
| `resume_sandbox` | `ClaimsAreUnique`, `RollsBack`, `CommittedKept`, `RestoresNewest` | two resumes (symmetric), three session numbers |
| `apply_branch` | `ReportIsTrue`, `StagedWorkIsKept`, `BaselineOnlyWhenAsked` | two files (symmetric), three values, three patchlab commits, one commit of the user's, two commands of every mode and option |
| `workspace` | `TypeOK`, `OnlyTheToolsWork`, `BranchWins`, `CopiesSurvive`, `ExcludedStaysOut` | five files of different kinds, two contents, one checkout, three sessions, one change by the tool, one change by the user |
| `host_proxy` | `TypeOK`, `NoOrphan`, `ContainerIsServed`, `StrangersLive` | three commands, two pids, two model servers (all symmetric), a configuration names none or one |
| `image_tier` | `ImageTypeOK`, `ContainerHasCredentials`, `EarnedLabels`, `RecordedImageIsCurrent`, `DefaultIsFit` | two creates, a tool that copies credentials and one that takes a variable, two contents of the manifest, one edit or removal |
| `resource_limits` | `LimitsTypeOK`, `RepositoriesOnlyTighten`, `CappedUnlessUnlimited`, `ChoiceSurvives`, `ResumeKeepsTheCap` | four fields, two repositories, seven written values, three sessions, two edits, a tiny host |
| `trust_gate` | `TypeOK`, `NothingRunsUnconfirmed`, `MarkersAreConsent`, `TheUserChoseTheTool` | two repositories (symmetric), three names, five contents of a repository's tools (a built-in's name with and without leave), two edits, two commands |

Why these bounds are enough. A second repository is what makes a loop leave
something half done; a third adds no new pair. In `resume_sandbox` two resumes can
meet, follow each other, or one can fail on what the other left; the number 4 is
never claimed by two resumes and a session 1. In `apply_branch` three commits are a
baseline and two sessions, which may conflict, repeat or revert each other; the
second command meets what the first left; the user writes a value of their own, so
that an edit differs from both sides of a merge. In `workspace` the five files are
one below a submodule, a committed key, an ignored link that leads on, a link straight
out that a `--copy` may replace, and a lock file that an install writes: each exclusion
and each source of a file meets another. The third session is what a failed or killed
resume needs after it; the copies of the first session are by then two directories away.
In `host_proxy` two pids are one for the old daemon and one for the new, and
either can become another program's; the third command meets what two left. In
`image_tier` two creates are what it takes for one to read a label and the other to
write it. In `resource_limits` the host is so small that each default is a floor, the
unit is 4, and the values stand on the boundaries: zero as a number and as digits, a
negative one, one above the caps, one larger unit beside several lesser ones. In
`trust_gate` two commands are what a marker needs to matter, and two edits let a
repository change and change back. The unbounded theorems below show that nothing
depends on these numbers. Deadlock is not checked: every command ends, and the state
after it is final.

`TypeOK` of `SessionCommit`, `CreateSandbox`, `DestroySandbox`, `ResumeSandbox` and
`ApplyBranch` is proved and not run. In the others it is run and proved.

Two runs show a violation, a place where the code does other than its comments say.
In `session_diff_race` a `patchlab diff` resets the index between the exit's staging
and its slice; the session is "completed" with the work nowhere, though the diff calls
itself a read-only probe (`patches.ts:180-182`) and the fallback exists "so the user
never loses work" (`session_commit.ts:126`). In `resume_after_kill` a resume is killed
between `mkdir` and metadata, and the next one restores from the empty directory the
killed one left, because it takes the number before its own (`provisioning.ts:1031`): the
mistake `archive.ts:304-309` warns of, with the conversation and the copies of the
session that its own preflight has just found not restored. `RestoresChecked` is the
comment's promise; `RestoresNewest` is what holds, and allows exactly the directories that a
killed resume or a failed rollback left (`Abandoned`).

What the passing runs leave out, and the theorems too:

- `ConcurrentDiff = FALSE` in `session_commit` keeps a `diff` away from the exit:
  `session_diff_race` shows why. `ImplementsSessionOutcome` is proved with it, too.
- `Overlap = FALSE` in `destroy_sandbox`: sessions exit before or after a destroyer,
  not while one has counted and not yet deleted (see below).
- `EditsInResume = FALSE` in `trust_gate`: no repository changes between the two
  registrations of one resume (see below).
- `RollsBack`, `CommittedKept` and `RestoresNewest` speak of a resume that was `alone`,
  `ReportIsTrue` and `StagedWorkIsKept` of a command the user has not interfered with (`~raced`),
  `NoOrphan`, `RecordedImageIsCurrent` and `DefaultIsFit` of commands that did not
  meet (`~raced`), `ContainerIsServed` of a state in which none runs, was killed or
  met another, no daemon died and the last resume did not fail (`Quiet`, `~failed`).
- `RestoresNewest` excepts directories left by killed resumes and failed rollbacks,
  `CopiesSurvive` what is `gone`, `BranchWins` a failed listing, and
  `HeadHidesOnlyLateOrUnmounted` what its name says (see above and below).
- `EarnedLabels` and `ContainerHasCredentials` except an image whose commit labelled
  it "authenticated" though no copy had succeeded (`unearned`).

## Other divergences

Met while modelling, and not shown by a run of their own; the passing runs stay
clear of them as described.

Where a comment, a message or a document says otherwise:

- The fan-out "continues on failure" (`session_commit.ts:15-17`), but the branch's
  `rev_parse` (`session_commit.ts:618`) is outside the `try`: a branch deleted after
  the check ends the loop for the repositories behind it. `Abort` in `SessionCommit`;
  no safety property is broken by it, the session stays interrupted.
- HEAD of the container is advanced with a second `git add -A` (`session_commit.ts:581`),
  so it hides what was edited after the exit's staging and what lies outside every mount,
  although no repository received it, and `patchlab diff` shows it no more; the comment
  (`:573-574`) has HEAD "reflect the state actually extracted". `HeadHidesOnlyLateOrUnmounted`
  allows these two and nothing else.
- A failed `git ls-tree` counts as a branch without files (`diff_read.ts:214-216`,
  `:261-263`). The resume goes on, and the overlay and the copies go over the branch's
  files, though "host files never overwrite" (`resume_sandbox`'s comment). Hence
  `listed = had` in `BranchWins`.
- The copies are merged from the directory before the claimed one
  (`provisioning.ts:1031`, `:1053`), and "single-step look-back is sufficient across
  arbitrarily many resumes" (`workspace_copies.ts:170-173`). After a resume killed before
  its merge that directory has none: `gone` in `CopiesSurvive`.
- The overlay leaves out links that lead out ("such links can leak container-internal
  files", `workspace_staging.ts:590-594`), but looks only at the link's
  own target, by name (`symlink_compatibility.ts:33-50`, `:91-116`). A link within the
  source to one that leads out, or to nothing, is made again or becomes a placeholder;
  a create, which goes by the real path, leaves it out. Hence `Chained` only under
  `command = "create"` in `ExcludedStaysOut`.
- `update-ref` is called without the old value (`session_commit.ts:666`): a commit the
  user puts on the branch while the session's diff is applied is dropped from it.
- A failed resume's rollback stops the proxy, whose new daemon has already replaced
  the one the previous container used (`provisioning.ts:1290`,
  `documents/opencode.md:80`): the restored container has dead ports. Hence `~failed`
  in `ContainerIsServed`.
- After an edit of a tool's manifest `get_default_image` still finds the image that
  was built from the old one (`images.ts:126-140`,
  `documents/configuration-based-providers.md:175`): only the two caches carry the hash.
- `--force-rebuild` (`README.md:174`) reaches the caches and not
  `ensure_default_image`.
- A cap of `"0.0"` cpus in a file passes as a number, and the runtime takes it for no
  limit, where the flag's parser calls it unlimited (`configuration.ts:800-845`,
  `resource_limits.ts:586`, `documents/configuration.md:106`): a repository that says
  so loosens. Hence no zero in another spelling among the written values.
- A resume exports what is committed on the branch, secrets included
  (`README.md:11`, `workspace_staging.ts:44-46`): the exception `Of(exported)` in
  `ExcludedStaysOut`.
- `--allow-submodules` initialises the submodules in the host's working tree
  (`README.md:11`: the host tree is untouched): `InitialiseSubmodule` changes `host`.
- The message of an apply that stops at a conflict asks to resolve it and to run the
  command again (`cli.ts:1195`). The resolution has another patch id than the
  session's commit, so the next run picks that commit again and stops there
  (`apply.ts:287`) and never reaches the later ones.

What a reader of the code should know:

- Destroy's gate counts, then asks; `branch -D` deletes what is there when the answer
  comes (`delete.ts:253`, `:286-288`), the commit of an exit in between included.
- `--merge=squash` with the baseline, or without one, has no look at the index. If
  the merge is a fast-forward, or there is nothing to merge, git keeps what the user
  has staged and the squash commit takes it along. Only the path that leaves the
  baseline out has the gate (`apply.ts:341-357`), and `StagedWorkIsKept` is about
  that path.
- A session that repeats a change an earlier session made and another reverted has
  the patch id of the earlier one. Once that is applied, the later one is reported as
  already applied though its change is not there. `ReportIsTrue` is therefore stated
  about patches.
- An image's "authenticated" label is written when every copy of credentials failed,
  and when secret files given by `--copy` were promoted: `unearned` in `ImageTier`.
  The base tag is committed after the credentials were copied, so it holds them too;
  a build for another tool overwrites the tag with an image without them.
- A resume registers the manifests twice (`cli.ts:1274` and inside
  `resume_sandbox`). If a manifest disappears in between, the tool of the first
  registration stays, and the second verification has nothing to show. With
  `EditsInResume = TRUE`, `NothingRunsUnconfirmed` fails.
- `patchlab diff` and `patchlab patch` of a patchlab with a per-source tool look the
  provider up without registering any (`patches.ts:155`, `changes.ts:59`).
- With no previous container, a failed write of manifest or metadata leaves the new
  container under the canonical name, since the rollback removes the staging name
  (`provisioning.ts:1268-1270`). `RollsBack` speaks of what the resume was to replace.
- Whether submodules are copied is the command's option; the answer given at the gate
  lets the create pass and is not handed to the copy (`branch_handshake.ts:91-135`).
- git quotes names outside ASCII in its listings, which the code takes as they are. A
  create skips such a file as one that cannot be resolved, a resume fails on an untracked
  one, and for the overlay and the copies the branch's listing has no such file.
- A single file given by `--copy` that is a link out of its directory makes a create
  fail.
- A resume restores the copies that are not ignored after its baseline, so its exit
  delivers them; `OnlyTheToolsWork` names them (`restored`). A copy named anew with a
  missing source drops the one carried so far.
- A file the tool deleted comes back on a resume through the overlay while the host
  still tracks it. A tracked file that is ignored too is not in the slice. A tracked
  file that is gone from the host makes a resume fail where a create warns.
- When `git ls-files` fails, or prints more than 1 MiB, the listing is the walk over
  the file system, ignored files included: `Listings`.
- A file added to the branch between a resume's listing and its export is overwritten
  by the overlay. `BranchWins` speaks of the files the branch had at the listing.

## Fairness

Only `SessionCommit` has a liveness property, `ExtractionEnds`, under
`WF_vars(Extraction)`: the steps the CLI takes by itself. The code awaits each child
process in turn and every child ends or fails. Not fair are the tool's exit, the
user's answers, and everything in `Environment`; a session left at a prompt is not
expected to end. The other modules state no fairness: their commands are sequences of
such steps without a loop that waits for another actor, save the proxy's wait for its
daemon, which has a deadline (`StartFails`).

## Proofs

TLAPS proves, for every value of the constants:

| module | theorem | property |
|---|---|---|
| `SessionCommitProofs` | `TypeCorrect`, `CompletedDelivers`, `HeadIsSafe`, `ExitImplementsOutcome`, `ExitDescends` | types; the two safety properties if `~ConcurrentDiff`; the refinement and that the exit never goes round, with or without diffs |
| `CreateSandboxProofs` | `TypeCorrect`, `SuccessIsWhole`, `FailureIsClean`, `WorkspaceFromBranch` | types and the three safety properties |
| `CreateSandboxProofs` | `ImageTypeCorrect`, `EarnedLabelsCorrect`, `ContainerHasCredentialsCorrect`, `RecordedImageIsCurrentCorrect`, `DefaultIsFitCorrect` | types of the images and the four safety properties |
| `DestroySandboxProofs` | `TypeCorrect`, `NothingUnappliedIsLost`, `ArchiveIsLast` | types; the two action properties if `~Overlap` |
| `ResumeSandboxProofs` | `TypeCorrect`, `SessionsAreUnique`, `WorkIsKept`, `FailureRollsBack`, `RestoredIsNewest` | types, unique claims, the three action properties |
| `ResumeSandboxProofs` | `LimitsTypeCorrect`, `RepositoriesOnlyTightenCorrect`, `CappedUnlessUnlimitedCorrect`, `ChoiceSurvivesCorrect`, `ResumeKeepsTheCapCorrect` | types of the limits, the three safety properties, two of them if `NoSpelledZero`, and the action property |
| `ApplyBranchProofs` | `TypeCorrect`, `ReportsAreTrue`, `StagedWorkSafe`, `BaselineStaysOut` | types, the report, the two action properties |
| `WorkspaceProofs` | `TypeCorrect`, `OnlyTheToolsWorkCorrect`, `BranchWinsCorrect`, `CopiesSurviveCorrect`, `ExcludedStaysOutCorrect` | types and the four safety properties |
| `HostProxyProofs` | `TypeCorrect`, `NoOrphanCorrect`, `ContainerIsServedCorrect`, `StrangersLiveCorrect` | types, the two safety properties, the action property |
| `TrustGateProofs` | `TypeCorrect`, `MarkersAreConsentCorrect`, `TheUserChoseTheToolCorrect`, `NothingRunsUnconfirmedCorrect` | types and the three safety properties, the last one if `EditsInResume = FALSE` |

Assumptions are those the modules name: `ReposAssumption`, `ChangesAssumption`,
`NamesAssumption` (digests of canonical paths differ, which makes the names of
fallback patches injective), `CreateAssumption`, `DestroyAssumption`,
`ResumeAssumption`, `ApplyAssumption`, `WorkspaceAssumption`, `ProxyAssumption`,
`TrustAssumption` (which says too that the value standing for an absent file or name
is none of the others), `ImageAssumption` and `LimitsAssumption`. `NoSpelledZero`, of
two theorems about limits, says that no file has a cap of zero cpus with a fraction:
what the code does with `"0.0"` is listed above, and without the condition both are
false. The proofs about images are in the module of the create they are a part of,
those about limits in the module of the resume that carries them on; each theorem is
about the specification it names (`ImageSpec`, `LimitsSpec`).

The arguments:

- **Exit.** A completed session says nothing about the loop by itself. `IInv` says
  which of the three: the index holds the tool's work from the staging on
  (`StagedInv`), the slice at hand is all of the repository's work that HEAD lacks
  (`SliceInv`), each decided repository has its work delivered (`DecidedInv`), and
  after the loop none is pending (`PhaseInv`). `FallbackNameInjective` keeps one
  repository's patch from overwriting another's.
- **Create.** `BranchInv` says exactly which repositories have the branch in each
  phase, `FilesInv` that the archive directory is there whenever a branch is (a gc
  deletes a branch without one), `TreeInv` that a repository not edited since its
  check has one tree in its branch and its working tree, and in the workspace what the
  copy takes of it.
- **Destroy.** `GateInv`: between gate and deletion a branch carries only what was
  counted, applied or given up. It is inductive because `ExitInv` keeps exits away;
  with an overlap it is false. `OutcomeInv`: what `branch_outcomes` says of a
  repository is still so when the loop is over, so that the destroyer that takes the
  archive, and no other, answers for every branch it leaves.
- **Resume.** `ClaimInv`: a claimed number has its directory, so `mkdir` cannot give
  it out again. `SwapInv` says for a resume that is alone where the previous
  container and its own are at each step (`Recoverable`), and that after the swap
  the canonical name is its own (`Undisturbed`). `Footprint` shows that the steps of
  other resumes leave all of it alone. `HeldInv`: a directory without metadata
  is held by a resume under way or is `Abandoned`, and `NewestInv`: until it restores, a
  resume has checked the latest session with metadata and goes for a later number; so
  what lies between the two is `Abandoned`.
- **Apply.** `ReportInv`: what the summary does not list was on the current branch
  when it was made, and nothing that landed ever goes (`ThereStays`), so it is still
  there (`SummaryHolds`); what a squash has staged is all of the sessions it will
  name (`SquashHolds`). `KeptInv`: past the gate nothing of the user's is staged
  (`GateHolds`), a command not asked for the baseline has only sessions to apply
  (`AskedHolds`), and a file no session changes is in every session's tree what the
  baseline made it (`BaselineHolds`), so no pick and no squash touches it
  (`SquashSpares`). The chain of
  commits from the baseline to the tip would call for an induction over the branch;
  `BaselineHolds` is an invariant of the state instead, kept as each commit is added.
- **Workspace.** `WorkspaceInv` has a part for each property, since none is inductive
  alone: from the export on the workspace has what was exported of the listed files,
  and the overlay that waits beside it holds none of them (`BranchInv`); after the
  baseline the workspace differs from it, in files that are not ignored, only by what
  installs left, the tool touched and a resume restored (`DiffInv`); the directory that the
  next merge reads, `archive` or, once a resume has claimed its own, `previous`, has every
  copy that is not `gone`, and in the form the last session left it unless it is `stale`
  (`CopyInv`, `Keeps`); every excluded file in the workspace has an excuse, before the
  session not the archive, which a claim empties, and the overlay has none
  (`ExcludeInv`). `PhaseInv` orders
  the steps.
- **Host proxy.** `SequentialInv`: while commands follow each other there is one daemon
  at most, and it says where it may be at each step: the one the file names, none once
  it was stopped, the child while the command waits. `ServedInv` adds, without kills
  and deaths, that the file tells what that daemon has bound and that a command at
  rest leaves what its container needs (`Promised`).
- **Images.** `Leads` sums up `resolve_effective_image`: to the image itself, or to a
  tag with the label found. `PathInv`: a create that saw a credentials' label goes from
  its own tag of the form "auth", and one without patchlab's label from an image without
  credentials' labels (`LabelInv`), so what it commits to the base has none.
  `HeldInv`: an "auth" tag of a tool whose credentials are copied holds them or is
  `unearned` whenever it is there. That is what makes the delay between the look at the
  label and the container harmless (`HeldWrites`): whoever writes the tag meanwhile
  writes credentials too, because a commit that has something new comes after a copy
  (`CopiesInv`). The two properties of creates that do not meet need `AloneInv`, and
  then that the tags resolved to and recorded stay what they were (`CurrentInv`), and
  the default image fit (`FoundInv`).
- **Limits.** The fold over the repositories is the least of what they contribute
  (`LeastOfIsLeast`; that there is a least comes from the well-ordering of the naturals,
  `LeastNatural`), so more repositories contribute no more (`TightenedByMore`).
  `ComposeType` and `CreateCap`: what reaches the runtime is unlimited or positive.
  `PersistedInv`: the newest session with metadata holds what the container runs
  under, and the user's choice if there is one; a killed session adds a directory
  without metadata, which `NewestIsGreatest` shows is passed over.
- **Trust.** `ConsentInv` has three parts: the tool that is verified is registered
  (`ProviderInv`); what is registered for a repository was let through or is what the
  process is about to verify, and a resume's two registrations read the same
  (`RegistryInv`, the part that needs `EditsInResume = FALSE`); what left the list of
  repositories to verify was let through (`VerifyInv`). The choice of the tool needs
  only that a stored preference is the user's last choice for its value (`PickInv`).

- **The exit's end.** `Rank` is 13 for every undecided repository plus the place of `pc`
  on the way to the end. A step of the CLI goes on to a later place, or decides the
  repository at hand, which was undecided (`RefInv`) and so takes 13 off for the 6 that
  the way back to the loop's head adds at most; nobody else raises it. So an exit has
  finitely many steps of its own for any number of repositories (`ExitDescends`).

Only model-checked: `ExtractionEnds`, and the two findings. Of `ExtractionEnds` the part that
needs no fairness is proved, that the exit cannot go round; that a step is always
enabled and, by `WF_vars(Extraction)`, taken is out of the prover's reach. Every other
property of a passing run has its theorem.

## Not modelled

- **Safe file system**: `atomic_write_file` writes a temporary file, syncs and renames
  it, one function without a second actor. The modules that use it take its result,
  the old or the new file, as one step.
- **Patch files** and **diff path rewrite**: what they get right is the text they
  write, character by character; a model would be a transliteration.
- **Detection, languages, services**: tables of file names and what they require.
- **Inspect and list**: read-only.
- **Partly modelled** parts are named in `PROJECT.json`: validation and migration of
  the manifest's fields, which files belong to which artifact, container arguments,
  the providers' configuration text, the settings other than limits, mount names and
  textual path containment, option parsing and wording.
- **Hazards without a property.** `PROJECT.json` says why at each: the lost update and
  the re-run of an apply described above, a create killed before its manifest (its
  branches and container stay, as a kill cannot roll back), and two that would need the resume
  or the exit in one model with destroy: a gc that lists the containers between a
  resume's two renames, and an exit that makes the archive anew after a destroy.

Git and the container runtime are modelled by what the code relies on: each call
succeeds or fails, and a failed call of two steps may have done the first.
