------------------------------ MODULE ImageTier ------------------------------
(***************************************************************************)
(* The images a create starts from and leaves behind (images.ts,            *)
(* auto_build.ts, sandbox/image_tier.ts and the authentication around them  *)
(* in sandbox/provisioning.ts): the image patchlab builds for a project,    *)
(* the tags it commits a prepared container to, and the labels that tell    *)
(* the next create what it may leave out.  Several creates share the tags;  *)
(* nothing locks them.                                                      *)
(*                                                                          *)
(* One base image and the tags derived from it.  An image is what it holds  *)
(* (tools, capabilities, credentials, the manifest a tool was set up from)  *)
(* and what its labels say.                                                 *)
(***************************************************************************)
EXTENDS Naturals

CONSTANTS Creates, Tools,
          Configured,     \* the tools that a manifest declares
          Manifests,      \* contents of such a manifest, by their hash
          Method,         \* [Tools -> authentication method]
          Shipped,        \* the tools the user's own image holds
          MaxEvents,      \* bound on edits and removals
          None            \* no manifest, no image, no tool

VARIABLES
    store,          \* the machine's images, by tag
    declared,       \* [Configured -> Manifests]: the manifest on disk
    create,         \* [Creates -> Create]: the processes, each with its variables
    events,         \* how often the user has edited a manifest or removed an image
    raced           \* history: two creates overlapped, or an image went while one ran

image_vars == <<store, declared, create, events, raced>>

States  == {"absent", "installed", "authenticated", "ready"}
Methods == {"none", "environment_variables", "file_copy"}
Attempted(state) == state \in {"authenticated", "ready"}

\* The user's own image, the repository patchlab builds and upgrades it to, and the two caches
\* of a tool; a configured tool's carry the hash of its manifest.
Raw  == <<"raw">>
Base == <<"base">>
AuthTag(t, h)      == <<"auth", t, h>>
InstalledTag(t, h) == <<"installed", t, h>>
HashesOf(t) == IF t \in Configured THEN Manifests ELSE {None}
Tags == {Base} \cup UNION {UNION {{AuthTag(t, h), InstalledTag(t, h)} : h \in HashesOf(t)} : t \in Tools}

\* What an image holds (tools and whether they work, capabilities, credentials, the manifest a
\* tool was built from), what its labels say, and for which tools "authenticated" was written
\* without a copy that succeeded (history).
Image == [holds : SUBSET Tools, fit : BOOLEAN, capable : BOOLEAN, credentials : SUBSET Tools,
          from : [Tools -> Manifests \cup {None}],
          compatible : BOOLEAN, tools : SUBSET Tools, state : [Tools -> States],
          unearned : SUBSET Tools]

ASSUME ImageAssumption ==
    /\ Configured \subseteq Tools /\ Shipped \subseteq Tools
    /\ None \notin Manifests \cup Tools \cup Image /\ MaxEvents \in Nat
    /\ Method \in [Tools -> {"none", "environment_variables", "file_copy"}]

Plain(holds) ==
    [holds |-> holds, fit |-> TRUE, capable |-> FALSE, credentials |-> {},
     from |-> [t \in Tools |-> None], compatible |-> FALSE, tools |-> {},
     state |-> [t \in Tools |-> "absent"], unearned |-> {}]

\* The user's own image is never written.
Exists(ref) == ref = Raw \/ store[ref] # None
At(ref)     == IF ref = Raw THEN Plain(Shipped) ELSE store[ref]
ToolState(ref, t) == IF Exists(ref) THEN At(ref).state[t] ELSE "absent"
Compatible(ref)   == Exists(ref) /\ At(ref).compatible

\* A create: its step and options, the manifest as registered, the image it starts from and
\* will record, what the labels said of it, the result of the authentication, the content of
\* the container with its image's labels; whether the image was found, and the copies made.
CreateSteps == {"idle", "default", "resolve", "confirm", "create", "inject", "upgrade", "commit",
        "ended", "failed"}
Create == [pc : CreateSteps, tool : Tools \cup {None}, rebuild : BOOLEAN, wants : BOOLEAN,
           hash : Manifests \cup {None}, image : Tags \cup {Raw}, state : States,
           compatible : BOOLEAN, secrets : BOOLEAN, auth : Methods, box : Image,
           found : BOOLEAN, copies : {"none", "done", "failed"}]
New == [pc |-> "idle", tool |-> None, rebuild |-> FALSE, wants |-> FALSE, hash |-> None,
        image |-> Raw, state |-> "absent", compatible |-> FALSE, secrets |-> FALSE,
        auth |-> "none", box |-> Plain({}), found |-> FALSE, copies |-> "none"]
Failed == [New EXCEPT !.pc = "failed"]

On(p, step)  == create[p].pc = step
Become(p, c)  == create' = [create EXCEPT ![p] = c]
Active(p)     == create[p].pc \notin {"idle", "ended", "failed"}
machine       == <<declared, events, raced>>

\* An image of an earlier version, whose auth tag says no more than "installed".
Orphan(t) == [Plain({t}) EXCEPT !.compatible = TRUE, !.state[t] = "installed"]

ImageInit ==
    /\ \E old \in SUBSET {AuthTag(t, None) : t \in Tools \ Configured} :
          store = [tag \in Tags |-> IF tag \in old THEN Orphan(tag[2]) ELSE None]
    /\ declared \in [Configured -> Manifests]
    /\ create = [p \in Creates |-> New] /\ events = 0 /\ raced = FALSE

-----------------------------------------------------------------------------
(***************************************************************************)
(* The image of a project: found, or built                                  *)
(***************************************************************************)
Begin(p) ==
    /\ On(p, "idle")
    /\ \E t \in Tools, given, force, need \in BOOLEAN :
          /\ given => ~need
          /\ Become(p, [New EXCEPT !.pc = IF given THEN "resolve" ELSE "default",
                                   !.tool = t, !.rebuild = force, !.wants = need,
                                   !.hash = IF t \in Configured THEN declared[t] ELSE None])
    /\ raced' = (raced \/ \E q \in Creates : Active(q))
    /\ UNCHANGED <<store, declared, events>>

\* validate_image: git and the tool's own command run in the image.
Valid(ref, t) == At(ref).fit /\ t \in At(ref).holds

\* Mutant: the labels alone decide.
LabelsSuffice(t, need) ==
    /\ Compatible(Base)
    /\ t \in At(Base).tools /\ (need => At(Base).capable)

\* get_default_image: of the compatible images with the tool and the capabilities in their
\* labels, the one of this base's repository, if it passes the validation.
Candidate(t, need) ==
    /\ Compatible(Base)
    /\ t \in At(Base).tools /\ (need => At(Base).capable)
    /\ Valid(Base, t)

FindDefault(p) ==
    /\ On(p, "default") /\ Candidate(create[p].tool, create[p].wants)
    /\ Become(p, [create[p] EXCEPT !.pc = "resolve", !.image = Base, !.found = TRUE])
    /\ UNCHANGED <<store, machine>>

\* The image build_image writes; that the tool works in it is not looked at.
BuiltImage(t, h, need, fit) ==
    [Plain({t}) EXCEPT !.compatible = TRUE, !.state[t] = "installed", !.tools = {t},
                       !.capable = need, !.fit = fit, !.from[t] = h]

\* ensure_default_image without a candidate: the tag gets a new image, for this tool alone.
BuildDefault(p) ==
    /\ On(p, "default") /\ ~Candidate(create[p].tool, create[p].wants)
    /\ \/ /\ \E fit \in BOOLEAN :
                LET c == create[p]
                IN  store' = [store EXCEPT ![Base] = BuiltImage(c.tool, c.hash, c.wants, fit)]
          /\ Become(p, [create[p] EXCEPT !.pc = "resolve", !.image = Base])
       \/ Become(p, Failed) /\ UNCHANGED store
    /\ UNCHANGED machine

-----------------------------------------------------------------------------
(***************************************************************************)
(* resolve_effective_image                                                  *)
(***************************************************************************)
AuthHit(t, h)      == Attempted(ToolState(AuthTag(t, h), t))
InstalledHit(t, h) == ToolState(InstalledTag(t, h), t) = "installed"
BaseHit(t)         == t \notin Configured /\ ToolState(Base, t) # "absent"

Found(ref, state, compatible) == [ref |-> ref, state |-> state, compatible |-> compatible]

\* A forced rebuild starts from the image itself, a labelled image is its own cache; then the
\* two caches, each only with a label of its form; the base only for a tool without a manifest.
Resolution(ref, t, h, force) ==
    LET Hit(tag) == Found(tag, ToolState(tag, t), TRUE) IN
    CASE force                         -> Found(ref, "absent", FALSE)
      [] ~force /\ ToolState(ref, t) # "absent" -> Hit(ref)
      [] OTHER -> CASE AuthHit(t, h)   -> Hit(AuthTag(t, h))
                    [] ~AuthHit(t, h) /\ InstalledHit(t, h) -> Hit(InstalledTag(t, h))
                    [] OTHER -> IF BaseHit(t) THEN Hit(Base)
                                ELSE Found(ref, "absent", Compatible(ref))

Resolve(p) ==
    /\ On(p, "resolve")
    /\ LET c == create[p]
           r == Resolution(c.image, c.tool, c.hash, c.rebuild)
       IN  Become(p, [c EXCEPT !.pc = "confirm", !.image = r.ref, !.state = r.state,
                               !.compatible = r.compatible])
    /\ UNCHANGED <<store, machine>>

\* The user is asked about secret files among --copy; without such files nobody is.
ConfirmSecrets(p) ==
    /\ On(p, "confirm")
    /\ \/ \E s \in BOOLEAN : Become(p, [create[p] EXCEPT !.pc = "create", !.secrets = s])
       \/ Become(p, Failed)
    /\ UNCHANGED <<store, machine>>

-----------------------------------------------------------------------------
(***************************************************************************)
(* The container and its credentials                                        *)
(***************************************************************************)
\* The variables of the host, if any of the tool's are set, go to the container; it is created
\* from what the tag names now.
StartContainer(p) ==
    /\ On(p, "create")
    /\ \E auth \in {"none", Method[create[p].tool]} \ {"file_copy"} :
          Become(p, IF Exists(create[p].image)
                    THEN [create[p] EXCEPT !.pc = "inject", !.box = At(create[p].image),
                                           !.auth = auth]
                    ELSE Failed)
    /\ UNCHANGED <<store, machine>>

\* What set_up_image_tier is told: a provider that copies files says so whatever became of the
\* copies, and secret files make it so for every other.
ResultOf(c) ==
    IF Method[c.tool] = "file_copy" \/ (c.secrets /\ c.auth = "none") THEN "file_copy"
    ELSE c.auth

\* Mutant: the files are left out whenever the image has the tool.
SkipsWhenInstalled(c) == c.state # "absent"

\* Only an image whose label says that the credentials are in it does without them.
SkipsInjection(c) == Attempted(c.state)

\* inject_post_create_authentication and the promotion; each copy may fail, with a warning.
InjectAuthentication(p) ==
    /\ On(p, "inject")
    /\ LET c    == create[p]
           next == [c EXCEPT !.pc = "upgrade", !.auth = ResultOf(c)]
       IN  \/ /\ Method[c.tool] # "file_copy" \/ SkipsInjection(c)
              /\ Become(p, next)
           \/ /\ Method[c.tool] = "file_copy" /\ ~SkipsInjection(c)
              /\ \/ Become(p, [next EXCEPT !.box.credentials = @ \cup {c.tool},
                                           !.copies = "done"])
                 \/ Become(p, [next EXCEPT !.copies = "failed"])
    /\ UNCHANGED <<store, machine>>

-----------------------------------------------------------------------------
(***************************************************************************)
(* set_up_image_tier                                                        *)
(***************************************************************************)
\* commit_running_container: stop, commit, start again whatever the commit did; a failure of
\* the commit or of the start ends the create.
CommitTo(p, tag, committed, next) ==
    \/ store' = [store EXCEPT ![tag] = committed] /\ (Become(p, next) \/ Become(p, Failed))
    \/ UNCHANGED store /\ Become(p, Failed)

\* An image without patchlab's label becomes the base: git is installed, which may fail, and
\* the container committed unless a base is there already.
UpgradeBase(p) ==
    /\ On(p, "upgrade")
    /\ LET c    == create[p]
           next == [c EXCEPT !.pc = "commit", !.image = IF c.compatible THEN @ ELSE Base]
       IN  IF ~c.compatible /\ (~Exists(Base) \/ c.rebuild)
           THEN CommitTo(p, Base, [c.box EXCEPT !.compatible = TRUE], next)
           ELSE /\ Become(p, next) \/ (~c.compatible /\ Become(p, Failed))
                /\ UNCHANGED store
    /\ UNCHANGED machine

\* Mutant: the label is the result's own word.
ResultsWord(auth) == auth

\* Mutant: any authentication counts as credentials in the image.
ReadyIsAuthenticated(auth) == IF auth = "none" THEN "installed" ELSE "authenticated"

LabelOf(auth) ==
    CASE auth = "none" -> "installed" [] auth = "file_copy" -> "authenticated"
      [] auth = "environment_variables" -> "ready"

TargetTag(c) ==
    IF c.auth = "none" THEN InstalledTag(c.tool, c.hash) ELSE AuthTag(c.tool, c.hash)

\* The image had the credentials' label, or the tool's and no more came.
NothingNew(c) == Attempted(c.state) \/ (c.state = "installed" /\ c.auth = "none")

\* Mutant: a tag that exists is taken for the image wanted.
TagExists(c) == Exists(TargetTag(c)) /\ ~c.rebuild

\* The tag has the label wanted: another create, or an earlier one, committed it.
HasLabel(c) == ToolState(TargetTag(c), c.tool) = LabelOf(c.auth) /\ ~c.rebuild

\* The file system, with the labels of the image it came from and the tool's new one.
Committed(c) ==
    LET earned == c.copies = "done" \/ (c.copies = "none" /\ ~c.secrets) IN
    [c.box EXCEPT !.compatible = TRUE, !.state[c.tool] = LabelOf(c.auth),
                  !.unearned = IF earned THEN @ \ {c.tool} ELSE @ \cup {c.tool}]

CommitTool(p) ==
    /\ On(p, "commit")
    /\ LET c    == create[p]
           next == [c EXCEPT !.pc = "ended", !.image = IF NothingNew(c) THEN @ ELSE TargetTag(c)]
       IN  IF NothingNew(c) \/ HasLabel(c)
           THEN Become(p, next) /\ UNCHANGED store
           ELSE CommitTo(p, TargetTag(c), Committed(c), next)
    /\ UNCHANGED machine

-----------------------------------------------------------------------------
(***************************************************************************)
(* Everything beside the creates                                            *)
(***************************************************************************)
\* The user edits a manifest or removes an image; the CLI is interrupted.
Event == events < MaxEvents /\ events' = events + 1

Edit(t, h) ==
    /\ Event /\ h # declared[t] /\ declared' = [declared EXCEPT ![t] = h]
    /\ UNCHANGED <<store, create, raced>>

Remove(tag) ==
    /\ Event /\ Exists(tag) /\ store' = [store EXCEPT ![tag] = None]
    /\ raced' = TRUE
    /\ UNCHANGED <<declared, create>>

Interrupt(p) ==
    /\ Active(p) /\ Become(p, Failed)
    /\ UNCHANGED <<store, machine>>

Step(p) ==
    \/ Begin(p) \/ FindDefault(p) \/ BuildDefault(p) \/ Resolve(p) \/ ConfirmSecrets(p)
    \/ StartContainer(p) \/ InjectAuthentication(p) \/ UpgradeBase(p) \/ CommitTool(p)
    \/ Interrupt(p)

ImageNext ==
    \/ \E p \in Creates : Step(p)
    \/ \E t \in Configured, h \in Manifests : Edit(t, h)
    \/ \E tag \in Tags : Remove(tag)

ImageSpec == ImageInit /\ [][ImageNext]_image_vars

-----------------------------------------------------------------------------
ImageTypeOK ==
    /\ store \in [Tags -> Image \cup {None}]
    /\ declared \in [Configured -> Manifests]
    /\ create \in [Creates -> Create]
    /\ \A p \in Creates : Active(p) =>
          create[p].tool \in Tools /\ create[p].hash \in HashesOf(create[p].tool)
    /\ events \in 0..MaxEvents /\ raced \in BOOLEAN

\* What a create leaves out it has: a container of a tool whose credentials are copied has
\* them, by this create or from the image it was made from, unless the copy failed here or
\* when that image was committed (image_tier.ts:183, provisioning.ts:250), whatever was
\* removed, built or committed between the look at the labels and the container.
ContainerHasCredentials ==
    \A p \in Creates :
        LET c == create[p] IN
        c.pc \in {"upgrade", "commit", "ended"} /\ Method[c.tool] = "file_copy" =>
            c.tool \in c.box.credentials \cup c.box.unearned \/ c.copies = "failed"

\* An image that is labelled "authenticated" holds the credentials, unless the create that
\* committed it failed to copy them or promoted secret files (container_runtime/index.ts:708).
EarnedLabels ==
    \A tag \in Tags, t \in Tools :
        ToolState(tag, t) = "authenticated" =>
            t \in store[tag].credentials \cup store[tag].unearned

\* The image a sandbox records, which its resumes start from, is there with a label of the
\* form of its tag, when no other create or removal came in between; what an earlier version
\* left under the tag does not pass for it (image_tier.ts:196-231, 357).
RecordedImageIsCurrent ==
    ~raced => \A p \in Creates :
        LET c == create[p] IN
        c.pc = "ended" /\ c.image # Base =>
            /\ Exists(c.image)
            /\ c.image[1] = "auth" <=> Attempted(ToolState(c.image, c.tool))

\* A default image that was found has the tool in working order and the capabilities the
\* project needs, when no other create came in between (images.ts:126-172).
DefaultIsFit ==
    ~raced => \A p \in Creates :
        LET c == create[p] IN
        c.pc = "inject" /\ c.found =>
            c.tool \in c.box.holds /\ c.box.fit /\ (c.wants => c.box.capable)
=============================================================================
