----------------------------- MODULE TrustGate ------------------------------
(***************************************************************************)
(* What a repository may decide for the user: the tool manifests below its *)
(* .patchlab/tools (src/tools/index.ts, src/tools/configured_provider/     *)
(* trust_*.ts, discovery.ts) and its default_tool                          *)
(* (src/tools/default_tool*.ts), as `patchlab create` and `patchlab        *)
(* resume` meet them (src/cli.ts): register, choose the tool, verify,      *)
(* build, and the same again inside create_sandbox and resume_sandbox.     *)
(*                                                                         *)
(* A repository's manifests are a set of records, one per file; the hash   *)
(* of their bytes is the set itself.                                       *)
(***************************************************************************)
EXTENDS Integers, FiniteSets

CONSTANTS
    Repos, Names,
    Contents,       \* what the manifests of a repository may be: sets of Manifest
    BuiltIn,        \* the built-in tools
    UserGlobal,     \* the tools of the user's own manifests
    OpenCode,       \* DEFAULT_BUILTIN_TOOL
    Nothing,        \* an absent file, name or value
    EditsInResume,  \* may a repository change between a resume's two registrations?
    MaxEdits,       \* bound: changes of files by others
    MaxRuns         \* bound: commands

ASSUME TrustAssumption ==
    /\ IsFiniteSet(Repos) /\ OpenCode \in BuiltIn /\ BuiltIn \cup UserGlobal \subseteq Names
    /\ {} \in Contents /\ Nothing \notin Names
    /\ \A r \in Repos, c \in Contents : \A d \in SUBSET c : d # Nothing /\ <<r, d>> # Nothing
    /\ \A n \in Names, choice \in {"repository", "fallback"} :
        [value |-> n, choice |-> choice] # Nothing
    /\ EditsInResume \in BOOLEAN /\ MaxEdits \in Nat /\ MaxRuns \in Nat

VARIABLES
    \* on disk: the manifests and default_tool of each repository, the user's
    \* default_tool, the trust markers, the stored preferences, the patchlab's tool
    disk, wants, mine, marker, preference, sandbox,
    \* the process
    command, pc, tty, opt_in, flag, loaded, tool, registry, snapshot, todo,
    \* history: contents confirmed ever and let through by this command's opt-in,
    \* contents whose commands ran, the last choice per repository and name
    approved, waived, executed, picked,
    edits, runs

files   == <<disk, wants, mine, marker, preference, sandbox>>
process == <<command, pc, tty, opt_in, flag, loaded, tool, registry, snapshot, todo>>
history == <<approved, waived, executed, picked>>
vars    == <<files, process, history, edits, runs>>

Defects  == {"none", "unreadable", "malformed", "copies from outside the repository"}
Manifest == [file : STRING, name : Names, defect : Defects, overrides_builtin : BOOLEAN]

\* Each file is read once: what is registered, shown, hashed and marked are
\* these bytes.  A file that cannot be read is as good as absent.
Readable(content) == {f \in content : f.defect # "unreadable"}


Sets    == Repos \X {Readable(c) : c \in Contents}
Choices == {"repository", "fallback"}
Own     == <<Nothing, Nothing>>    \* registered, and not by a repository
Fresh   == [n \in Names |-> IF n \in BuiltIn \cup UserGlobal THEN Own ELSE Nothing]

\* is_registered_builtin: the user's own manifests may have replaced it, too.
IsRegisteredBuiltin(name) == name \in BuiltIn \ UserGlobal /\ registry[name] = Own

\* validate_per_source_manifest.  A built-in tool that an earlier registration has
\* replaced is no longer one to a second.
Accepted(content) == {f \in Readable(content) :
    f.defect = "none" /\ (IsRegisteredBuiltin(f.name) => f.overrides_builtin)}

Declares(content) == {f.name : f \in Accepted(content)}

(***************************************************************************)
(* register_per_source_manifests: nothing is registered when two manifests *)
(* of the union declare one name; a name of a manifest replaces any other  *)
(* registration and an entry whose manifest is gone stays.                 *)
(***************************************************************************)
Collides ==
    \/ \E r \in Repos : \E f, g \in Accepted(disk[r]) : f # g /\ f.name = g.name
    \/ \E r, s \in Repos : r # s /\ Declares(disk[r]) \cap Declares(disk[s]) # {}

\* Mutant: what is registered is all there is, readable or not.
RegisteredUnread == [n \in Names |->
    IF \E r \in Repos : n \in Declares(disk[r])
    THEN LET r == CHOOSE r \in Repos : n \in Declares(disk[r]) IN <<r, disk[r]>>
    ELSE registry[n]]

Registered == [n \in Names |->
    IF \E r \in Repos : n \in Declares(disk[r])
    THEN LET r == CHOOSE r \in Repos : n \in Declares(disk[r]) IN <<r, Readable(disk[r])>>
    ELSE registry[n]]

\* What a build or a launch with the tool runs.
Provided == {registry[tool]} \cap Sets

(***************************************************************************)
(* default_tool.ts and default_tool_trust.ts.                              *)
(***************************************************************************)
Fallback      == IF loaded.mine = Nothing THEN OpenCode ELSE loaded.mine
Participating == {r \in Repos : loaded.wants[r] # Nothing}
Proposals     == {loaded.wants[r] : r \in Participating}

\* The one name the repositories ask for, when it needs a decision.
Proposed(name) == flag = Nothing /\ Proposals = {name} /\ name # Fallback

\* Mutant: the preference of one repository counts for all that ask.
StoredForAll(name, choice) ==
    \E r \in Participating : preference[r] = [value |-> name, choice |-> choice]

\* A preference counts for one repository alone and for the value it was made for.
Stored(name, choice) ==
    /\ Cardinality(Participating) = 1
    /\ \E r \in Participating : preference[r] = [value |-> name, choice |-> choice]

NoStored(name) == \A choice \in Choices : ~Stored(name, choice)

Init ==
    /\ disk = [r \in Repos |-> {}] /\ wants = [r \in Repos |-> Nothing] /\ mine = Nothing
    /\ marker = [r \in Repos |-> Nothing] /\ preference = [r \in Repos |-> Nothing]
    /\ sandbox = Nothing
    /\ command = "create" /\ pc = "idle" /\ tty = TRUE /\ opt_in = {} /\ flag = Nothing
    /\ loaded = [wants |-> wants, mine |-> mine] /\ tool = Nothing
    /\ registry = Fresh /\ snapshot = disk /\ todo = {}
    /\ approved = {} /\ waived = {} /\ executed = {}
    /\ picked = [x \in Repos \X Names |-> Nothing]
    /\ edits = 0 /\ runs = 0

Goto(next) == pc' = next

\* --strict-trust and --allow-untrusted-manifests together stop the command
\* before anything; alone the first changes nothing.
Begin(cmd, name) ==
    /\ pc = "idle" /\ runs < MaxRuns /\ runs' = runs + 1
    /\ cmd = "resume" => sandbox # Nothing /\ name = Nothing
    /\ command' = cmd /\ flag' = name
    /\ tty' \in BOOLEAN /\ opt_in' \in SUBSET {"manifests", "default_tool"}
    /\ registry' = Fresh /\ tool' = sandbox
    /\ waived' = {} /\ executed' = {}
    /\ Goto("register")
    /\ UNCHANGED <<files, loaded, snapshot, todo, approved, picked, edits>>

\* The command ends with an error; whatever it wrote stays.
Stop == Goto("idle") /\ UNCHANGED <<files, command, tty, opt_in, flag, loaded, tool, registry,
                                    snapshot, todo, history, edits, runs>>

Register ==
    /\ pc \in {"register", "again"}
    /\ \/ Collides /\ Stop
       \/ /\ ~Collides
          /\ registry' = Registered /\ snapshot' = [r \in Repos |-> Readable(disk[r])]
          /\ loaded' = IF pc = "register" THEN [wants |-> wants, mine |-> mine] ELSE loaded
          /\ todo' = IF pc = "register" /\ command = "resume" THEN {} ELSE Repos
          /\ Goto(IF pc = "again" THEN "verify again" ELSE IF command = "create" THEN "choose" ELSE "lookup")
          /\ UNCHANGED <<files, command, tty, opt_in, flag, tool, history, edits, runs>>

\* A resume looks the patchlab's tool up before it registers again.
Lookup ==
    /\ pc = "lookup"
    /\ \/ registry[tool] = Nothing /\ Stop
       \/ /\ registry[tool] # Nothing /\ Goto("again")
          /\ UNCHANGED <<files, command, tty, opt_in, flag, loaded, tool, registry, snapshot,
                         todo, history, edits, runs>>

\* get_provider
Use(name) ==
    /\ tool' = name /\ Goto(IF registry[name] = Nothing THEN "idle" ELSE "verify")
    /\ UNCHANGED <<disk, wants, mine, marker, sandbox, command, tty, opt_in, flag, loaded, registry,
                   snapshot, todo, approved, waived, executed, edits, runs>>

UseNamed ==
    /\ pc = "choose"
    /\ \/ flag # Nothing /\ Use(flag)
       \/ flag = Nothing /\ Proposals \subseteq {Fallback} /\ Use(Fallback)
    /\ UNCHANGED <<preference, picked>>

RefuseTool ==
    /\ pc = "choose" /\ flag = Nothing
    /\ \/ Cardinality(Proposals) > 1
       \/ \E name \in Names :
            /\ Proposed(name)
            /\ \/ registry[name] = Nothing
               \/ NoStored(name) /\ (tty \/ "default_tool" \notin opt_in)
    /\ Stop

UseStored(name, choice) ==
    /\ pc = "choose" /\ Proposed(name) /\ registry[name] # Nothing /\ Stored(name, choice)
    /\ Use(IF choice = "repository" THEN name ELSE Fallback)
    /\ UNCHANGED <<preference, picked>>

AskForTool(name, choice) ==
    /\ pc = "choose" /\ Proposed(name) /\ registry[name] # Nothing /\ NoStored(name) /\ tty
    /\ preference' = [r \in Repos |->
            IF r \in Participating THEN [value |-> name, choice |-> choice] ELSE preference[r]]
    /\ picked' = [x \in Repos \X Names |->
            IF x[1] \in Participating /\ x[2] = name THEN choice ELSE picked[x]]
    /\ Use(IF choice = "repository" THEN name ELSE Fallback)

OptInTool(name) ==
    /\ pc = "choose" /\ Proposed(name) /\ registry[name] # Nothing /\ NoStored(name)
    /\ ~tty /\ "default_tool" \in opt_in
    /\ Use(name)
    /\ UNCHANGED <<preference, picked>>

(***************************************************************************)
(* verify_per_source_trust_multi_repository: the repositories one after    *)
(* the other.  The order does not matter to what is below.                 *)
(***************************************************************************)
\* Mutant: a repository confirmed once is not asked about again.
SettledOnce(r) == snapshot[r] = {} \/ marker[r] # Nothing

Settled(r) == snapshot[r] = {} \/ marker[r] = snapshot[r]

Verified(r) ==
    /\ todo' = todo \ {r}
    /\ UNCHANGED <<disk, wants, mine, preference, sandbox, command, pc, tty, opt_in, flag, loaded,
                   tool, registry, snapshot, executed, picked, edits, runs>>

Skip(r) == r \in todo /\ Settled(r) /\ Verified(r) /\ UNCHANGED <<marker, approved, waived>>

Confirm(r) ==
    /\ r \in todo /\ ~Settled(r) /\ tty
    /\ marker' = [marker EXCEPT ![r] = snapshot[r]]
    /\ approved' = approved \cup {<<r, snapshot[r]>>}
    /\ Verified(r) /\ UNCHANGED waived

\* Mutant: the opt-in is remembered.
WaiveForGood(r) ==
    /\ r \in todo /\ ~Settled(r) /\ ~tty /\ "manifests" \in opt_in
    /\ marker' = [marker EXCEPT ![r] = snapshot[r]]
    /\ waived' = waived \cup {<<r, snapshot[r]>>}
    /\ Verified(r) /\ UNCHANGED approved

\* The opt-in lets this command through and leaves no marker.
Waive(r) ==
    /\ r \in todo /\ ~Settled(r) /\ ~tty /\ "manifests" \in opt_in
    /\ waived' = waived \cup {<<r, snapshot[r]>>}
    /\ Verified(r) /\ UNCHANGED <<marker, approved>>

Decline(r) ==
    /\ r \in todo /\ ~Settled(r) /\ (tty \/ "manifests" \notin opt_in)
    /\ Stop

Verify == pc \in {"verify", "verify again"}
          /\ \E r \in Repos : Skip(r) \/ Confirm(r) \/ Waive(r) \/ Decline(r)

\* ensure_default_image runs the install lines of the provider, or takes an
\* image that is there; then create_sandbox registers again.
Build ==
    /\ pc = "verify" /\ todo = {}
    /\ executed' \in {executed, executed \cup Provided}
    /\ Goto("again")
    /\ UNCHANGED <<files, command, tty, opt_in, flag, loaded, tool, registry, snapshot, todo,
                   approved, waived, picked, edits, runs>>

Launch ==
    /\ pc = "verify again" /\ todo = {}
    /\ executed' = executed \cup Provided
    /\ sandbox' = tool /\ Goto("idle")
    /\ UNCHANGED <<disk, wants, mine, marker, preference, command, tty, opt_in, flag, loaded, tool,
                   registry, snapshot, todo, approved, waived, picked, edits, runs>>

\* Others: a pull in a repository, an edit of a configuration file, a marker or
\* a preference lost or unreadable.
Edit ==
    /\ edits < MaxEdits /\ edits' = edits + 1
    /\ \/ /\ \E r \in Repos, c \in Contents : disk' = [disk EXCEPT ![r] = c]
          /\ EditsInResume \/ command = "create" \/ pc \notin {"lookup", "again"}
          /\ UNCHANGED <<wants, mine, marker, preference>>
       \/ /\ \E r \in Repos, n \in Names \cup {Nothing} : wants' = [wants EXCEPT ![r] = n]
          /\ UNCHANGED <<disk, mine, marker, preference>>
       \/ /\ mine' \in Names \cup {Nothing}
          /\ UNCHANGED <<disk, wants, marker, preference>>
       \/ /\ \E r \in Repos : /\ marker' = [marker EXCEPT ![r] = Nothing]
                              /\ preference' = [preference EXCEPT ![r] = Nothing]
          /\ UNCHANGED <<disk, wants, mine>>
    /\ UNCHANGED <<sandbox, process, history, runs>>

Next ==
    \/ \E cmd \in {"create", "resume"}, name \in Names \cup {Nothing} : Begin(cmd, name)
    \/ Register \/ Lookup \/ UseNamed \/ RefuseTool
    \/ \E name \in Names :
        \/ OptInTool(name)
        \/ \E choice \in Choices : UseStored(name, choice) \/ AskForTool(name, choice)
    \/ Verify \/ Build \/ Launch \/ Edit

Spec == Init /\ [][Next]_vars

-----------------------------------------------------------------------------
TypeOK ==
    /\ disk \in [Repos -> Contents]
    /\ snapshot \in [Repos -> {Readable(c) : c \in Contents}]
    /\ wants \in [Repos -> Names \cup {Nothing}] /\ mine \in Names \cup {Nothing}
    /\ loaded \in [wants : [Repos -> Names \cup {Nothing}], mine : Names \cup {Nothing}]
    /\ marker \in [Repos -> {Nothing} \cup {Readable(c) : c \in Contents}]
    /\ preference \in [Repos -> {Nothing} \cup [value : Names, choice : Choices]]
    /\ command \in {"create", "resume"} /\ tty \in BOOLEAN
    /\ opt_in \subseteq {"manifests", "default_tool"}
    /\ pc \in {"idle", "register", "lookup", "choose", "verify", "again", "verify again"}
    /\ {sandbox, flag, tool} \subseteq Names \cup {Nothing}
    /\ registry \in [Names -> Sets \cup {Own, Nothing}]
    /\ todo \subseteq Repos
    /\ approved \subseteq Sets /\ waived \subseteq Sets /\ executed \subseteq Sets
    /\ picked \in [Repos \X Names -> Choices \cup {Nothing}]
    /\ edits \in 0..MaxEdits /\ runs \in 0..MaxRuns

\* No install line and no launch command of a repository runs before the user
\* has confirmed exactly the manifests it came from, whatever changes on disk
\* between the registrations, the prompts, the build and the launch; for a resume,
\* only what changes outside its two registrations (EditsInResume is FALSE).  The
\* opt-in covers what one command verified (src/cli.ts:865).
NothingRunsUnconfirmed == executed \subseteq approved \cup waived

\* A marker is always something the user said yes to: an opt-in, a decline in
\* another repository or a later edit never turns into lasting consent.
MarkersAreConsent == \A r \in Repos : marker[r] # Nothing => <<r, marker[r]>> \in approved

\* When repositories ask for another tool than the user's, the tool that is used
\* is what the user last chose for this very value in these repositories, or
\* what the opt-in of a command without a terminal says.
TheUserChoseTheTool ==
    \A name \in Names :
        (command = "create" /\ pc \in {"verify", "again", "verify again"} /\ Proposed(name)) =>
            \/ tool = name /\ ~tty /\ "default_tool" \in opt_in
            \/ \E choice \in Choices :
                /\ tool = (IF choice = "repository" THEN name ELSE Fallback)
                /\ \A r \in Participating : picked[<<r, name>>] = choice
=============================================================================
