--------------------------- MODULE ResourceLimits ---------------------------
(***************************************************************************)
(* The limits a container runs under: the configuration files of the user  *)
(* and of the repositories (src/configuration.ts), the flags and the       *)
(* resolver (src/resource_limits.ts), and the metadata of the sessions     *)
(* that carries them from one resume to the next                           *)
(* (src/sandbox/persisted_resource_limits.ts).  The four fields never      *)
(* meet, so a behaviour follows one of them.                               *)
(***************************************************************************)
EXTENDS Integers, Sequences

CONSTANTS
    Repos,          \* the repositories the patchlab spans
    Fields,         \* the fields followed
    Written,        \* what a file or a flag may say: records of Raw
    Memory, Cpus,   \* the host's
    Kilo,           \* the factor between the units (1024)
    Gibibyte, Grain,        \* the least default for memory and its rounding
    DefaultPids, MaxPids, MinWeight, MaxWeight,
    MaxSessions,    \* bound: sessions of the patchlab
    MaxEdits        \* bound: edits of the files

VARIABLES field, user_file, repo_file, sessions, applied, choice, edits
limit_vars == <<field, user_file, repo_file, sessions, applied, choice, edits>>

(***************************************************************************)
(* Values.  A written number is a YAML number, plain digits ("512"), or a  *)
(* dressed spelling: a unit, decimals, leading zeros ("4g", "0.0", "00").  *)
(***************************************************************************)
Forms == {"number", "digits", "dressed"}
Units == {"b", "k", "m", "g"}
Raw   == [form : Forms, n : Int, unit : Units]

ASSUME LimitsAssumption ==
    /\ Written \subseteq Raw
    /\ Fields \subseteq {"memory", "cpus", "pids", "blkio_weight"}
    /\ {Kilo, Gibibyte, Grain, DefaultPids, MinWeight, MaxSessions} \subseteq Nat \ {0}
    /\ {Memory, Cpus, MaxPids, MaxWeight, MaxEdits} \subseteq Nat

Mark(name) == [mark |-> name]
NotSet     == Mark("not set")       \* null and undefined: fall through
Unlimited  == Mark("unlimited")
Invalid    == Mark("invalid")
NoMetadata == Mark("no metadata")   \* a session claimed and never written
Legacy     == Mark("no limits")     \* metadata older than the limits

Unreadable == {Mark("not YAML, not a mapping, too large"), Mark("bad tool settings")}

Multiplier == [u \in Units |->
    CASE u = "b" -> 1 [] u = "k" -> Kilo [] u = "m" -> Kilo * Kilo [] u = "g" -> Kilo * Kilo * Kilo]
Amount(v)  == v.n * Multiplier[v.unit]

Value(raw) == [n |-> raw.n, unit |-> raw.unit]

Larger(a, b) == IF a > b THEN a ELSE b

\* Mutant: three quarters are rounded down, however small the host.
DefaultOfSmallHost(f) == [unit |-> "b", n |->
    CASE f = "memory" -> ((3 * Memory) \div (4 * Grain)) * Grain
      [] f = "cpus"   -> Cpus - 1
      [] f = "pids"   -> DefaultPids]

\* compute_runtime_defaults: three quarters of the memory in whole grains, all
\* processors but one.
Default(f) == [unit |-> "b", n |->
    CASE f = "memory" -> Larger(Gibibyte, ((3 * Memory) \div (4 * Grain)) * Grain)
      [] f = "cpus"   -> Larger(1, Cpus - 1)
      [] f = "pids"   -> DefaultPids]

Concrete == {Value(w) : w \in Written} \cup {Default(f) : f \in Fields \ {"blkio_weight"}}

(***************************************************************************)
(* The two parsers.  A file takes numbers and strings; a flag is text.     *)
(***************************************************************************)
ParseMemory(raw) ==
    CASE raw.n > 0 -> Value(raw)
      [] raw.n = 0 /\ raw.form # "dressed" -> Unlimited
      [] OTHER -> Invalid

ParseCpus(raw) ==
    IF raw.n < 0 \/ raw.unit # "b" THEN Invalid
    ELSE IF raw.n = 0 /\ raw.form # "dressed" THEN Unlimited ELSE Value(raw)

ParsePids(raw) ==
    IF raw.n < 0 \/ raw.unit # "b" \/ raw.n > MaxPids THEN Invalid
    ELSE IF raw.n = 0 THEN Unlimited ELSE Value(raw)

ParseWeight(raw) ==
    IF raw.form = "number" /\ raw.n \in MinWeight..MaxWeight THEN Value(raw) ELSE Invalid

ParseField(f, raw) ==
    CASE f = "memory" -> ParseMemory(raw)
      [] f = "cpus"   -> ParseCpus(raw)
      [] f = "pids"   -> ParsePids(raw)
      [] f = "blkio_weight" -> ParseWeight(raw)

\* argv_contains_resource_flag_negative stops the command before any parser.
Negative(raw) == raw.n < 0

ParseFlag(f, raw) ==
    IF Negative(raw) \/ (f # "memory" /\ raw.unit # "b") THEN Invalid
    ELSE IF f = "blkio_weight"
    THEN IF raw.n = 0 \/ raw.n \in MinWeight..MaxWeight THEN Value(raw) ELSE Invalid
    ELSE IF raw.n = 0 THEN Unlimited
    ELSE IF f = "pids" /\ raw.n > MaxPids THEN Invalid ELSE Value(raw)

\* A missing file, a directory and a file without the field all say nothing;
\* any malformation of the file, in whatever block, stops the command.
Load(f, file) ==
    IF file = NotSet THEN NotSet
    ELSE IF file \in Unreadable THEN Invalid ELSE ParseField(f, file)

(***************************************************************************)
(* compose_per_source_loaded_resource_limits: the least concrete value of  *)
(* the repositories S that set the field; unlimited only if all say so.    *)
(* Of two spellings of one amount the code takes the first.                *)
(***************************************************************************)
Contributors(S) == {Load(field, repo_file[r]) : r \in S} \ {NotSet}

\* Mutant: amounts are compared by their number, whatever the unit.
LeastNumber(values) == CHOOSE v \in values : \A w \in values : v.n <= w.n

LeastOf(values) == CHOOSE v \in values : \A w \in values : Amount(v) <= Amount(w)

Compose(S) ==
    LET concrete == Contributors(S) \ {Unlimited}
    IN  IF Contributors(S) = {} THEN NotSet
        ELSE IF concrete = {} THEN Unlimited ELSE LeastOf(concrete)

(***************************************************************************)
(* resolve_resource_limits.                                                *)
(***************************************************************************)
First(values) ==
    LET set == {i \in DOMAIN values : values[i] # NotSet}
    IN  IF set = {} THEN NotSet ELSE values[CHOOSE i \in set : \A j \in set : i <= j]

Clamp(value, bound) ==
    IF \/ value = Unlimited
       \/ bound # Unlimited /\ Amount(value) > Amount(bound)
    THEN bound ELSE value

UserBound(user) == First(<<user, Default(field)>>)

FromSource(user, source) ==
    IF source = NotSet THEN UserBound(user) ELSE Clamp(source, UserBound(user))

\* The weight of a repository is read and ignored.
ResolveWeight(user, persisted, flag) == First(<<flag, persisted, user>>)

\* Mutant: what a session had is clamped to today's configuration.
ClampPersisted(user, source, persisted, flag) ==
    IF field = "blkio_weight" THEN ResolveWeight(user, persisted, flag)
    ELSE First(<<flag, IF persisted = NotSet THEN NotSet ELSE Clamp(persisted, UserBound(user)),
                 FromSource(user, source)>>)

Resolve(user, source, persisted, flag) ==
    IF field = "blkio_weight" THEN ResolveWeight(user, persisted, flag)
    ELSE First(<<flag, persisted, FromSource(user, source)>>)

\* Mutant: the newest session counts, also one that never wrote its metadata.
NewestClaimed == IF sessions = <<>> \/ sessions[Len(sessions)] = NoMetadata THEN 0 ELSE Len(sessions)

\* latest_session_with_metadata and read_persisted_resource_limits.
NewestWritten == LET written == {i \in DOMAIN sessions : sessions[i] # NoMetadata}
          IN  IF written = {} THEN 0 ELSE CHOOSE i \in written : \A j \in written : j <= i

\* persisted_resource_limits_from_on_disk: metadata without limits is silent.
FromDisk(entry) == IF entry = Legacy THEN NotSet ELSE entry

Persisted == IF NewestWritten = 0 THEN NotSet ELSE FromDisk(sessions[NewestWritten])

\* Mutant: unlimited is handed on as it is.
ArgvUnlimited(value) ==
    IF value = NotSet \/ (value # Unlimited /\ field = "blkio_weight" /\ value.n = 0)
    THEN NotSet ELSE value

\* resolved_limits_to_create_options omits the flag for unlimited, for a field
\* nobody set, and for a cleared weight.
Argv(value) ==
    IF value \in {Unlimited, NotSet} \/ (field = "blkio_weight" /\ value.n = 0)
    THEN NotSet ELSE value

-----------------------------------------------------------------------------
Files == {NotSet} \cup Unreadable \cup Written
Flags == {NotSet} \cup {w \in Written : w.form # "number"}

Loads == \A file \in {user_file} \cup {repo_file[r] : r \in Repos} : Load(field, file) # Invalid

LimitsInit ==
    /\ field \in Fields
    /\ user_file = NotSet
    /\ repo_file = [r \in Repos |-> NotSet]
    /\ sessions \in {<<>>, <<Legacy>>}
    /\ applied = NotSet /\ choice = NotSet /\ edits = 0

\* The user edits the file in the home directory, or pulls a repository.
Edit(file) ==
    /\ edits < MaxEdits /\ edits' = edits + 1
    /\ \/ user_file' = file /\ UNCHANGED repo_file
       \/ \E r \in Repos : repo_file' = [repo_file EXCEPT ![r] = file] /\ UNCHANGED user_file
    /\ UNCHANGED <<field, sessions, applied, choice>>

Flag(raw) == IF raw = NotSet THEN NotSet ELSE ParseFlag(field, raw)

\* `patchlab create` or `patchlab resume` runs to the session's metadata.
Start(raw) ==
    LET limit == Resolve(Load(field, user_file), Compose(Repos), Persisted, Flag(raw))
    IN  /\ Len(sessions) < MaxSessions
        /\ Flag(raw) # Invalid /\ Loads
        /\ applied' = Argv(limit)
        /\ sessions' = Append(sessions, limit)
        /\ choice' = IF Flag(raw) = NotSet THEN choice ELSE Flag(raw)
        /\ UNCHANGED <<field, user_file, repo_file, edits>>

\* A resume is killed after it claimed the session; the previous container stays.
Killed ==
    /\ sessions # <<>> /\ Len(sessions) < MaxSessions /\ Loads
    /\ sessions' = Append(sessions, NoMetadata)
    /\ UNCHANGED <<field, user_file, repo_file, applied, choice, edits>>

LimitsNext == (\E file \in Files : Edit(file)) \/ (\E raw \in Flags : Start(raw)) \/ Killed

LimitsSpec == LimitsInit /\ [][LimitsNext]_limit_vars

-----------------------------------------------------------------------------
LimitsTypeOK ==
    /\ field \in Fields
    /\ user_file \in Files /\ repo_file \in [Repos -> Files]
    /\ sessions \in Seq({NoMetadata, Legacy, NotSet, Unlimited} \cup Concrete)
    /\ Len(sessions) <= MaxSessions
    /\ applied \in {NotSet} \cup Concrete
    /\ choice \in {NotSet, Unlimited} \cup Concrete
    /\ edits \in 0..MaxEdits

\* What the runtime enforces: no flag, or an amount of zero, is no limit.
NoLimit == -1
Enforced(argv) == IF argv = NotSet \/ Amount(argv) = 0 THEN NoLimit ELSE Amount(argv)
AtMost(a, b)   == b = NoLimit \/ (a # NoLimit /\ a <= b)

\* What a create without flags would enforce if it spanned only S.
Create(S) == Enforced(Argv(Resolve(Load(field, user_file), Compose(S), NotSet, NotSet)))

\* A repository's file can only tighten: a create that spans more repositories
\* never runs under a looser cap, and one that spans any never under a looser
\* cap than the user's own (documents/configuration.md:113).  A weight is no
\* cap: no repository changes it.
RepositoriesOnlyTighten ==
    Loads => \A T \in SUBSET Repos : \A S \in SUBSET T :
        IF field = "blkio_weight" THEN Create(T) = Create(S) ELSE AtMost(Create(T), Create(S))

\* A cap is always in force unless the user asked for none, on hosts of any
\* size and whatever the repositories say: no rounding and no fold ends at zero.
CappedUnlessUnlimited ==
    (Loads /\ field # "blkio_weight" /\ Load(field, user_file) # Unlimited)
        => \A S \in SUBSET Repos : Create(S) # NoLimit

\* A limit chosen by a flag holds in every later session until another flag
\* replaces it: over edits of every file, sessions that died before their
\* metadata, an explicit unlimited and a cleared weight.
ChoiceSurvives ==
    choice # NotSet => Enforced(applied) = Enforced(Argv(choice))

\* A resume without a flag never changes the cap the container ran under.
ResumeKeepsTheCap ==
    [][(sessions # <<>> /\ Persisted # NotSet /\ choice' = choice /\ field # "blkio_weight")
        => Enforced(applied') = Enforced(applied)]_limit_vars
=============================================================================
