------------------------- MODULE CreateSandboxProofs -------------------------
(***************************************************************************)
(* For every set of repositories and changes: a create that succeeds has    *)
(* every branch, the archive and the container, one that fails leaves       *)
(* nothing it could remove, and the container starts from the branch's      *)
(* tree.  For every set of creates, tools and manifests: what the labels of  *)
(* an image say of it is earned.                                            *)
(***************************************************************************)
EXTENDS CreateSandbox, ImageTier, TLAPS

\* Every action keeps the types.
LEMMA TypeStep == TypeOK /\ [Next]_vars => TypeOK'
<1> SUFFICES ASSUME TypeOK, [Next]_vars PROVE TypeOK'
  OBVIOUS
<1> USE CreateAssumption DEF TypeOK, Pcs, Answers, host, options, branching, files, sandbox,
        unremoved
<1>1. ASSUME NEW r \in Repos, Preflight(r) PROVE TypeOK'
  BY <1>1 DEF Preflight, OptionAfter, RecordDirty, IsDirty
<1>2. CASE PreflightFails
  BY <1>2 DEF PreflightFails
<1>3. CASE MakeArchive
  BY <1>3 DEF MakeArchive
<1>4. ASSUME NEW r \in Repos, CreateBranch(r) PROVE TypeOK'
  BY <1>4 DEF CreateBranch, Track
<1>5. ASSUME NEW r \in Repos, CopySources(r) PROVE TypeOK'
  <2>1. PICK listed \in BOOLEAN : workspace' = [workspace EXCEPT ![r] = Taken(r, listed)]
    BY <1>5 DEF CopySources
  <2>2. Taken(r, listed) \subseteq Changes \cup CopyPaths \cup {Contents, Ignored}
    BY DEF Taken
  <2>3. QED
    BY <1>5, <2>1, <2>2 DEF CopySources
<1>6. ASSUME NEW r \in Repos, RollBackBranch(r) PROVE TypeOK'
  BY <1>6 DEF RollBackBranch, DeleteBranch
<1>7. CASE CommitBaseline
  BY <1>7 DEF CommitBaseline, Track
<1>8. CASE BaselineFails
  BY <1>8 DEF BaselineFails, DeleteBranch
<1>9. CASE CreateBranchFails
  BY <1>9 DEF CreateBranchFails
<1>10. CASE PrepareHostAccess
  BY <1>10 DEF PrepareHostAccess
<1>11. CASE CreateContainer
  BY <1>11 DEF CreateContainer
<1>12. CASE WriteManifest
  BY <1>12 DEF WriteManifest
<1>13. CASE WriteSession
  BY <1>13 DEF WriteSession
<1>14. CASE Finish
  BY <1>14 DEF Finish
<1>15. CASE ProvisionFails
  <2>1. container' = container \/ container' \in BOOLEAN
    BY <1>15 DEF ProvisionFails
  <2>2. container' \in BOOLEAN
    BY <2>1
  <2>3. proxy' \in BOOLEAN /\ pc' \in Pcs /\ pc' # "baseline"
    BY <1>15 DEF ProvisionFails
  <2>4. UNCHANGED <<host, options, todo, cur, branching, files, workspace, unremoved, touched>>
    BY <1>15 DEF ProvisionFails
  <2> HIDE DEF Pcs
  <2>5. QED
    BY <2>2, <2>3, <2>4
<1>16. CASE TearDown
  <2>1. container' = FALSE \/ container' = container
    BY <1>16 DEF TearDown
  <2>2. stuck' = stuck \/ stuck' = TRUE
    BY <1>16 DEF TearDown
  <2>3. container' \in BOOLEAN /\ stuck' \in BOOLEAN
    BY <2>1, <2>2
  <2>4. proxy' \in BOOLEAN /\ pc' \in Pcs /\ pc' # "baseline"
    BY <1>16 DEF TearDown
  <2>5. /\ workspace' = [r \in Repos |-> {}] \/ workspace' = workspace
        /\ UNCHANGED <<host, options, todo, cur, branching, files, leftover, kept, touched>>
    BY <1>16 DEF TearDown
  <2> HIDE DEF Pcs
  <2>6. QED
    BY <2>3, <2>4, <2>5
<1>17. CASE RemoveArchive
  <2>1. archive' \in BOOLEAN /\ kept' \in BOOLEAN
    BY <1>17 DEF RemoveArchive
  <2>2. manifest' = FALSE \/ manifest' = manifest
    BY <1>17 DEF RemoveArchive
  <2>3. session' = FALSE \/ session' = session
    BY <1>17 DEF RemoveArchive
  <2>4. manifest' \in BOOLEAN /\ session' \in BOOLEAN
    BY <2>2, <2>3
  <2>5. /\ pc' = "failed"
        /\ UNCHANGED <<host, options, todo, cur, branching, sandbox, leftover, stuck, touched>>
    BY <1>17 DEF RemoveArchive
  <2>6. QED
    BY <2>1, <2>4, <2>5
<1>18. CASE CliKilled
  BY <1>18 DEF CliKilled
<1>19. ASSUME NEW r \in Repos, HostCommit(r) PROVE TypeOK'
  BY <1>19 DEF HostCommit, IsDirty
<1>20. ASSUME NEW r \in Repos, GcOrphan(r) PROVE TypeOK'
  BY <1>20 DEF GcOrphan
<1>21. ASSUME NEW r \in Repos, NEW c \in Changes, HostEdit(r, c) PROVE TypeOK'
  BY <1>21 DEF HostEdit
<1>22. CASE UNCHANGED vars
  BY <1>22 DEF vars
<1>23. CASE CopyAdditional
  <2>1. PICK present \in SUBSET CopyPaths :
          workspace' = [r \in Repos |->
             (workspace[r] \ UNION {Replaces[x] : x \in {y \in present : Target[y] = r}})
                \cup {y \in present : Target[y] = r}]
    BY <1>23 DEF CopyAdditional
  <2>2. workspace' \in [Repos -> SUBSET (Changes \cup CopyPaths \cup {Contents, Ignored})]
    BY <2>1
  <2>3. QED
    BY <1>23, <2>2 DEF CopyAdditional
<1>24. QED
  BY <1>1, <1>2, <1>3, <1>4, <1>5, <1>6, <1>7, <1>8, <1>9, <1>10,
     <1>11, <1>12, <1>13, <1>14, <1>15, <1>16, <1>17, <1>18, <1>19, <1>20,
     <1>21, <1>22, <1>23
     DEF Next, Provisioning, Environment

\* The state of a create always has its types.
THEOREM TypeCorrect == Spec => []TypeOK
<1>1. Init => TypeOK
  <2> SUFFICES ASSUME Init PROVE TypeOK
    OBVIOUS
  <2>1. work \in [Repos -> SUBSET Changes]
    BY DEF Init
  <2>2. QED
    BY <2>1 DEF Init, TypeOK, Pcs, Answers
<1>2. QED
  BY <1>1, TypeStep, PTL DEF Spec

-----------------------------------------------------------------------------
(***************************************************************************)
(* The inductive invariant.                                                 *)
(***************************************************************************)
Branching == {"branches", "baseline"}
Built     == {"container", "copy", "manifest", "session", "extras", "done"}

\* Which repositories have the branch: those the create has tracked, the one whose baseline
\* is being committed, and after a rollback those whose branch could not be deleted.
BranchInv ==
    /\ pc = "preflight" => exists = {} /\ created = {}
    /\ pc \in Branching => created = Repos \ todo
    /\ pc = "branches" => exists = created
    /\ pc = "baseline" => exists = created \cup {cur} /\ cur \in todo
    /\ pc \in Built \cup {"teardown"} => created = Repos /\ exists = Repos
    /\ pc = "rollback" => exists \subseteq created \cup leftover
    /\ pc = "failed" => exists \subseteq leftover

\* The archive directory is there from before the first branch until the rollback is over;
\* the manifest, the session, the container and the proxy come and go in their order.
FilesInv ==
    /\ pc \in Branching \cup Built \cup {"teardown", "rollback"} => archive
    /\ pc = "preflight" => ~archive
    /\ pc \in {"session", "extras", "done"} => manifest
    /\ pc \in {"extras", "done"} => session
    /\ pc \in {"preflight"} \cup Branching => ~container /\ ~proxy
    /\ pc = "container" => ~container
    /\ pc \in {"copy", "manifest", "session", "extras", "done"} => container
    /\ pc = "teardown" => ~proxy
    /\ pc \in {"rollback", "failed"} => (container => stuck) /\ ~proxy
    /\ pc = "failed" => (archive => kept)

Checked(r) == (pc = "preflight" /\ r \notin todo) \/ pc \in Branching

\* A repository checked clean and not edited since still is; one with its branch and not
\* edited since has the tree of the branch; the mount of a copied one has of that tree what
\* it follows.
TreeInv ==
    \A r \in Repos \ touched :
        /\ Checked(r) /\ r \notin dirty => work[r] = head[r]
        /\ pc \in Branching \cup {"container", "copy"} /\ r \in created => tip[r] = work[r]
        /\ (pc = "copy" /\ r \notin todo) \/ pc \in {"manifest", "session", "extras", "done"}
              => workspace[r] \cap Followed(r) = tip[r] \cap Followed(r)

\* Every action keeps BranchInv: a collector finds the archive of each branch.
LEMMA BranchStep == TypeOK /\ BranchInv /\ FilesInv /\ [Next]_vars => BranchInv'
<1> SUFFICES ASSUME TypeOK, BranchInv, FilesInv, [Next]_vars PROVE BranchInv'
  OBVIOUS
<1> USE CreateAssumption DEF TypeOK, BranchInv, FilesInv, Branching, Built, Reading, Ended, host, options,
        branching, files, sandbox, unremoved
<1>1. ASSUME NEW r \in Repos, Preflight(r) PROVE BranchInv'
  BY <1>1 DEF Preflight, OptionAfter, RecordDirty, IsDirty
<1>2. CASE PreflightFails
  BY <1>2 DEF PreflightFails
<1>3. CASE MakeArchive
  BY <1>3 DEF MakeArchive
<1>4. ASSUME NEW r \in Repos, CreateBranch(r) PROVE BranchInv'
  BY <1>4 DEF CreateBranch, Track
<1>5. ASSUME NEW r \in Repos, CopySources(r) PROVE BranchInv'
  BY <1>5 DEF CopySources
<1>6. ASSUME NEW r \in Repos, RollBackBranch(r) PROVE BranchInv'
  BY <1>6 DEF RollBackBranch, DeleteBranch
<1>7. CASE CommitBaseline
  BY <1>7 DEF CommitBaseline, Track
<1>8. CASE BaselineFails
  BY <1>8 DEF BaselineFails, DeleteBranch
<1>9. CASE CreateBranchFails
  BY <1>9 DEF CreateBranchFails
<1>10. CASE PrepareHostAccess
  BY <1>10 DEF PrepareHostAccess
<1>11. CASE CreateContainer
  BY <1>11 DEF CreateContainer
<1>12. CASE WriteManifest
  BY <1>12 DEF WriteManifest
<1>13. CASE WriteSession
  BY <1>13 DEF WriteSession
<1>14. CASE Finish
  BY <1>14 DEF Finish
<1>15. CASE ProvisionFails
  BY <1>15 DEF ProvisionFails
<1>16. CASE TearDown
  BY <1>16 DEF TearDown
<1>17. CASE RemoveArchive
  BY <1>17 DEF RemoveArchive
<1>18. CASE CliKilled
  BY <1>18 DEF CliKilled
<1>19. ASSUME NEW r \in Repos, HostCommit(r) PROVE BranchInv'
  BY <1>19 DEF HostCommit, IsDirty
<1>20. ASSUME NEW r \in Repos, GcOrphan(r) PROVE BranchInv'
  BY <1>20 DEF GcOrphan
<1>21. ASSUME NEW r \in Repos, NEW c \in Changes, HostEdit(r, c) PROVE BranchInv'
  BY <1>21 DEF HostEdit
<1>22. CASE UNCHANGED vars
  BY <1>22 DEF vars
<1>23. CASE CopyAdditional
  BY <1>23 DEF CopyAdditional
<1>24. QED
  BY <1>1, <1>2, <1>3, <1>4, <1>5, <1>6, <1>7, <1>8, <1>9, <1>10,
     <1>11, <1>12, <1>13, <1>14, <1>15, <1>16, <1>17, <1>18, <1>19, <1>20,
     <1>21, <1>22, <1>23
     DEF Next, Provisioning, Environment

\* Every action keeps FilesInv.
LEMMA FilesStep == TypeOK /\ FilesInv /\ BranchInv /\ [Next]_vars => FilesInv'
<1> SUFFICES ASSUME TypeOK, FilesInv, BranchInv, [Next]_vars PROVE FilesInv'
  OBVIOUS
<1> USE DEF TypeOK, FilesInv, Branching, Built, Reading, Ended, host, options, branching, files, sandbox,
        unremoved
<1>1. ASSUME NEW r \in Repos, Preflight(r) PROVE FilesInv'
  BY <1>1 DEF Preflight, OptionAfter, RecordDirty, IsDirty
<1>2. CASE PreflightFails
  BY <1>2 DEF PreflightFails
<1>3. CASE MakeArchive
  BY <1>3 DEF MakeArchive
<1>4. ASSUME NEW r \in Repos, CreateBranch(r) PROVE FilesInv'
  BY <1>4 DEF CreateBranch, Track
<1>5. ASSUME NEW r \in Repos, CopySources(r) PROVE FilesInv'
  BY <1>5 DEF CopySources
<1>6. ASSUME NEW r \in Repos, RollBackBranch(r) PROVE FilesInv'
  BY <1>6 DEF RollBackBranch, DeleteBranch
<1>7. CASE CommitBaseline
  BY <1>7 DEF CommitBaseline, Track
<1>8. CASE BaselineFails
  BY <1>8 DEF BaselineFails, DeleteBranch
<1>9. CASE CreateBranchFails
  BY <1>9 DEF CreateBranchFails
<1>10. CASE PrepareHostAccess
  BY <1>10 DEF PrepareHostAccess
<1>11. CASE CreateContainer
  BY <1>11 DEF CreateContainer
<1>12. CASE WriteManifest
  BY <1>12 DEF WriteManifest
<1>13. CASE WriteSession
  BY <1>13 DEF WriteSession
<1>14. CASE Finish
  BY <1>14 DEF Finish
<1>15. CASE ProvisionFails
  BY <1>15 DEF ProvisionFails
<1>16. CASE TearDown
  BY <1>16 DEF TearDown
<1>17. CASE RemoveArchive
  BY <1>17 DEF RemoveArchive
<1>18. CASE CliKilled
  BY <1>18 DEF CliKilled
<1>19. ASSUME NEW r \in Repos, HostCommit(r) PROVE FilesInv'
  BY <1>19 DEF HostCommit, IsDirty
<1>20. ASSUME NEW r \in Repos, GcOrphan(r) PROVE FilesInv'
  BY <1>20 DEF GcOrphan
<1>21. ASSUME NEW r \in Repos, NEW c \in Changes, HostEdit(r, c) PROVE FilesInv'
  BY <1>21 DEF HostEdit
<1>22. CASE UNCHANGED vars
  BY <1>22 DEF vars
<1>23. CASE CopyAdditional
  BY <1>23 DEF CopyAdditional
<1>24. QED
  BY <1>1, <1>2, <1>3, <1>4, <1>5, <1>6, <1>7, <1>8, <1>9, <1>10,
     <1>11, <1>12, <1>13, <1>14, <1>15, <1>16, <1>17, <1>18, <1>19, <1>20,
     <1>21, <1>22, <1>23
     DEF Next, Provisioning, Environment

\* Every action keeps TreeInv.
LEMMA TreeStep == TypeOK /\ BranchInv /\ TreeInv /\ [Next]_vars => TreeInv'
<1> SUFFICES ASSUME TypeOK, BranchInv, TreeInv, [Next]_vars PROVE TreeInv'
  OBVIOUS
<1> USE CreateAssumption DEF TypeOK, BranchInv, TreeInv, Checked, Branching, Built, Reading, Ended, host,
        options, branching, files, sandbox, unremoved
<1>1. ASSUME NEW r \in Repos, Preflight(r) PROVE TreeInv'
  BY <1>1 DEF Preflight, OptionAfter, RecordDirty, IsDirty
<1>2. CASE PreflightFails
  BY <1>2 DEF PreflightFails
<1>3. CASE MakeArchive
  BY <1>3 DEF MakeArchive
<1>4. ASSUME NEW r \in Repos, CreateBranch(r) PROVE TreeInv'
  BY <1>4 DEF CreateBranch, Track
<1>5. ASSUME NEW r \in Repos, CopySources(r) PROVE TreeInv'
  <2>1. PICK listed \in BOOLEAN : workspace' = [workspace EXCEPT ![r] = Taken(r, listed)]
    BY <1>5 DEF CopySources
  <2>2. workspace'[r] \cap Followed(r) = work[r] \cap Followed(r)
    BY <2>1 DEF Taken, Followed
  <2>3. QED
    BY <1>5, <2>2 DEF CopySources
<1>6. ASSUME NEW r \in Repos, RollBackBranch(r) PROVE TreeInv'
  BY <1>6 DEF RollBackBranch, DeleteBranch
<1>7. CASE CommitBaseline
  BY <1>7 DEF CommitBaseline, Track
<1>8. CASE BaselineFails
  BY <1>8 DEF BaselineFails, DeleteBranch
<1>9. CASE CreateBranchFails
  BY <1>9 DEF CreateBranchFails
<1>10. CASE PrepareHostAccess
  BY <1>10 DEF PrepareHostAccess
<1>11. CASE CreateContainer
  BY <1>11 DEF CreateContainer
<1>12. CASE WriteManifest
  BY <1>12 DEF WriteManifest
<1>13. CASE WriteSession
  BY <1>13 DEF WriteSession
<1>14. CASE Finish
  BY <1>14 DEF Finish
<1>15. CASE ProvisionFails
  BY <1>15 DEF ProvisionFails
<1>16. CASE TearDown
  BY <1>16 DEF TearDown
<1>17. CASE RemoveArchive
  BY <1>17 DEF RemoveArchive
<1>18. CASE CliKilled
  BY <1>18 DEF CliKilled
<1>19. ASSUME NEW r \in Repos, HostCommit(r) PROVE TreeInv'
  BY <1>19 DEF HostCommit, IsDirty
<1>20. ASSUME NEW r \in Repos, GcOrphan(r) PROVE TreeInv'
  BY <1>20 DEF GcOrphan
<1>21. ASSUME NEW r \in Repos, NEW c \in Changes, HostEdit(r, c) PROVE TreeInv'
  BY <1>21 DEF HostEdit
<1>22. CASE UNCHANGED vars
  BY <1>22 DEF vars
<1>23. CASE CopyAdditional
  <2>1. PICK present \in SUBSET CopyPaths :
          workspace' = [r \in Repos |->
             (workspace[r] \ UNION {Replaces[x] : x \in {y \in present : Target[y] = r}})
                \cup {y \in present : Target[y] = r}]
    BY <1>23 DEF CopyAdditional
  <2>2. ASSUME NEW r \in Repos \ touched
        PROVE  workspace'[r] \cap Followed(r) = workspace[r] \cap Followed(r)
    BY <2>1 DEF Followed
  <2>3. QED
    BY <1>23, <2>2 DEF CopyAdditional
<1>24. QED
  BY <1>1, <1>2, <1>3, <1>4, <1>5, <1>6, <1>7, <1>8, <1>9, <1>10,
     <1>11, <1>12, <1>13, <1>14, <1>15, <1>16, <1>17, <1>18, <1>19, <1>20,
     <1>21, <1>22, <1>23
     DEF Next, Provisioning, Environment

\* The three together hold in every state.
LEMMA Invariant == Spec => [](TypeOK /\ BranchInv /\ FilesInv /\ TreeInv)
<1>1. Init => BranchInv /\ FilesInv /\ TreeInv
  BY CreateAssumption
     DEF Init, BranchInv, FilesInv, TreeInv, Checked, Branching, Built
<1>2. TypeOK /\ (BranchInv /\ FilesInv /\ TreeInv) /\ [Next]_vars
        => (BranchInv /\ FilesInv /\ TreeInv)'
  BY BranchStep, FilesStep, TreeStep
<1>3. QED
  BY <1>1, <1>2, TypeCorrect, TypeStep, PTL DEF Spec

\* A create that succeeds has every branch, though a gc may run beside it, the archive with
\* manifest and session, and the container: for any number of repositories.
THEOREM SuccessIsWhole == Spec => []CreatedIsWhole
<1>1. BranchInv /\ FilesInv => CreatedIsWhole
  BY DEF BranchInv, FilesInv, CreatedIsWhole, Built, Branching
<1>2. QED
  BY <1>1, Invariant, PTL

\* A create that fails leaves only what its rollback tried and failed to remove, wherever it
\* fails and for any number of repositories.
THEOREM FailureIsClean == Spec => []FailedLeavesNothing
<1>1. BranchInv /\ FilesInv => FailedLeavesNothing
  BY DEF BranchInv, FilesInv, FailedLeavesNothing
<1>2. QED
  BY <1>1, Invariant, PTL

\* The workspace of a successful create agrees with the tree of the branch in every
\* repository not edited since its check, dirty or clean, on all that the copy takes and no
\* --copy replaces.
THEOREM WorkspaceFromBranch == Spec => []BaselineIsWorkspace
<1>1. TreeInv => BaselineIsWorkspace
  BY DEF TreeInv, BaselineIsWorkspace
<1>2. QED
  BY <1>1, Invariant, PTL

-----------------------------------------------------------------------------
(***************************************************************************)
(* The images (ImageTier).  What a label claims of credentials is earned    *)
(* whatever other creates build, commit or remove meanwhile: a create that   *)
(* leaves the credentials out goes from a tag of the form "auth", and that   *)
(* holds them as long as it is there.                                       *)
(***************************************************************************)
\* The tags are pairwise different, and none is the user's own image.
LEMMA TagFacts ==
    /\ Raw # Base /\ Raw \notin Tags /\ Base \in Tags
    /\ \A t, h : /\ AuthTag(t, h) \notin {Raw, Base} /\ InstalledTag(t, h) \notin {Raw, Base}
                 /\ AuthTag(t, h)[1] = "auth" /\ AuthTag(t, h)[2] = t
                 /\ InstalledTag(t, h)[1] = "installed"
    /\ \A t1, h1, t2, h2 :
          /\ AuthTag(t1, h1) # InstalledTag(t2, h2)
          /\ AuthTag(t1, h1) = AuthTag(t2, h2) => t1 = t2 /\ h1 = h2
          /\ InstalledTag(t1, h1) = InstalledTag(t2, h2) => t1 = t2 /\ h1 = h2
<1>1. Raw # Base /\ Base \in Tags
  BY DEF Raw, Base, Tags
<1>2. \A t, h : /\ AuthTag(t, h) \notin {Raw, Base} /\ InstalledTag(t, h) \notin {Raw, Base}
                /\ AuthTag(t, h)[1] = "auth" /\ AuthTag(t, h)[2] = t
                /\ InstalledTag(t, h)[1] = "installed"
  BY DEF Raw, Base, AuthTag, InstalledTag
<1>3. \A t1, h1, t2, h2 :
          /\ AuthTag(t1, h1) # InstalledTag(t2, h2)
          /\ AuthTag(t1, h1) = AuthTag(t2, h2) => t1 = t2 /\ h1 = h2
          /\ InstalledTag(t1, h1) = InstalledTag(t2, h2) => t1 = t2 /\ h1 = h2
  BY DEF AuthTag, InstalledTag
<1>4. Raw \notin Tags
  BY <1>1, <1>2 DEF Tags
<1>5. QED
  BY <1>1, <1>2, <1>3, <1>4

\* The caches of a tool are among the tags.
LEMMA TagsOfTool ==
  ASSUME NEW t \in Tools, NEW h \in HashesOf(t)
  PROVE  AuthTag(t, h) \in Tags /\ InstalledTag(t, h) \in Tags
BY DEF Tags

\* An image without labels is an image.
LEMMA PlainType ==
  ASSUME NEW holds \in SUBSET Tools
  PROVE  /\ Plain(holds) \in Image
         /\ Plain(holds).tools = {} /\ \A t \in Tools : Plain(holds).state[t] = "absent"
BY DEF Plain, Image, States

\* What is found under a name is an image, and its label for a tool a state.
LEMMA AtType ==
  ASSUME ImageTypeOK, NEW ref \in Tags \cup {Raw}
  PROVE  /\ Exists(ref) => At(ref) \in Image
         /\ \A t \in Tools : ToolState(ref, t) \in States
<1>1. Exists(ref) => At(ref) \in Image
  BY PlainType, ImageAssumption DEF ImageTypeOK, Exists, At
<1>2. \A t \in Tools : ToolState(ref, t) \in States
  BY <1>1 DEF ToolState, Image, States
<1>3. QED
  BY <1>1, <1>2

\* The image build_image writes has the tool it was built for, and no other.
LEMMA BuiltType ==
  ASSUME NEW t \in Tools, NEW h \in Manifests \cup {None}, NEW need \in BOOLEAN, NEW fit \in BOOLEAN
  PROVE  /\ BuiltImage(t, h, need, fit) \in Image
         /\ BuiltImage(t, h, need, fit).tools = {t}
         /\ \A u \in Tools : BuiltImage(t, h, need, fit).state[u]
                                = IF u = t THEN "installed" ELSE "absent"
<1>1. Plain({t}) \in Image
  BY PlainType
<1>2. QED
  BY <1>1 DEF BuiltImage, Plain, Image, States

\* A create that has not begun, or has failed, is well formed and goes from no tag.
LEMMA NewType ==
    /\ New \in Create /\ Failed \in Create /\ New.pc = "idle" /\ Failed.pc = "failed"
    /\ New.image = Raw /\ New.copies = "none" /\ New.found = FALSE
<1>1. Plain({}) \in Image
  BY PlainType
<1>2. New \in Create
  BY <1>1 DEF New, Create, CreateSteps, States, Methods
<1>3. QED
  BY <1>2 DEF Failed, New, Create, CreateSteps

\* What a commit keeps of the container and what it adds.
LEMMA CommittedType ==
  ASSUME NEW c \in Create, c.tool \in Tools
  PROVE  /\ Committed(c) \in Image
         /\ Committed(c).credentials = c.box.credentials
         /\ Committed(c).state = [c.box.state EXCEPT ![c.tool] = LabelOf(c.auth)]
         /\ Committed(c).unearned = IF c.copies = "done" \/ (c.copies = "none" /\ ~c.secrets)
                                    THEN c.box.unearned \ {c.tool} ELSE c.box.unearned \cup {c.tool}
<1>1. c.box \in Image /\ c.auth \in Methods
  BY DEF Create
<1>2. LabelOf(c.auth) \in States
  BY <1>1 DEF LabelOf, Methods, States
<1>3. QED
  BY <1>1, <1>2 DEF Committed, Image

\* A commit is to a tag.
LEMMA TargetType ==
  ASSUME NEW c \in Create, c.tool \in Tools, c.hash \in HashesOf(c.tool)
  PROVE  TargetTag(c) \in Tags
BY TagsOfTool DEF TargetTag

\* What a process has in hand when it is at work.
Working(c) == c.tool \in Tools /\ c.hash \in HashesOf(c.tool)

\* A create under way has a tool and the hash of its manifest.
LEMMA ActiveWorks ==
  ASSUME ImageTypeOK, NEW p \in Creates, Active(p)
  PROVE  create[p] \in Create /\ Working(create[p])
BY DEF ImageTypeOK, Working

\* A create's step changes that create alone.
LEMMA BecomeOne ==
  ASSUME ImageTypeOK, NEW p \in Creates, NEW c, Become(p, c)
  PROVE  create'[p] = c /\ \A q \in Creates : q # p => create'[q] = create[q]
BY DEF ImageTypeOK, Become

\* A step that leaves the create and the images well formed keeps the types.
LEMMA BecomeType ==
  ASSUME ImageTypeOK, NEW p \in Creates, NEW c \in Create, Become(p, c),
         c.pc \notin {"idle", "ended", "failed"} => Working(c),
         store' \in [Tags -> Image \cup {None}], UNCHANGED <<declared, events>>, raced' \in BOOLEAN
  PROVE  ImageTypeOK'
<1>1. create' \in [Creates -> Create]
  BY DEF ImageTypeOK, Become
<1>2. \A q \in Creates : Active(q)' =>
         create'[q].tool \in Tools /\ create'[q].hash \in HashesOf(create'[q].tool)
  <2> SUFFICES ASSUME NEW q \in Creates, Active(q)'
               PROVE  create'[q].tool \in Tools /\ create'[q].hash \in HashesOf(create'[q].tool)
    OBVIOUS
  <2>1. CASE q = p
    BY <2>1, BecomeOne DEF Active, Working
  <2>2. CASE q # p
    BY <2>2, BecomeOne DEF Active, ImageTypeOK
  <2>3. QED
    BY <2>1, <2>2
<1>3. QED
  BY <1>1, <1>2 DEF ImageTypeOK

\* Writing a tag writes no other.
LEMMA WriteType ==
  ASSUME ImageTypeOK, NEW tag \in Tags, NEW image \in Image \cup {None},
         store' = [store EXCEPT ![tag] = image]
  PROVE  /\ store' \in [Tags -> Image \cup {None}]
         /\ store'[tag] = image /\ \A other \in Tags : other # tag => store'[other] = store[other]
BY DEF ImageTypeOK

\* The actions, as what they make of the process.
\* A create begins with no image, no copies and nothing found.
LEMMA BeginStep ==
  ASSUME ImageTypeOK, NEW p \in Creates, Begin(p)
  PROVE  \E c \in Create :
            /\ Become(p, c) /\ Working(c) /\ c.pc \in {"default", "resolve"} /\ c.image = Raw
            /\ c.copies = "none" /\ c.found = FALSE
            /\ UNCHANGED <<store, declared, events>>
            /\ raced' = (raced \/ \E q \in Creates : Active(q))
<1>1. PICK t \in Tools, given \in BOOLEAN, force \in BOOLEAN, need \in BOOLEAN :
          Become(p, [New EXCEPT !.pc = IF given THEN "resolve" ELSE "default",
                                !.tool = t, !.rebuild = force, !.wants = need,
                                !.hash = IF t \in Configured THEN declared[t] ELSE None])
  BY Zenon DEF Begin
<1> DEFINE hash == IF t \in Configured THEN declared[t] ELSE None
<1> DEFINE step == IF given THEN "resolve" ELSE "default"
<1>2. hash \in HashesOf(t) /\ hash \in Manifests \cup {None}
  BY DEF ImageTypeOK, HashesOf
<1>3. step \in {"default", "resolve"}
  OBVIOUS
<1> HIDE DEF hash, step
<1> DEFINE c == [New EXCEPT !.pc = step, !.tool = t, !.rebuild = force, !.wants = need,
                            !.hash = hash]
<1>4. /\ c \in Create /\ c.pc = step /\ c.tool = t /\ c.hash = hash /\ c.image = Raw
      /\ c.copies = "none" /\ c.found = FALSE
  <2>1. New \in Create /\ New.image = Raw /\ New.copies = "none" /\ New.found = FALSE
    BY NewType
  <2>2. c \in Create
    <3>1. step \in CreateSteps
      BY <1>3 DEF CreateSteps
    <3>2. QED
      BY <1>2, <2>1, <3>1 DEF Create
  <2>3. c.pc = step /\ c.tool = t /\ c.hash = hash
    BY <2>1 DEF Create
  <2>4. c.image = New.image /\ c.copies = New.copies /\ c.found = New.found
    BY <2>1 DEF Create
  <2> HIDE DEF c
  <2>5. QED
    BY <2>1, <2>2, <2>3, <2>4
<1>5. Become(p, c)
  BY <1>1 DEF hash, step
<1> HIDE DEF c
<1>6. UNCHANGED <<store, declared, events>> /\ raced' = (raced \/ \E q \in Creates : Active(q))
  BY DEF Begin
<1>7. QED
  BY <1>2, <1>3, <1>4, <1>5, <1>6 DEF Working

\* ensure_default_image with a candidate takes the base.
LEMMA FindDefaultStep ==
  ASSUME ImageTypeOK, NEW p \in Creates, FindDefault(p)
  PROVE  LET c == create[p]
             d == [create[p] EXCEPT !.pc = "resolve", !.image = Base, !.found = TRUE]
         IN  /\ c \in Create /\ Working(c) /\ c.pc = "default" /\ Candidate(c.tool, c.wants)
             /\ d \in Create /\ Working(d) /\ Become(p, d)
             /\ UNCHANGED <<store, machine>>
<1>1. create[p] \in Create /\ create[p].pc = "default" /\ Working(create[p])
  BY ActiveWorks DEF FindDefault, On, Active, ImageTypeOK
<1>2. [create[p] EXCEPT !.pc = "resolve", !.image = Base, !.found = TRUE] \in Create
  BY <1>1, TagFacts DEF Create, CreateSteps
<1>3. QED
  BY <1>1, <1>2 DEF FindDefault, Create, Working

\* ensure_default_image without one builds the base, or fails.
LEMMA BuildDefaultStep ==
  ASSUME ImageTypeOK, NEW p \in Creates, BuildDefault(p)
  PROVE  LET c == create[p]  d == [create[p] EXCEPT !.pc = "resolve", !.image = Base]
         IN  /\ c \in Create /\ Working(c) /\ c.pc = "default" /\ UNCHANGED machine
             /\ \/ /\ d \in Create /\ Working(d) /\ Become(p, d)
                   /\ \E fit \in BOOLEAN :
                         /\ BuiltImage(c.tool, c.hash, c.wants, fit) \in Image
                         /\ store' = [store EXCEPT ![Base] = BuiltImage(c.tool, c.hash, c.wants, fit)]
                \/ Become(p, Failed) /\ UNCHANGED store
<1>1. create[p] \in Create /\ create[p].pc = "default" /\ Working(create[p])
  BY ActiveWorks DEF BuildDefault, On, Active, ImageTypeOK
<1>2. [create[p] EXCEPT !.pc = "resolve", !.image = Base] \in Create
  BY <1>1, TagFacts DEF Create, CreateSteps
<1>3. Working([create[p] EXCEPT !.pc = "resolve", !.image = Base])
  BY <1>1 DEF Working, Create
<1>4. \A fit \in BOOLEAN :
         BuiltImage(create[p].tool, create[p].hash, create[p].wants, fit) \in Image
  BY <1>1, BuiltType DEF Working, Create
<1>5. \/ /\ \E fit \in BOOLEAN :
               store' = [store EXCEPT ![Base] =
                            BuiltImage(create[p].tool, create[p].hash, create[p].wants, fit)]
         /\ Become(p, [create[p] EXCEPT !.pc = "resolve", !.image = Base])
      \/ Become(p, Failed) /\ UNCHANGED store
  BY Zenon DEF BuildDefault
<1>6. UNCHANGED machine
  BY DEF BuildDefault
<1>7. QED
  BY <1>1, <1>2, <1>3, <1>4, <1>5, <1>6

\* Where a resolution may lead: to the image itself, or to a tag with the label it found.
Leads(r, ref, t, h) ==
    /\ r.ref \in Tags \cup {Raw} /\ r.state \in States /\ r.compatible \in BOOLEAN
    /\ \/ r.ref = ref /\ r.state = "absent" /\ (r.compatible => Compatible(ref))
       \/ /\ r.state = ToolState(r.ref, t) /\ r.state # "absent" /\ r.compatible
          /\ \/ r.ref \in {ref, Base}
             \/ r.ref = AuthTag(t, h) /\ Attempted(r.state)
             \/ r.ref = InstalledTag(t, h) /\ r.state = "installed"
    /\ ToolState(ref, t) # "absent" => r.ref = ref

\* resolve_effective_image leads where Leads says, forced or not.
LEMMA ResolutionLeads ==
  ASSUME ImageTypeOK, NEW ref \in Tags \cup {Raw}, NEW t \in Tools, NEW h \in HashesOf(t),
         NEW force \in BOOLEAN
  PROVE  Leads(Resolution(ref, t, h, force), ref, t, h)
<1> DEFINE r == Resolution(ref, t, h, force)
<1> DEFINE Hit(tag) == Found(tag, ToolState(tag, t), TRUE)
<1> SUFFICES Leads(r, ref, t, h)
  OBVIOUS
<1>1. ref \in Tags \cup {Raw} /\ AuthTag(t, h) \in Tags /\ InstalledTag(t, h) \in Tags /\ Base \in Tags
  BY TagFacts, TagsOfTool
<1>2. /\ ToolState(ref, t) \in States /\ ToolState(AuthTag(t, h), t) \in States
      /\ ToolState(InstalledTag(t, h), t) \in States /\ ToolState(Base, t) \in States
      /\ "absent" \in States
  BY <1>1, AtType DEF States
<1>3. CASE force
  <2>1. r = Found(ref, "absent", FALSE)
    BY <1>3 DEF Resolution
  <2> HIDE DEF r
  <2>2. r.ref = ref /\ r.state = "absent" /\ r.compatible = FALSE
    BY <2>1 DEF Found
  <2>3. QED
    BY <1>1, <1>2, <2>2 DEF Leads
<1>4. CASE ~force /\ ToolState(ref, t) # "absent"
  <2>1. r = Hit(ref)
    BY <1>4 DEF Resolution
  <2> HIDE DEF r
  <2>2. r.ref = ref /\ r.state = ToolState(ref, t) /\ r.compatible = TRUE
    BY <2>1 DEF Found
  <2>3. QED
    BY <1>1, <1>2, <1>4, <2>2 DEF Leads
<1>5. CASE ~force /\ ToolState(ref, t) = "absent" /\ AuthHit(t, h)
  <2>1. r = Hit(AuthTag(t, h))
    BY <1>5 DEF Resolution
  <2> HIDE DEF r
  <2>2. r.ref = AuthTag(t, h) /\ r.state = ToolState(AuthTag(t, h), t) /\ r.compatible = TRUE
    BY <2>1 DEF Found
  <2>3. Attempted(r.state) /\ r.state # "absent"
    BY <1>5, <2>2 DEF AuthHit, Attempted
  <2>4. QED
    BY <1>1, <1>2, <1>5, <2>2, <2>3 DEF Leads
<1>6. CASE ~force /\ ToolState(ref, t) = "absent" /\ ~AuthHit(t, h) /\ InstalledHit(t, h)
  <2>1. r = Hit(InstalledTag(t, h))
    BY <1>6 DEF Resolution
  <2> HIDE DEF r
  <2>2. r.ref = InstalledTag(t, h) /\ r.state = ToolState(InstalledTag(t, h), t) /\ r.compatible = TRUE
    BY <2>1 DEF Found
  <2>3. r.state = "installed"
    BY <1>6, <2>2 DEF InstalledHit
  <2>4. QED
    BY <1>1, <1>2, <1>6, <2>2, <2>3 DEF Leads
<1>7. CASE ~force /\ ToolState(ref, t) = "absent" /\ ~AuthHit(t, h) /\ ~InstalledHit(t, h)
  <2>1. r = IF BaseHit(t) THEN Hit(Base) ELSE Found(ref, "absent", Compatible(ref))
    BY <1>7 DEF Resolution
  <2>2. Compatible(ref) \in BOOLEAN
    <3>1. CASE Exists(ref)
      BY <1>1, <3>1, AtType DEF Compatible, Image
    <3>2. CASE ~Exists(ref)
      BY <3>2 DEF Compatible
    <3>3. QED
      BY <3>1, <3>2
  <2> HIDE DEF r
  <2>3. CASE BaseHit(t)
    <3>1. r.ref = Base /\ r.state = ToolState(Base, t) /\ r.compatible = TRUE
      BY <2>1, <2>3 DEF Found
    <3>2. r.state # "absent"
      BY <2>3, <3>1 DEF BaseHit
    <3>3. QED
      BY <1>1, <1>2, <1>7, <3>1, <3>2 DEF Leads
  <2>4. CASE ~BaseHit(t)
    <3>1. r.ref = ref /\ r.state = "absent" /\ r.compatible = Compatible(ref)
      BY <2>1, <2>4 DEF Found
    <3>2. QED
      BY <1>1, <1>2, <1>7, <2>2, <3>1 DEF Leads
  <2>5. QED
    BY <2>3, <2>4
<1>8. QED
  BY <1>3, <1>4, <1>5, <1>6, <1>7

\* A resolution moves the create to the image it leads to.
LEMMA ResolveStep ==
  ASSUME ImageTypeOK, NEW p \in Creates, Resolve(p)
  PROVE  LET c == create[p]
         IN  \E r : LET d == [c EXCEPT !.pc = "confirm", !.image = r.ref, !.state = r.state,
                                       !.compatible = r.compatible]
                    IN  /\ c \in Create /\ Working(c) /\ c.pc = "resolve"
                        /\ Leads(r, c.image, c.tool, c.hash)
                        /\ d \in Create /\ Working(d) /\ Become(p, d)
                        /\ UNCHANGED <<store, machine>>
<1> DEFINE c == create[p]
<1> DEFINE r == Resolution(c.image, c.tool, c.hash, c.rebuild)
<1> DEFINE d == [c EXCEPT !.pc = "confirm", !.image = r.ref, !.state = r.state,
                          !.compatible = r.compatible]
<1>1. c \in Create /\ Working(c) /\ c.pc = "resolve"
  BY ActiveWorks DEF Resolve, On, Active
<1>2. c.rebuild \in BOOLEAN /\ c.image \in Tags \cup {Raw}
  BY <1>1 DEF Create
<1>3. Leads(r, c.image, c.tool, c.hash)
  BY <1>1, <1>2, ResolutionLeads DEF Working
<1>4. Become(p, d) /\ UNCHANGED <<store, machine>>
  BY Zenon DEF Resolve
<1> HIDE DEF r, c
<1>5. d \in Create /\ d.tool = c.tool /\ d.hash = c.hash
  BY <1>1, <1>3 DEF Leads, Create, CreateSteps
<1>6. QED
  BY <1>1, <1>3, <1>4, <1>5 DEF Working, c

\* The confirmation records the answer or ends the create.
LEMMA ConfirmStep ==
  ASSUME ImageTypeOK, NEW p \in Creates, ConfirmSecrets(p)
  PROVE  LET c == create[p]
         IN  /\ c \in Create /\ Working(c) /\ c.pc = "confirm" /\ UNCHANGED <<store, machine>>
             /\ \/ \E s \in BOOLEAN : LET d == [c EXCEPT !.pc = "create", !.secrets = s]
                                      IN  d \in Create /\ Working(d) /\ Become(p, d)
                \/ Become(p, Failed)
<1> DEFINE c == create[p]
<1>1. c \in Create /\ Working(c) /\ c.pc = "confirm"
  BY ActiveWorks DEF ConfirmSecrets, On, Active
<1>2. ASSUME NEW s \in BOOLEAN
      PROVE  [c EXCEPT !.pc = "create", !.secrets = s] \in Create /\ Working([c EXCEPT !.pc = "create", !.secrets = s])
  BY <1>1 DEF Create, CreateSteps, Working
<1>3. (\E s \in BOOLEAN : Become(p, [c EXCEPT !.pc = "create", !.secrets = s])) \/ Become(p, Failed)
  BY DEF ConfirmSecrets
<1>4. UNCHANGED <<store, machine>>
  BY DEF ConfirmSecrets
<1>5. QED
  BY <1>1, <1>2, <1>3, <1>4

\* The container is created from what the tag names now, if it names anything.
LEMMA StartStep ==
  ASSUME ImageTypeOK, NEW p \in Creates, StartContainer(p)
  PROVE  LET c == create[p]
         IN  /\ c \in Create /\ Working(c) /\ c.pc = "create" /\ UNCHANGED <<store, machine>>
             /\ \/ /\ Exists(c.image)
                   /\ \E auth \in Methods \ {"file_copy"} :
                         LET d == [c EXCEPT !.pc = "inject", !.box = At(c.image), !.auth = auth]
                         IN  d \in Create /\ Working(d) /\ Become(p, d)
                \/ ~Exists(c.image) /\ Become(p, Failed)
<1> DEFINE c == create[p]
<1>1. c \in Create /\ Working(c) /\ c.pc = "create"
  BY ActiveWorks DEF StartContainer, On, Active
<1>2. PICK auth \in {"none", Method[c.tool]} \ {"file_copy"} :
          Become(p, IF Exists(c.image) THEN [c EXCEPT !.pc = "inject", !.box = At(c.image), !.auth = auth]
                    ELSE Failed)
  BY DEF StartContainer
<1>3. auth \in Methods \ {"file_copy"}
  BY <1>1, ImageAssumption DEF Working, Methods
<1>4. UNCHANGED <<store, machine>>
  BY DEF StartContainer
<1>5. ASSUME Exists(c.image)
      PROVE  LET d == [c EXCEPT !.pc = "inject", !.box = At(c.image), !.auth = auth]
             IN  d \in Create /\ Working(d)
  <2>1. At(c.image) \in Image
    BY <1>1, <1>5, AtType DEF Create
  <2> DEFINE box == At(c.image)
  <2> HIDE DEF box
  <2>2. box \in Image => [c EXCEPT !.pc = "inject", !.box = box, !.auth = auth] \in Create
                            /\ Working([c EXCEPT !.pc = "inject", !.box = box, !.auth = auth])
    BY <1>1, <1>3 DEF Create, CreateSteps, Working
  <2>3. QED
    BY <2>1, <2>2 DEF box
<1>6. QED
  BY <1>1, <1>2, <1>3, <1>4, <1>5

\* The credentials are left out, copied or lost.
LEMMA InjectStep ==
  ASSUME ImageTypeOK, NEW p \in Creates, InjectAuthentication(p)
  PROVE  LET c    == create[p]
             next == [c EXCEPT !.pc = "upgrade", !.auth = ResultOf(c)]
             done == [next EXCEPT !.box.credentials = @ \cup {c.tool}, !.copies = "done"]
             lost == [next EXCEPT !.copies = "failed"]
         IN  /\ c \in Create /\ Working(c) /\ c.pc = "inject" /\ UNCHANGED <<store, machine>>
             /\ \/ /\ Method[c.tool] # "file_copy" \/ SkipsInjection(c)
                   /\ next \in Create /\ Working(next) /\ Become(p, next)
                \/ /\ Method[c.tool] = "file_copy" /\ ~SkipsInjection(c)
                   /\ \/ done \in Create /\ Working(done) /\ Become(p, done)
                      \/ lost \in Create /\ Working(lost) /\ Become(p, lost)
<1> DEFINE c == create[p]
<1> DEFINE next == [c EXCEPT !.pc = "upgrade", !.auth = ResultOf(c)]
<1> DEFINE done == [next EXCEPT !.box.credentials = @ \cup {c.tool}, !.copies = "done"]
<1> DEFINE lost == [next EXCEPT !.copies = "failed"]
<1>1. c \in Create /\ Working(c) /\ c.pc = "inject"
  BY ActiveWorks DEF InjectAuthentication, On, Active
<1>2. ResultOf(c) \in Methods
  BY <1>1 DEF ResultOf, Create, Methods
<1>3. next \in Create /\ Working(next)
  BY <1>1, <1>2 DEF Create, CreateSteps, Working
<1>4. lost \in Create /\ Working(lost)
  BY <1>3 DEF Create, CreateSteps, Working
<1>5. done \in Create /\ Working(done)
  <2>1. next.box \in Image /\ next.box.credentials \cup {c.tool} \in SUBSET Tools
    BY <1>1, <1>3 DEF Create, Image, Working
  <2>2. [next.box EXCEPT !.credentials = @ \cup {c.tool}] \in Image
    BY <2>1 DEF Image
  <2> HIDE DEF next
  <2>3. done = [next EXCEPT !.box = [next.box EXCEPT !.credentials = @ \cup {c.tool}], !.copies = "done"]
    BY <1>3 DEF Create
  <2>4. QED
    BY <1>3, <2>2, <2>3 DEF Create, Working
<1>6. /\ UNCHANGED <<store, machine>>
      /\ \/ (Method[c.tool] # "file_copy" \/ SkipsInjection(c)) /\ Become(p, next)
         \/ /\ Method[c.tool] = "file_copy" /\ ~SkipsInjection(c)
            /\ Become(p, done) \/ Become(p, lost)
  BY Zenon DEF InjectAuthentication
<1> HIDE DEF next, done, lost
<1>7. QED
  BY <1>1, <1>3, <1>4, <1>5, <1>6 DEF next, done, lost

\* Only a container whose image had no label is committed to the base.
LEMMA UpgradeStep ==
  ASSUME ImageTypeOK, NEW p \in Creates, UpgradeBase(p)
  PROVE  LET c    == create[p]
             next == [c EXCEPT !.pc = "commit", !.image = IF c.compatible THEN @ ELSE Base]
             base == [c.box EXCEPT !.compatible = TRUE]
         IN  /\ c \in Create /\ Working(c) /\ c.pc = "upgrade" /\ UNCHANGED machine
             /\ next \in Create /\ Working(next) /\ base \in Image
             /\ Become(p, next) \/ Become(p, Failed)
             /\ \/ UNCHANGED store
                \/ ~c.compatible /\ store' = [store EXCEPT ![Base] = base]
<1> DEFINE c == create[p]
<1> DEFINE next == [c EXCEPT !.pc = "commit", !.image = IF c.compatible THEN @ ELSE Base]
<1> DEFINE base == [c.box EXCEPT !.compatible = TRUE]
<1>1. c \in Create /\ Working(c) /\ c.pc = "upgrade"
  BY ActiveWorks DEF UpgradeBase, On, Active
<1>2. next \in Create /\ Working(next)
  BY <1>1, TagFacts DEF Create, CreateSteps, Working
<1>3. base \in Image
  BY <1>1 DEF Create, Image
<1>4. UNCHANGED machine
  BY DEF UpgradeBase
<1>5. CASE ~c.compatible /\ (~Exists(Base) \/ c.rebuild)
  <2>1. CommitTo(p, Base, base, next)
    BY <1>5 DEF UpgradeBase
  <2> HIDE DEF next, base
  <2>2. /\ Become(p, next) \/ Become(p, Failed)
        /\ UNCHANGED store \/ store' = [store EXCEPT ![Base] = base]
    BY <2>1 DEF CommitTo
  <2>3. QED
    BY <1>1, <1>2, <1>3, <1>4, <1>5, <2>2 DEF next, base
<1>6. CASE ~(~c.compatible /\ (~Exists(Base) \/ c.rebuild))
  <2>1. (Become(p, next) \/ Become(p, Failed)) /\ UNCHANGED store
    BY <1>6 DEF UpgradeBase
  <2> HIDE DEF next, base
  <2>2. QED
    BY <1>1, <1>2, <1>3, <1>4, <2>1 DEF next, base
<1>7. QED
  BY <1>5, <1>6

\* A commit happens only when there is something new, and then to the create's own tag.
LEMMA CommitStep ==
  ASSUME ImageTypeOK, NEW p \in Creates, CommitTool(p)
  PROVE  LET c    == create[p]
             next == [c EXCEPT !.pc = "ended", !.image = IF NothingNew(c) THEN @ ELSE TargetTag(c)]
         IN  /\ c \in Create /\ Working(c) /\ c.pc = "commit" /\ UNCHANGED machine
             /\ next \in Create /\ TargetTag(c) \in Tags
             /\ \/ (NothingNew(c) \/ HasLabel(c)) /\ Become(p, next) /\ UNCHANGED store
                \/ /\ ~NothingNew(c) /\ store' = [store EXCEPT ![TargetTag(c)] = Committed(c)]
                   /\ Become(p, next) \/ Become(p, Failed)
                \/ UNCHANGED store /\ Become(p, Failed)
<1> DEFINE c == create[p]
<1> DEFINE next == [c EXCEPT !.pc = "ended", !.image = IF NothingNew(c) THEN @ ELSE TargetTag(c)]
<1>1. c \in Create /\ Working(c) /\ c.pc = "commit"
  BY ActiveWorks DEF CommitTool, On, Active
<1>2. TargetTag(c) \in Tags
  BY <1>1, TargetType DEF Working
<1>3. next \in Create
  BY <1>1, <1>2 DEF Create, CreateSteps
<1>4. UNCHANGED machine
  BY DEF CommitTool
<1>5. CASE NothingNew(c) \/ HasLabel(c)
  BY <1>1, <1>2, <1>3, <1>4, <1>5 DEF CommitTool
<1>6. CASE ~(NothingNew(c) \/ HasLabel(c))
  <2>1. CommitTo(p, TargetTag(c), Committed(c), next)
    BY <1>6 DEF CommitTool
  <2> HIDE DEF next
  <2>2. \/ /\ store' = [store EXCEPT ![TargetTag(c)] = Committed(c)]
           /\ Become(p, next) \/ Become(p, Failed)
        \/ UNCHANGED store /\ Become(p, Failed)
    BY <2>1 DEF CommitTo
  <2>3. QED
    BY <1>1, <1>2, <1>3, <1>4, <1>6, <2>2 DEF next
<1>7. QED
  BY <1>5, <1>6

\* Every action of a create keeps the types.
LEMMA StepType ==
  ASSUME ImageTypeOK, NEW p \in Creates, Step(p)
  PROVE  ImageTypeOK'
<1>1. /\ store \in [Tags -> Image \cup {None}] /\ raced \in BOOLEAN /\ Base \in Tags
      /\ Failed \in Create /\ Failed.pc = "failed"
  BY TagFacts, NewType DEF ImageTypeOK
<1>2. ASSUME Become(p, Failed), UNCHANGED <<store, machine>> PROVE ImageTypeOK'
  BY <1>1, <1>2, BecomeType DEF machine
<1>3. CASE Begin(p)
  <2>1. PICK c \in Create :
            /\ Become(p, c) /\ Working(c) /\ UNCHANGED <<store, declared, events>>
            /\ raced' = (raced \/ \E q \in Creates : Active(q))
    BY <1>3, BeginStep
  <2>2. raced' \in BOOLEAN
    BY <1>1, <2>1
  <2>3. QED
    BY <1>1, <2>1, <2>2, BecomeType
<1>4. CASE FindDefault(p)
  BY <1>1, <1>4, FindDefaultStep, BecomeType DEF machine
<1>5. CASE BuildDefault(p)
  <2> DEFINE d == [create[p] EXCEPT !.pc = "resolve", !.image = Base]
  <2>1. UNCHANGED machine
    BY <1>5, BuildDefaultStep
  <2>2. ASSUME NEW image \in Image, store' = [store EXCEPT ![Base] = image],
               d \in Create, Working(d), Become(p, d)
        PROVE  ImageTypeOK'
    <3>1. store' \in [Tags -> Image \cup {None}]
      BY <1>1, <2>2, WriteType
    <3> HIDE DEF d
    <3>2. QED
      BY <1>1, <2>1, <2>2, <3>1, BecomeType DEF machine
  <2>3. QED
    BY <1>2, <1>5, <2>1, <2>2, BuildDefaultStep
<1>6. CASE Resolve(p)
  BY <1>1, <1>6, ResolveStep, BecomeType DEF machine
<1>7. CASE ConfirmSecrets(p)
  BY <1>1, <1>2, <1>7, ConfirmStep, BecomeType DEF machine
<1>8. CASE StartContainer(p)
  BY <1>1, <1>2, <1>8, StartStep, BecomeType DEF machine
<1>9. CASE InjectAuthentication(p)
  BY <1>1, <1>9, InjectStep, BecomeType DEF machine
<1>10. CASE UpgradeBase(p)
  <2>1. store' \in [Tags -> Image \cup {None}]
    BY <1>1, <1>10, UpgradeStep, WriteType
  <2>2. QED
    BY <1>1, <1>10, <2>1, UpgradeStep, BecomeType DEF machine
<1>11. CASE CommitTool(p)
  <2> DEFINE c == create[p]
  <2> DEFINE next == [c EXCEPT !.pc = "ended", !.image = IF NothingNew(c) THEN @ ELSE TargetTag(c)]
  <2>1. /\ c \in Create /\ Working(c) /\ UNCHANGED machine /\ next \in Create /\ TargetTag(c) \in Tags
        /\ Become(p, next) \/ Become(p, Failed)
        /\ UNCHANGED store \/ store' = [store EXCEPT ![TargetTag(c)] = Committed(c)]
    BY <1>11, CommitStep
  <2>2. Committed(c) \in Image /\ next.pc = "ended"
    BY <2>1, CommittedType DEF Working, Create
  <2>3. store' \in [Tags -> Image \cup {None}]
    BY <1>1, <2>1, <2>2, WriteType
  <2> HIDE DEF next
  <2>4. QED
    BY <1>1, <2>1, <2>2, <2>3, BecomeType DEF machine
<1>12. CASE Interrupt(p)
  BY <1>2, <1>12 DEF Interrupt
<1>13. QED
  BY <1>3, <1>4, <1>5, <1>6, <1>7, <1>8, <1>9, <1>10, <1>11, <1>12 DEF Step

\* Every step, of a create or of the user, keeps the types.
LEMMA ImageTypeStep == ImageTypeOK /\ [ImageNext]_image_vars => ImageTypeOK'
<1> SUFFICES ASSUME ImageTypeOK, [ImageNext]_image_vars PROVE ImageTypeOK'
  OBVIOUS
<1>1. ASSUME NEW p \in Creates, Step(p) PROVE ImageTypeOK'
  BY <1>1, StepType
<1>2. ASSUME NEW t \in Configured, NEW h \in Manifests, Edit(t, h) PROVE ImageTypeOK'
  <2>1. declared' \in [Configured -> Manifests] /\ UNCHANGED <<store, create, raced>>
    BY <1>2 DEF Edit, ImageTypeOK
  <2>2. events' \in 0..MaxEvents
    BY <1>2, ImageAssumption DEF Edit, Event, ImageTypeOK
  <2>3. QED
    BY <2>1, <2>2 DEF ImageTypeOK, Active
<1>3. ASSUME NEW tag \in Tags, Remove(tag) PROVE ImageTypeOK'
  <2>1. store' \in [Tags -> Image \cup {None}] /\ UNCHANGED <<declared, create>> /\ raced' = TRUE
    BY <1>3 DEF Remove, ImageTypeOK
  <2>2. events' \in 0..MaxEvents
    BY <1>3, ImageAssumption DEF Remove, Event, ImageTypeOK
  <2>3. QED
    BY <2>1, <2>2 DEF ImageTypeOK, Active
<1>4. CASE UNCHANGED image_vars
  BY <1>4 DEF image_vars, ImageTypeOK, Active
<1>5. QED
  BY <1>1, <1>2, <1>3, <1>4 DEF ImageNext

\* The tags an earlier version may have left behind.
LEMMA InitialImages ==
  ASSUME ImageInit
  PROVE  /\ store \in [Tags -> Image \cup {None}]
         /\ \A tag \in Tags : store[tag] # None =>
               \E t \in Tools : /\ t \notin Configured /\ tag = AuthTag(t, None) /\ store[tag] = Orphan(t)
                                /\ store[tag].tools = {}
                                /\ \A u \in Tools : store[tag].state[u] = IF u = t THEN "installed" ELSE "absent"
<1>1. PICK old \in SUBSET {AuthTag(t, None) : t \in Tools \ Configured} :
          store = [tag \in Tags |-> IF tag \in old THEN Orphan(tag[2]) ELSE None]
  BY DEF ImageInit
<1>2. ASSUME NEW t \in Tools
      PROVE  /\ Orphan(t) \in Image /\ Orphan(t).tools = {}
             /\ \A u \in Tools : Orphan(t).state[u] = IF u = t THEN "installed" ELSE "absent"
  <2>1. Plain({t}) \in Image
    BY PlainType
  <2>2. QED
    BY <2>1 DEF Orphan, Plain, Image, States
<1>3. ASSUME NEW tag \in Tags, tag \in old
      PROVE  \E t \in Tools : t \notin Configured /\ tag = AuthTag(t, None) /\ store[tag] = Orphan(t)
  BY <1>1, <1>3, TagFacts
<1>4. ASSUME NEW tag \in Tags, tag \notin old
      PROVE  store[tag] = None
  BY <1>1, <1>4
<1>5. store \in [Tags -> Image \cup {None}]
  <2>1. \A tag \in Tags : store[tag] \in Image \cup {None}
    BY <1>2, <1>3, <1>4
  <2>2. QED
    BY <1>1, <2>1
<1>6. QED
  BY <1>2, <1>3, <1>4, <1>5

\* The initial images and creates are well formed.
LEMMA ImageTypeInit == ImageInit => ImageTypeOK
<1> SUFFICES ASSUME ImageInit PROVE ImageTypeOK
  OBVIOUS
<1>1. create \in [Creates -> Create] /\ \A p \in Creates : ~Active(p)
  BY NewType DEF ImageInit, Active
<1>2. 0 \in 0..MaxEvents
  BY ImageAssumption
<1>3. QED
  BY <1>1, <1>2, InitialImages DEF ImageInit, ImageTypeOK

\* The variables of the image tier keep their types.
THEOREM ImageTypeCorrect == ImageSpec => []ImageTypeOK
BY ImageTypeInit, ImageTypeStep, PTL DEF ImageSpec

-----------------------------------------------------------------------------
Resolved == {"confirm", "create", "inject", "upgrade", "commit"}
Has(image, t) == t \in image.credentials \cup image.unearned

\* The base and the user's own image: no label of credentials, and a tool that the labels list
\* has one of its own.
BaseLike(image) ==
    \A t \in Tools : ~Attempted(image.state[t]) /\ (t \in image.tools => image.state[t] # "absent")

LabelInv ==
    /\ store[Base] # None => BaseLike(store[Base])
    /\ \A t \in Tools : \A h \in HashesOf(t) :
          store[InstalledTag(t, h)] # None => store[InstalledTag(t, h)].state[t] = "installed"

\* Where a create stands tells which image it goes from.
PathOf(c) ==
    /\ c.pc \in {"default", "resolve"} => c.image \in {Raw, Base}
    /\ c.pc \in Resolved /\ Attempted(c.state) => c.image = AuthTag(c.tool, c.hash) /\ c.compatible
    /\ c.pc \in Resolved /\ c.state = "installed" => c.image \in {Base, InstalledTag(c.tool, c.hash)}
    /\ c.pc \in {"confirm", "create", "inject", "upgrade"} /\ ~c.compatible => c.image \in {Raw, Base}
    /\ c.pc \in {"confirm", "create", "inject", "upgrade"} /\ c.compatible => c.image # Raw
    /\ c.pc \in {"inject", "upgrade"} /\ ~c.compatible => BaseLike(c.box)
    /\ c.pc = "commit" => c.image # Raw

PathInv == \A p \in Creates : PathOf(create[p])

\* What became of the credentials.
CopiesOf(c) ==
    /\ c.pc \in {"default", "resolve", "confirm", "create", "inject"} => c.copies = "none"
    /\ c.pc = "inject" => c.auth # "file_copy"
    /\ c.pc \in {"upgrade", "commit"} =>
          /\ c.copies = "done" => c.tool \in c.box.credentials
          /\ c.auth = "file_copy" /\ ~c.secrets => Method[c.tool] = "file_copy"
          /\ Method[c.tool] = "file_copy" => c.auth = "file_copy" /\ (Attempted(c.state) \/ c.copies # "none")

CopiesInv == \A p \in Creates : CopiesOf(create[p])

\* A base-like image may be written to the base.
LEMMA LabelsOfBase ==
  ASSUME ImageTypeOK, LabelInv, NEW image \in Image, BaseLike(image),
         store' = [store EXCEPT ![Base] = image]
  PROVE  LabelInv'
<1>1. store'[Base] = image /\ \A tag \in Tags : tag # Base => store'[tag] = store[tag]
  BY TagFacts, WriteType
<1>2. \A t \in Tools : \A h \in HashesOf(t) :
          InstalledTag(t, h) \in Tags /\ InstalledTag(t, h) # Base
  BY TagFacts, TagsOfTool
<1>3. QED
  BY <1>1, <1>2 DEF LabelInv

\* A commit writes the label of the form of its tag.
LEMMA LabelsOfCommit ==
  ASSUME ImageTypeOK, LabelInv, NEW c \in Create, Working(c),
         store' = [store EXCEPT ![TargetTag(c)] = Committed(c)]
  PROVE  LabelInv'
<1>1. /\ Committed(c) \in Image /\ TargetTag(c) \in Tags
      /\ Committed(c).state = [c.box.state EXCEPT ![c.tool] = LabelOf(c.auth)]
  BY CommittedType, TargetType DEF Working
<1>2. /\ store'[TargetTag(c)] = Committed(c)
      /\ \A tag \in Tags : tag # TargetTag(c) => store'[tag] = store[tag]
  BY <1>1, WriteType
<1>3. TargetTag(c) # Base
  BY TagFacts DEF TargetTag
<1>4. store'[Base] = store[Base]
  BY <1>2, <1>3, TagFacts
<1>5. ASSUME NEW t \in Tools, NEW h \in HashesOf(t), store'[InstalledTag(t, h)] # None
      PROVE  store'[InstalledTag(t, h)].state[t] = "installed"
  <2>1. InstalledTag(t, h) \in Tags
    BY TagsOfTool
  <2>2. CASE InstalledTag(t, h) = TargetTag(c)
    <3>1. c.auth = "none" /\ c.tool = t
      BY <2>2, TagFacts DEF TargetTag
    <3>2. c.box.state \in [Tools -> States]
      BY DEF Create, Image
    <3>3. Committed(c).state[t] = "installed"
      BY <1>1, <3>1, <3>2 DEF LabelOf
    <3>4. QED
      BY <1>2, <2>2, <3>3
  <2>3. CASE InstalledTag(t, h) # TargetTag(c)
    BY <1>2, <1>5, <2>1, <2>3 DEF LabelInv
  <2>4. QED
    BY <2>2, <2>3
<1>6. QED
  BY <1>4, <1>5 DEF LabelInv

\* What the image a create starts from can be labelled with.
LEMMA LabelsSeen ==
  ASSUME ImageTypeOK, LabelInv, NEW ref \in {Raw, Base}
  PROVE  /\ Exists(ref) => BaseLike(At(ref))
         /\ \A t \in Tools : ~Attempted(ToolState(ref, t))
         /\ \A t \in Tools : ToolState(Raw, t) = "absent"
         /\ ~Compatible(Raw)
<1>1. At(Raw) = Plain(Shipped) /\ Exists(Raw) /\ Shipped \in SUBSET Tools
  BY ImageAssumption DEF At, Exists
<1>2. /\ BaseLike(Plain(Shipped)) /\ \A t \in Tools : Plain(Shipped).state[t] = "absent"
      /\ Plain(Shipped).compatible = FALSE
  BY <1>1, PlainType DEF BaseLike, Attempted, Plain
<1>3. Exists(Base) => At(Base) = store[Base] /\ store[Base] # None
  BY TagFacts DEF Exists, At
<1>4. Exists(ref) => BaseLike(At(ref))
  BY <1>1, <1>2, <1>3 DEF LabelInv
<1>5. \A t \in Tools : ToolState(Raw, t) = "absent"
  BY <1>1, <1>2 DEF ToolState
<1>6. \A t \in Tools : ~Attempted(ToolState(ref, t))
  BY <1>4 DEF ToolState, BaseLike, Attempted
<1>7. ~Compatible(Raw)
  BY <1>1, <1>2 DEF Compatible
<1>8. QED
  BY <1>4, <1>5, <1>6, <1>7

\* Every step of a create keeps the labels' and the creates' forms.
LEMMA PathStep ==
  ASSUME ImageTypeOK, LabelInv, PathInv, NEW p \in Creates, Step(p)
  PROVE  LabelInv' /\ PathInv'
<1> DEFINE c == create[p]
<1>1. PathOf(c)
  BY DEF PathInv
<1>2. ASSUME NEW d, Become(p, d), PathOf(d) PROVE PathInv'
  <2>1. \A q \in Creates : PathOf(create'[q])
    BY <1>2, BecomeOne DEF PathInv
  <2>2. QED
    BY <2>1 DEF PathInv, PathOf
<1>3. UNCHANGED store => LabelInv'
  BY DEF LabelInv
<1>4. PathOf(Failed)
  BY NewType DEF PathOf, Resolved
<1>5. CASE Begin(p)
  <2>1. PICK d \in Create : Become(p, d) /\ d.pc \in {"default", "resolve"} /\ d.image = Raw /\ UNCHANGED store
    BY <1>5, BeginStep
  <2>2. PathOf(d)
    BY <2>1 DEF PathOf, Resolved
  <2>3. QED
    BY <1>2, <1>3, <2>1, <2>2
<1>6. CASE FindDefault(p)
  <2> DEFINE d == [c EXCEPT !.pc = "resolve", !.image = Base, !.found = TRUE]
  <2>1. c \in Create /\ Become(p, d) /\ UNCHANGED store
    BY <1>6, FindDefaultStep
  <2>2. PathOf(d)
    BY <2>1 DEF PathOf, Resolved, Create
  <2> HIDE DEF d
  <2>3. QED
    BY <1>2, <1>3, <2>1, <2>2
<1>7. CASE BuildDefault(p)
  <2> DEFINE d == [c EXCEPT !.pc = "resolve", !.image = Base]
  <2>1. /\ c \in Create /\ Working(c)
        /\ \/ /\ Become(p, d)
              /\ \E fit \in BOOLEAN :
                    /\ BuiltImage(c.tool, c.hash, c.wants, fit) \in Image
                    /\ store' = [store EXCEPT ![Base] = BuiltImage(c.tool, c.hash, c.wants, fit)]
           \/ Become(p, Failed) /\ UNCHANGED store
    BY <1>7, BuildDefaultStep
  <2>2. PathOf(d)
    BY <2>1 DEF PathOf, Resolved, Create
  <2>3. ASSUME NEW fit \in BOOLEAN PROVE BaseLike(BuiltImage(c.tool, c.hash, c.wants, fit))
    <3>1. c.tool \in Tools /\ c.wants \in BOOLEAN /\ c.hash \in Manifests \cup {None}
      BY <2>1 DEF Working, Create
    <3> DEFINE image == BuiltImage(c.tool, c.hash, c.wants, fit)
    <3>2. /\ image.tools = {c.tool}
          /\ \A u \in Tools : image.state[u] = IF u = c.tool THEN "installed" ELSE "absent"
      BY <3>1, BuiltType
    <3> HIDE DEF image
    <3>3. BaseLike(image)
      BY <3>2 DEF BaseLike, Attempted
    <3>4. QED
      BY <3>3 DEF image
  <2> HIDE DEF d
  <2>4. QED
    BY <1>2, <1>3, <1>4, <2>1, <2>2, <2>3, LabelsOfBase
<1>8. CASE Resolve(p)
  <2>1. PICK r : LET d == [c EXCEPT !.pc = "confirm", !.image = r.ref, !.state = r.state,
                                    !.compatible = r.compatible]
                 IN  /\ c \in Create /\ Working(c) /\ c.pc = "resolve"
                     /\ Leads(r, c.image, c.tool, c.hash)
                     /\ Become(p, d) /\ UNCHANGED store
    BY <1>8, ResolveStep
  <2> DEFINE d == [c EXCEPT !.pc = "confirm", !.image = r.ref, !.state = r.state,
                            !.compatible = r.compatible]
  <2>2. /\ d.pc = "confirm" /\ d.image = r.ref /\ d.state = r.state /\ d.compatible = r.compatible
        /\ d.tool = c.tool /\ d.hash = c.hash
    BY <2>1 DEF Create
  <2>3. c.image \in {Raw, Base} /\ c.tool \in Tools
    BY <1>1, <2>1 DEF PathOf, Working
  <2>4. /\ ~Attempted(ToolState(c.image, c.tool)) /\ ~Attempted(ToolState(Base, c.tool))
        /\ ToolState(Raw, c.tool) = "absent" /\ ~Attempted("absent") /\ ~Attempted("installed")
    BY <2>3, LabelsSeen DEF Attempted
  <2> HIDE DEF d
  <2>5. Attempted(d.state) => d.image = AuthTag(d.tool, d.hash) /\ d.compatible
    BY <2>1, <2>2, <2>3, <2>4 DEF Leads
  <2>6. d.state = "installed" => d.image \in {Base, InstalledTag(d.tool, d.hash)}
    BY <2>1, <2>2, <2>3, <2>4 DEF Leads
  <2>7. ~d.compatible => d.image \in {Raw, Base}
    BY <2>1, <2>2, <2>3 DEF Leads
  <2>8. d.compatible => d.image # Raw
    <3>1. ~Compatible(Raw) /\ \A t, h : AuthTag(t, h) # Raw /\ InstalledTag(t, h) # Raw
      BY LabelsSeen, TagFacts
    <3>2. QED
      BY <2>1, <2>2, <2>3, <2>4, <3>1 DEF Leads
  <2>9. PathOf(d)
    BY <2>2, <2>5, <2>6, <2>7, <2>8 DEF PathOf
  <2>10. Become(p, d) /\ UNCHANGED store
    BY <2>1 DEF d
  <2>11. QED
    BY <1>2, <1>3, <2>9, <2>10
<1>9. CASE ConfirmSecrets(p)
  <2>1. /\ c \in Create /\ c.pc = "confirm" /\ UNCHANGED store
        /\ \/ \E s \in BOOLEAN : Become(p, [c EXCEPT !.pc = "create", !.secrets = s])
           \/ Become(p, Failed)
    BY <1>9, ConfirmStep
  <2>2. \A s \in BOOLEAN : PathOf([c EXCEPT !.pc = "create", !.secrets = s])
    BY <1>1, <2>1 DEF PathOf, Resolved, Create
  <2>3. QED
    BY <1>2, <1>3, <1>4, <2>1, <2>2
<1>10. CASE StartContainer(p)
  <2>1. c \in Create /\ c.pc = "create" /\ UNCHANGED store
    BY <1>10, StartStep
  <2>2. ASSUME NEW auth \in Methods, Exists(c.image),
               Become(p, [c EXCEPT !.pc = "inject", !.box = At(c.image), !.auth = auth])
        PROVE  PathInv'
    <3> DEFINE d == [c EXCEPT !.pc = "inject", !.box = At(c.image), !.auth = auth]
    <3>1. ~c.compatible => BaseLike(At(c.image))
      BY <1>1, <2>1, <2>2, LabelsSeen DEF PathOf
    <3>2. /\ d.pc = "inject" /\ d.image = c.image /\ d.state = c.state /\ d.compatible = c.compatible
          /\ d.tool = c.tool /\ d.hash = c.hash /\ d.box = At(c.image)
      BY <2>1 DEF Create
    <3> HIDE DEF d
    <3>3. PathOf(d)
      BY <1>1, <2>1, <3>1, <3>2 DEF PathOf, Resolved
    <3>4. QED
      BY <1>2, <2>2, <3>3 DEF d
  <2>3. QED
    BY <1>2, <1>3, <1>4, <1>10, <2>1, <2>2, StartStep
<1>11. CASE InjectAuthentication(p)
  <2> DEFINE next == [c EXCEPT !.pc = "upgrade", !.auth = ResultOf(c)]
  <2> DEFINE done == [next EXCEPT !.box.credentials = @ \cup {c.tool}, !.copies = "done"]
  <2> DEFINE lost == [next EXCEPT !.copies = "failed"]
  <2>1. /\ c \in Create /\ c.pc = "inject" /\ UNCHANGED store
        /\ Become(p, next) \/ Become(p, done) \/ Become(p, lost)
    BY <1>11, InjectStep
  <2>2. PathOf(next) /\ PathOf(lost)
    BY <1>1, <2>1 DEF PathOf, Resolved, Create
  <2>3. done.box.state = c.box.state /\ done.box.tools = c.box.tools
    BY <2>1 DEF Create, Image
  <2>4. BaseLike(c.box) => BaseLike(done.box)
    BY <2>3 DEF BaseLike
  <2>5. /\ done.pc = "upgrade" /\ done.image = c.image /\ done.state = c.state
        /\ done.compatible = c.compatible /\ done.tool = c.tool /\ done.hash = c.hash
    BY <2>1 DEF Create
  <2> HIDE DEF next, done, lost
  <2>6. PathOf(done)
    BY <1>1, <2>1, <2>4, <2>5 DEF PathOf, Resolved
  <2>7. QED
    BY <1>2, <1>3, <2>1, <2>2, <2>6
<1>12. CASE UpgradeBase(p)
  <2> DEFINE next == [c EXCEPT !.pc = "commit", !.image = IF c.compatible THEN @ ELSE Base]
  <2> DEFINE base == [c.box EXCEPT !.compatible = TRUE]
  <2>1. /\ c \in Create /\ c.pc = "upgrade" /\ base \in Image
        /\ Become(p, next) \/ Become(p, Failed)
        /\ \/ UNCHANGED store
           \/ ~c.compatible /\ store' = [store EXCEPT ![Base] = base]
    BY <1>12, UpgradeStep
  <2>2. ~c.compatible => BaseLike(base)
    <3>1. base.state = c.box.state /\ base.tools = c.box.tools
      BY <2>1 DEF Create, Image
    <3>2. QED
      BY <1>1, <2>1, <3>1 DEF PathOf, BaseLike
  <2>3. /\ next.pc = "commit" /\ next.image = (IF c.compatible THEN c.image ELSE Base)
        /\ next.state = c.state /\ next.compatible = c.compatible
        /\ next.tool = c.tool /\ next.hash = c.hash
    BY <2>1 DEF Create
  <2> HIDE DEF next, base
  <2>4. next.image # Raw
    BY <1>1, <2>1, <2>3, TagFacts DEF PathOf, Resolved
  <2>5. PathOf(next)
    BY <1>1, <2>1, <2>3, <2>4 DEF PathOf, Resolved
  <2>6. QED
    BY <1>2, <1>3, <1>4, <2>1, <2>2, <2>5, LabelsOfBase
<1>13. CASE CommitTool(p)
  <2> DEFINE next == [c EXCEPT !.pc = "ended", !.image = IF NothingNew(c) THEN @ ELSE TargetTag(c)]
  <2>1. /\ c \in Create /\ Working(c)
        /\ Become(p, next) \/ Become(p, Failed)
        /\ UNCHANGED store \/ store' = [store EXCEPT ![TargetTag(c)] = Committed(c)]
    BY <1>13, CommitStep
  <2>2. PathOf(next)
    BY <2>1 DEF PathOf, Resolved, Create
  <2> HIDE DEF next
  <2>3. QED
    BY <1>2, <1>3, <1>4, <2>1, <2>2, LabelsOfCommit
<1>14. CASE Interrupt(p)
  BY <1>2, <1>3, <1>4, <1>14 DEF Interrupt
<1>15. QED
  BY <1>5, <1>6, <1>7, <1>8, <1>9, <1>10, <1>11, <1>12, <1>13, <1>14 DEF Step

\* Every step keeps what is known of the credentials.
LEMMA CopiesStep ==
  ASSUME ImageTypeOK, CopiesInv, NEW p \in Creates, Step(p)
  PROVE  CopiesInv'
<1> DEFINE c == create[p]
<1>1. CopiesOf(c)
  BY DEF CopiesInv
<1>2. ASSUME NEW d, Become(p, d), CopiesOf(d) PROVE CopiesInv'
  <2>1. \A q \in Creates : CopiesOf(create'[q])
    BY <1>2, BecomeOne DEF CopiesInv
  <2>2. QED
    BY <2>1 DEF CopiesInv, CopiesOf
<1>3. CopiesOf(Failed)
  BY NewType DEF CopiesOf
<1>4. CASE Begin(p)
  <2>1. PICK d \in Create : Become(p, d) /\ d.pc \in {"default", "resolve"} /\ d.copies = "none"
    BY <1>4, BeginStep
  <2>2. CopiesOf(d)
    BY <2>1 DEF CopiesOf
  <2>3. QED
    BY <1>2, <2>1, <2>2
<1>5. CASE FindDefault(p)
  <2> DEFINE d == [c EXCEPT !.pc = "resolve", !.image = Base, !.found = TRUE]
  <2>1. c \in Create /\ c.pc = "default" /\ Become(p, d)
    BY <1>5, FindDefaultStep
  <2>2. CopiesOf(d)
    BY <1>1, <2>1 DEF CopiesOf, Create
  <2> HIDE DEF d
  <2>3. QED
    BY <1>2, <2>1, <2>2
<1>6. CASE BuildDefault(p)
  <2> DEFINE d == [c EXCEPT !.pc = "resolve", !.image = Base]
  <2>1. c \in Create /\ c.pc = "default" /\ (Become(p, d) \/ Become(p, Failed))
    BY <1>6, BuildDefaultStep
  <2>2. CopiesOf(d)
    BY <1>1, <2>1 DEF CopiesOf, Create
  <2> HIDE DEF d
  <2>3. QED
    BY <1>2, <1>3, <2>1, <2>2
<1>7. CASE Resolve(p)
  <2>1. PICK r : /\ c \in Create /\ c.pc = "resolve"
                 /\ Become(p, [c EXCEPT !.pc = "confirm", !.image = r.ref, !.state = r.state,
                                        !.compatible = r.compatible])
    BY <1>7, ResolveStep
  <2> DEFINE d == [c EXCEPT !.pc = "confirm", !.image = r.ref, !.state = r.state,
                            !.compatible = r.compatible]
  <2>2. CopiesOf(d)
    BY <1>1, <2>1 DEF CopiesOf, Create
  <2> HIDE DEF d
  <2>3. Become(p, d)
    BY <2>1 DEF d
  <2>4. QED
    BY <1>2, <2>2, <2>3
<1>8. CASE ConfirmSecrets(p)
  <2>1. /\ c \in Create /\ c.pc = "confirm"
        /\ \/ \E s \in BOOLEAN : Become(p, [c EXCEPT !.pc = "create", !.secrets = s])
           \/ Become(p, Failed)
    BY <1>8, ConfirmStep
  <2>2. \A s \in BOOLEAN : CopiesOf([c EXCEPT !.pc = "create", !.secrets = s])
    BY <1>1, <2>1 DEF CopiesOf, Create
  <2>3. QED
    BY <1>2, <1>3, <2>1, <2>2
<1>9. CASE StartContainer(p)
  <2>1. c \in Create /\ c.pc = "create"
    BY <1>9, StartStep
  <2>2. ASSUME NEW auth \in Methods \ {"file_copy"}, NEW box,
               Become(p, [c EXCEPT !.pc = "inject", !.box = box, !.auth = auth])
        PROVE  CopiesInv'
    <3> DEFINE d == [c EXCEPT !.pc = "inject", !.box = box, !.auth = auth]
    <3>1. d.pc = "inject" /\ d.copies = c.copies /\ d.auth = auth
      BY <2>1 DEF Create
    <3> HIDE DEF d
    <3>2. CopiesOf(d)
      BY <1>1, <2>1, <3>1 DEF CopiesOf
    <3>3. QED
      BY <1>2, <2>2, <3>2 DEF d
  <2>3. QED
    BY <1>2, <1>3, <1>9, <2>2, StartStep
<1>10. CASE InjectAuthentication(p)
  <2> DEFINE next == [c EXCEPT !.pc = "upgrade", !.auth = ResultOf(c)]
  <2> DEFINE done == [next EXCEPT !.box.credentials = @ \cup {c.tool}, !.copies = "done"]
  <2> DEFINE lost == [next EXCEPT !.copies = "failed"]
  <2>1. /\ c \in Create /\ c.pc = "inject"
        /\ \/ /\ Method[c.tool] # "file_copy" \/ SkipsInjection(c)
              /\ Become(p, next)
           \/ Become(p, done) \/ Become(p, lost)
    BY <1>10, InjectStep
  <2>2. /\ c.copies = "none"
        /\ ResultOf(c) = "file_copy" /\ ~c.secrets => Method[c.tool] = "file_copy"
        /\ Method[c.tool] = "file_copy" => ResultOf(c) = "file_copy"
    BY <1>1, <2>1 DEF CopiesOf, ResultOf
  <2>3. /\ next.pc = "upgrade" /\ next.auth = ResultOf(c) /\ next.copies = c.copies
        /\ next.state = c.state /\ next.tool = c.tool /\ next.secrets = c.secrets
    BY <2>1 DEF Create
  <2>4. /\ lost.pc = "upgrade" /\ lost.auth = ResultOf(c) /\ lost.copies = "failed"
        /\ lost.state = c.state /\ lost.tool = c.tool /\ lost.secrets = c.secrets
    BY <2>1 DEF Create
  <2>5. /\ done.pc = "upgrade" /\ done.auth = ResultOf(c) /\ done.copies = "done"
        /\ done.state = c.state /\ done.tool = c.tool /\ done.secrets = c.secrets
        /\ c.tool \in done.box.credentials
    BY <2>1 DEF Create, Image
  <2> HIDE DEF next, done, lost
  <2>6. Method[c.tool] # "file_copy" \/ SkipsInjection(c) => CopiesOf(next)
    BY <2>2, <2>3 DEF CopiesOf, SkipsInjection
  <2>7. CopiesOf(done) /\ CopiesOf(lost)
    BY <2>2, <2>4, <2>5 DEF CopiesOf
  <2>8. QED
    BY <1>2, <2>1, <2>6, <2>7
<1>11. CASE UpgradeBase(p)
  <2> DEFINE next == [c EXCEPT !.pc = "commit", !.image = IF c.compatible THEN @ ELSE Base]
  <2>1. c \in Create /\ c.pc = "upgrade" /\ (Become(p, next) \/ Become(p, Failed))
    BY <1>11, UpgradeStep
  <2>2. /\ next.pc = "commit" /\ next.auth = c.auth /\ next.copies = c.copies /\ next.box = c.box
        /\ next.state = c.state /\ next.tool = c.tool /\ next.secrets = c.secrets
    BY <2>1 DEF Create
  <2> HIDE DEF next
  <2>3. CopiesOf(next)
    BY <1>1, <2>1, <2>2 DEF CopiesOf
  <2>4. QED
    BY <1>2, <1>3, <2>1, <2>3
<1>12. CASE CommitTool(p)
  <2> DEFINE next == [c EXCEPT !.pc = "ended", !.image = IF NothingNew(c) THEN @ ELSE TargetTag(c)]
  <2>1. c \in Create /\ (Become(p, next) \/ Become(p, Failed))
    BY <1>12, CommitStep
  <2>2. CopiesOf(next)
    BY <2>1 DEF CopiesOf, Create
  <2> HIDE DEF next
  <2>3. QED
    BY <1>2, <1>3, <2>1, <2>2
<1>13. CASE Interrupt(p)
  BY <1>2, <1>3, <1>13 DEF Interrupt
<1>14. QED
  BY <1>4, <1>5, <1>6, <1>7, <1>8, <1>9, <1>10, <1>11, <1>12, <1>13 DEF Step

-----------------------------------------------------------------------------
EarnedImage(image) == \A t \in Tools : image.state[t] = "authenticated" => Has(image, t)
Copier(t) == Method[t] = "file_copy"

\* A create that will leave the credentials out has them in its image, as long as that is there.
HeldOf(c) ==
    /\ c.pc \in {"confirm", "create"} /\ Attempted(c.state) /\ Copier(c.tool) =>
          store[c.image] = None \/ Has(store[c.image], c.tool)
    /\ c.pc \in {"inject", "upgrade", "commit"} => EarnedImage(c.box)
    /\ c.pc = "inject" /\ Attempted(c.state) /\ Copier(c.tool) => Has(c.box, c.tool)
    /\ c.pc \in {"upgrade", "commit", "ended"} /\ Copier(c.tool) => Has(c.box, c.tool) \/ c.copies = "failed"

HeldByImages ==
    /\ \A tag \in Tags : store[tag] # None => EarnedImage(store[tag])
    /\ \A t \in Tools : \A h \in HashesOf(t) :
          store[AuthTag(t, h)] # None /\ Copier(t) /\ Attempted(store[AuthTag(t, h)].state[t])
             => Has(store[AuthTag(t, h)], t)

HeldInv == HeldByImages /\ \A p \in Creates : HeldOf(create[p])

\* What a step may put under a tag: nothing, or an image with the credentials it is labelled with.
EarnedWrites ==
    \A tag \in Tags :
        \/ store'[tag] = store[tag] \/ store'[tag] = None
        \/ /\ EarnedImage(store'[tag])
           /\ \A t \in Tools : \A h \in HashesOf(t) :
                 tag = AuthTag(t, h) /\ Copier(t) => Has(store'[tag], t)

\* Such writes keep what the images hold, and what every other create counts on.
LEMMA HeldWrites ==
  ASSUME ImageTypeOK, PathInv, HeldInv, EarnedWrites
  PROVE  /\ HeldByImages'
         /\ \A q \in Creates : create'[q] = create[q] => HeldOf(create[q])'
<1>1. HeldByImages'
  <2>1. ASSUME NEW tag \in Tags, store'[tag] # None PROVE EarnedImage(store'[tag])
    BY <2>1 DEF EarnedWrites, HeldInv, HeldByImages
  <2>2. ASSUME NEW t \in Tools, NEW h \in HashesOf(t), store'[AuthTag(t, h)] # None, Copier(t),
               Attempted(store'[AuthTag(t, h)].state[t])
        PROVE  Has(store'[AuthTag(t, h)], t)
    BY <2>2, TagsOfTool DEF EarnedWrites, HeldInv, HeldByImages
  <2>3. QED
    BY <2>1, <2>2 DEF HeldByImages, EarnedImage, Has
<1>2. ASSUME NEW q \in Creates, create'[q] = create[q]
      PROVE  HeldOf(create[q])'
  <2> DEFINE c == create[q]
  <2>1. HeldOf(c) /\ PathOf(c)
    BY DEF HeldInv, PathInv
  <2>2. ASSUME c.pc \in {"confirm", "create"}, Attempted(c.state), Copier(c.tool)
        PROVE  store'[c.image] = None \/ Has(store'[c.image], c.tool)
    <3>1. Working(c) /\ c.image = AuthTag(c.tool, c.hash)
      BY <2>1, <2>2, ActiveWorks DEF PathOf, Resolved, Active
    <3>2. c.image \in Tags
      BY <3>1, TagsOfTool DEF Working
    <3>3. store[c.image] = None \/ Has(store[c.image], c.tool)
      BY <2>1, <2>2 DEF HeldOf
    <3>4. QED
      BY <2>2, <3>1, <3>2, <3>3 DEF EarnedWrites, Working
  <2>3. QED
    BY <1>2, <2>1, <2>2 DEF HeldOf, EarnedImage, Has
<1>3. QED
  BY <1>1, <1>2

\* They keep the whole invariant when it holds of the create that moves.
LEMMA HeldByCreate ==
  ASSUME ImageTypeOK, PathInv, HeldInv, EarnedWrites, NEW p \in Creates, NEW d, Become(p, d),
         /\ d.pc \in {"confirm", "create"} /\ Attempted(d.state) /\ Copier(d.tool) =>
               store'[d.image] = None \/ Has(store'[d.image], d.tool)
         /\ d.pc \in {"inject", "upgrade", "commit"} => EarnedImage(d.box)
         /\ d.pc = "inject" /\ Attempted(d.state) /\ Copier(d.tool) => Has(d.box, d.tool)
         /\ d.pc \in {"upgrade", "commit", "ended"} /\ Copier(d.tool) => Has(d.box, d.tool) \/ d.copies = "failed"
  PROVE  HeldInv'
<1>1. create'[p] = d /\ \A q \in Creates : q # p => create'[q] = create[q]
  BY BecomeOne
<1>2. HeldOf(create[p])'
  BY <1>1 DEF HeldOf, EarnedImage, Has
<1>3. \A q \in Creates : q # p => HeldOf(create[q])'
  BY <1>1, HeldWrites
<1>4. HeldByImages'
  BY HeldWrites
<1>5. QED
  BY <1>2, <1>3, <1>4 DEF HeldInv

\* A step that writes no tag earns what it writes.
LEMMA NoWrites ==
  ASSUME UNCHANGED store
  PROVE  EarnedWrites
BY DEF EarnedWrites

\* So does one that writes the base,
LEMMA WritesOfBase ==
  ASSUME ImageTypeOK, NEW image \in Image, EarnedImage(image), store' = [store EXCEPT ![Base] = image]
  PROVE  EarnedWrites
<1>1. store'[Base] = image /\ \A tag \in Tags : tag # Base => store'[tag] = store[tag]
  BY TagFacts, WriteType
<1>2. \A t, h : AuthTag(t, h) # Base
  BY TagFacts
<1>3. QED
  BY <1>1, <1>2 DEF EarnedWrites

\* and a commit: the label "authenticated" comes with copied credentials, or is recorded as unearned.
LEMMA WritesOfCommit ==
  ASSUME ImageTypeOK, NEW c \in Create, Working(c), CopiesOf(c), HeldOf(c), c.pc = "commit",
         ~NothingNew(c), store' = [store EXCEPT ![TargetTag(c)] = Committed(c)]
  PROVE  EarnedWrites
<1> DEFINE image == Committed(c)
<1> DEFINE tag == TargetTag(c)
<1>1. /\ image \in Image /\ tag \in Tags
      /\ image.credentials = c.box.credentials
      /\ image.state = [c.box.state EXCEPT ![c.tool] = LabelOf(c.auth)]
      /\ image.unearned = IF c.copies = "done" \/ (c.copies = "none" /\ ~c.secrets)
                                    THEN c.box.unearned \ {c.tool} ELSE c.box.unearned \cup {c.tool}
  BY CommittedType, TargetType DEF Working
<1>2. store'[tag] = image /\ \A other \in Tags : other # tag => store'[other] = store[other]
  BY <1>1, WriteType
<1>3. c.tool \in Tools /\ c.box.state \in [Tools -> States] /\ c.auth \in Methods
      /\ c.copies \in {"none", "done", "failed"}
  BY DEF Working, Create, Image
<1> HIDE DEF image
<1>4. c.auth = "file_copy" => Has(image, c.tool)
  <2>1. CASE c.copies = "done"
    BY <1>1, <2>1 DEF CopiesOf, Has
  <2>2. CASE c.copies = "none" /\ ~c.secrets
    BY <2>2 DEF CopiesOf, NothingNew
  <2>3. CASE ~(c.copies = "done" \/ (c.copies = "none" /\ ~c.secrets))
    BY <1>1, <2>3 DEF Has
  <2>4. QED
    BY <2>1, <2>2, <2>3
<1>5. EarnedImage(image)
  <2> SUFFICES ASSUME NEW t \in Tools, image.state[t] = "authenticated" PROVE Has(image, t)
    BY DEF EarnedImage
  <2>1. CASE t = c.tool
    <3>1. LabelOf(c.auth) = "authenticated"
      BY <1>1, <1>3, <2>1
    <3>2. c.auth = "file_copy"
      BY <1>3, <3>1 DEF LabelOf, Methods
    <3>3. QED
      BY <1>4, <2>1, <3>2
  <2>2. CASE t # c.tool
    <3>1. Has(c.box, t)
      BY <1>1, <1>3, <2>2 DEF HeldOf, EarnedImage
    <3>2. QED
      BY <1>1, <2>2, <3>1 DEF Has
  <2>3. QED
    BY <2>1, <2>2
<1>6. ASSUME NEW t \in Tools, NEW h \in HashesOf(t), tag = AuthTag(t, h), Copier(t)
      PROVE  Has(image, t)
  <2>1. t = c.tool
    BY <1>6, TagFacts DEF TargetTag
  <2>2. c.auth = "file_copy"
    BY <1>6, <2>1 DEF CopiesOf, Copier
  <2>3. QED
    BY <1>4, <2>1, <2>2
<1>7. QED
  BY <1>2, <1>5, <1>6 DEF EarnedWrites

\* Every step of a create keeps the credentials where they are counted on.
LEMMA HeldStep ==
  ASSUME ImageTypeOK, LabelInv, PathInv, CopiesInv, HeldInv, NEW p \in Creates, Step(p)
  PROVE  HeldInv'
<1> DEFINE c == create[p]
<1>1. PathOf(c) /\ CopiesOf(c) /\ HeldOf(c)
  BY DEF PathInv, CopiesInv, HeldInv
<1>2. ASSUME EarnedWrites, Become(p, Failed) PROVE HeldInv'
  BY <1>2, HeldByCreate, NewType
<1>3. CASE Begin(p)
  <2>1. PICK d \in Create : Become(p, d) /\ d.pc \in {"default", "resolve"} /\ UNCHANGED store
    BY <1>3, BeginStep
  <2>2. QED
    BY <2>1, HeldByCreate, NoWrites
<1>4. CASE FindDefault(p)
  <2> DEFINE d == [c EXCEPT !.pc = "resolve", !.image = Base, !.found = TRUE]
  <2>1. c \in Create /\ Become(p, d) /\ UNCHANGED store
    BY <1>4, FindDefaultStep
  <2>2. d.pc = "resolve"
    BY <2>1 DEF Create
  <2> HIDE DEF d
  <2>3. QED
    BY <2>1, <2>2, HeldByCreate, NoWrites
<1>5. CASE BuildDefault(p)
  <2> DEFINE d == [c EXCEPT !.pc = "resolve", !.image = Base]
  <2>1. /\ c \in Create /\ Working(c)
        /\ \/ /\ Become(p, d)
              /\ \E fit \in BOOLEAN :
                    /\ BuiltImage(c.tool, c.hash, c.wants, fit) \in Image
                    /\ store' = [store EXCEPT ![Base] = BuiltImage(c.tool, c.hash, c.wants, fit)]
           \/ Become(p, Failed) /\ UNCHANGED store
    BY <1>5, BuildDefaultStep
  <2>2. d.pc = "resolve"
    BY <2>1 DEF Create
  <2> HIDE DEF d
  <2>3. ASSUME NEW fit \in BOOLEAN, Become(p, d), BuiltImage(c.tool, c.hash, c.wants, fit) \in Image,
               store' = [store EXCEPT ![Base] = BuiltImage(c.tool, c.hash, c.wants, fit)]
        PROVE  HeldInv'
    <3> DEFINE image == BuiltImage(c.tool, c.hash, c.wants, fit)
    <3>0. c.tool \in Tools /\ c.wants \in BOOLEAN /\ c.hash \in Manifests \cup {None}
      BY <2>1 DEF Working, Create
    <3>1. \A u \in Tools : image.state[u] = IF u = c.tool THEN "installed" ELSE "absent"
      BY <3>0, BuiltType
    <3> HIDE DEF image
    <3>2. EarnedImage(image)
      BY <3>1 DEF EarnedImage
    <3>3. EarnedWrites
      BY <2>3, <3>2, WritesOfBase DEF image
    <3>4. QED
      BY <2>2, <2>3, <3>3, HeldByCreate
  <2>4. QED
    BY <1>2, <2>1, <2>3, NoWrites
<1>6. CASE Resolve(p)
  <2>1. PICK r : LET d == [c EXCEPT !.pc = "confirm", !.image = r.ref, !.state = r.state,
                                    !.compatible = r.compatible]
                 IN  /\ c \in Create /\ Working(c) /\ c.pc = "resolve"
                     /\ Leads(r, c.image, c.tool, c.hash)
                     /\ Become(p, d) /\ UNCHANGED store
    BY <1>6, ResolveStep
  <2> DEFINE d == [c EXCEPT !.pc = "confirm", !.image = r.ref, !.state = r.state,
                            !.compatible = r.compatible]
  <2>2. /\ d.pc = "confirm" /\ d.image = r.ref /\ d.state = r.state
        /\ d.tool = c.tool /\ d.hash = c.hash
    BY <2>1 DEF Create
  <2>3. Become(p, d) /\ UNCHANGED store
    BY <2>1
  <2> HIDE DEF d
  <2>4. create'[p] = d
    BY <2>3, BecomeOne
  <2>5. PathOf(d)
    BY <1>6, <2>4, PathStep DEF PathInv, Step
  <2>6. ASSUME Attempted(d.state), Copier(d.tool)
        PROVE  store[d.image] = None \/ Has(store[d.image], d.tool)
    <3>1. d.image = AuthTag(c.tool, c.hash) /\ d.image \in Tags /\ d.image # Raw /\ c.tool \in Tools
      BY <2>1, <2>2, <2>5, <2>6, TagFacts, TagsOfTool DEF PathOf, Resolved, Working
    <3>2. d.state = ToolState(d.image, c.tool)
      BY <2>1, <2>2, <2>6 DEF Leads, Attempted
    <3>3. store[d.image] # None => Attempted(store[d.image].state[c.tool])
      BY <2>6, <3>1, <3>2 DEF ToolState, Exists, At
    <3>4. QED
      BY <2>1, <2>2, <2>6, <3>1, <3>3 DEF HeldInv, HeldByImages, Working
  <2>7. QED
    BY <2>2, <2>3, <2>6, HeldByCreate, NoWrites
<1>7. CASE ConfirmSecrets(p)
  <2>1. /\ c \in Create /\ c.pc = "confirm" /\ UNCHANGED store
        /\ \/ \E s \in BOOLEAN : Become(p, [c EXCEPT !.pc = "create", !.secrets = s])
           \/ Become(p, Failed)
    BY <1>7, ConfirmStep
  <2>2. ASSUME NEW s \in BOOLEAN, Become(p, [c EXCEPT !.pc = "create", !.secrets = s])
        PROVE  HeldInv'
    <3> DEFINE d == [c EXCEPT !.pc = "create", !.secrets = s]
    <3>1. d.pc = "create" /\ d.image = c.image /\ d.state = c.state /\ d.tool = c.tool
      BY <2>1 DEF Create
    <3> HIDE DEF d
    <3>2. Attempted(d.state) /\ Copier(d.tool) => store'[d.image] = None \/ Has(store'[d.image], d.tool)
      BY <1>1, <2>1, <3>1 DEF HeldOf
    <3>3. Become(p, d)
      BY <2>2 DEF d
    <3>4. QED
      BY <2>1, <3>1, <3>2, <3>3, HeldByCreate, NoWrites
  <2>3. QED
    BY <1>2, <2>1, <2>2, NoWrites
<1>8. CASE StartContainer(p)
  <2>1. c \in Create /\ c.pc = "create" /\ UNCHANGED store
    BY <1>8, StartStep
  <2>2. ASSUME NEW auth \in Methods, Exists(c.image),
               Become(p, [c EXCEPT !.pc = "inject", !.box = At(c.image), !.auth = auth])
        PROVE  HeldInv'
    <3> DEFINE d == [c EXCEPT !.pc = "inject", !.box = At(c.image), !.auth = auth]
    <3>1. /\ d.pc = "inject" /\ d.state = c.state /\ d.tool = c.tool /\ d.box = At(c.image)
      BY <2>1 DEF Create
    <3>2. Become(p, d)
      BY <2>2
    <3> HIDE DEF d
    <3>3. c.image \in Tags \cup {Raw}
      BY <2>1 DEF Create
    <3>4. EarnedImage(At(c.image))
      <4>1. CASE c.image = Raw
        BY <4>1, PlainType, ImageAssumption DEF At, EarnedImage
      <4>2. CASE c.image # Raw
        BY <2>2, <3>3, <4>2 DEF At, Exists, HeldInv, HeldByImages
      <4>3. QED
        BY <4>1, <4>2
    <3>5. ASSUME Attempted(d.state), Copier(d.tool) PROVE Has(d.box, d.tool)
      <4>1. c.image # Raw
        BY <1>1, <2>1, <3>1, <3>5, TagFacts DEF PathOf, Resolved
      <4>2. QED
        BY <1>1, <2>1, <2>2, <3>1, <3>5, <4>1 DEF HeldOf, At, Exists
    <3>6. QED
      BY <2>1, <3>1, <3>2, <3>4, <3>5, HeldByCreate, NoWrites
  <2>3. QED
    BY <1>2, <1>8, <2>1, <2>2, StartStep, NoWrites
<1>9. CASE InjectAuthentication(p)
  <2> DEFINE next == [c EXCEPT !.pc = "upgrade", !.auth = ResultOf(c)]
  <2> DEFINE done == [next EXCEPT !.box.credentials = @ \cup {c.tool}, !.copies = "done"]
  <2> DEFINE lost == [next EXCEPT !.copies = "failed"]
  <2>1. /\ c \in Create /\ Working(c) /\ c.pc = "inject" /\ UNCHANGED store
        /\ \/ /\ Method[c.tool] # "file_copy" \/ SkipsInjection(c)
              /\ Become(p, next)
           \/ Become(p, done) \/ Become(p, lost)
    BY <1>9, InjectStep
  <2>2. /\ next.pc = "upgrade" /\ next.tool = c.tool /\ next.box = c.box
        /\ lost.pc = "upgrade" /\ lost.tool = c.tool /\ lost.box = c.box /\ lost.copies = "failed"
    BY <2>1 DEF Create
  <2>3. /\ done.pc = "upgrade" /\ done.tool = c.tool /\ done.box.state = c.box.state
        /\ done.box.credentials = c.box.credentials \cup {c.tool}
        /\ done.box.unearned = c.box.unearned
    BY <2>1 DEF Create, Image
  <2>4. EarnedImage(c.box)
    BY <1>1, <2>1 DEF HeldOf
  <2> HIDE DEF next, done, lost
  <2>5. EarnedImage(done.box) /\ Has(done.box, done.tool)
    BY <2>3, <2>4 DEF EarnedImage, Has
  <2>6. Method[c.tool] # "file_copy" \/ SkipsInjection(c) => (Copier(next.tool) => Has(next.box, next.tool))
    BY <1>1, <2>1, <2>2 DEF HeldOf, SkipsInjection, Copier
  <2>7. CASE (Method[c.tool] # "file_copy" \/ SkipsInjection(c)) /\ Become(p, next)
    BY <2>1, <2>2, <2>4, <2>6, <2>7, HeldByCreate, NoWrites
  <2>8. CASE Become(p, done)
    BY <2>1, <2>3, <2>5, <2>8, HeldByCreate, NoWrites
  <2>9. CASE Become(p, lost)
    BY <2>1, <2>2, <2>4, <2>9, HeldByCreate, NoWrites
  <2>10. QED
    BY <2>1, <2>7, <2>8, <2>9
<1>10. CASE UpgradeBase(p)
  <2> DEFINE next == [c EXCEPT !.pc = "commit", !.image = IF c.compatible THEN @ ELSE Base]
  <2> DEFINE base == [c.box EXCEPT !.compatible = TRUE]
  <2>1. /\ c \in Create /\ c.pc = "upgrade" /\ base \in Image
        /\ Become(p, next) \/ Become(p, Failed)
        /\ \/ UNCHANGED store
           \/ ~c.compatible /\ store' = [store EXCEPT ![Base] = base]
    BY <1>10, UpgradeStep
  <2>2. /\ next.pc = "commit" /\ next.tool = c.tool /\ next.box = c.box /\ next.copies = c.copies
    BY <2>1 DEF Create
  <2>3. base.state = c.box.state /\ base.credentials = c.box.credentials /\ base.unearned = c.box.unearned
    BY <2>1 DEF Create, Image
  <2> HIDE DEF next, base
  <2>4. EarnedImage(c.box) /\ EarnedImage(base)
    BY <1>1, <2>1, <2>3 DEF HeldOf, EarnedImage, Has
  <2>5. EarnedWrites
    BY <2>1, <2>4, WritesOfBase, NoWrites
  <2>6. Copier(next.tool) => Has(next.box, next.tool) \/ next.copies = "failed"
    BY <1>1, <2>1, <2>2 DEF HeldOf
  <2>7. CASE Become(p, next)
    BY <2>2, <2>4, <2>5, <2>6, <2>7, HeldByCreate
  <2>8. QED
    BY <1>2, <2>1, <2>5, <2>7
<1>11. CASE CommitTool(p)
  <2> DEFINE next == [c EXCEPT !.pc = "ended", !.image = IF NothingNew(c) THEN @ ELSE TargetTag(c)]
  <2>1. /\ c \in Create /\ Working(c) /\ c.pc = "commit"
        /\ Become(p, next) \/ Become(p, Failed)
        /\ \/ UNCHANGED store
           \/ ~NothingNew(c) /\ store' = [store EXCEPT ![TargetTag(c)] = Committed(c)]
    BY <1>11, CommitStep
  <2>2. /\ next.pc = "ended" /\ next.tool = c.tool /\ next.box = c.box /\ next.copies = c.copies
    BY <2>1 DEF Create
  <2> HIDE DEF next
  <2>3. EarnedWrites
    BY <1>1, <2>1, WritesOfCommit, NoWrites
  <2>4. Copier(next.tool) => Has(next.box, next.tool) \/ next.copies = "failed"
    BY <1>1, <2>1, <2>2 DEF HeldOf
  <2>5. CASE Become(p, next)
    BY <2>2, <2>3, <2>4, <2>5, HeldByCreate
  <2>6. QED
    BY <1>2, <2>1, <2>3, <2>5
<1>12. CASE Interrupt(p)
  <2>1. UNCHANGED store /\ Become(p, Failed)
    BY <1>12 DEF Interrupt
  <2>2. QED
    BY <1>2, <2>1, NoWrites
<1>13. QED
  BY <1>3, <1>4, <1>5, <1>6, <1>7, <1>8, <1>9, <1>10, <1>11, <1>12 DEF Step

-----------------------------------------------------------------------------
\* One create at a time, unless the history says otherwise.
AloneInv == ~raced => \A p, q \in Creates : Active(p) /\ Active(q) => p = q

\* Every step keeps it; where nothing is recorded as raced, the create that moves is the only one.
LEMMA AloneStep ==
  ASSUME ImageTypeOK, AloneInv, NEW p \in Creates, Step(p)
  PROVE  /\ AloneInv'
         /\ ~raced' => /\ ~raced
                       /\ \A q \in Creates : q # p => ~Active(q) /\ create'[q] = create[q]
<1>1. CASE Begin(p)
  <2>1. PICK d \in Create : Become(p, d) /\ raced' = (raced \/ \E q \in Creates : Active(q))
    BY <1>1, BeginStep
  <2>2. \A q \in Creates : q # p => create'[q] = create[q]
    BY <2>1, BecomeOne
  <2>3. QED
    BY <2>1, <2>2 DEF AloneInv, Active
<1>2. CASE ~Begin(p)
  <2>1. Active(p) /\ UNCHANGED raced
    BY <1>2 DEF Step, FindDefault, BuildDefault, Resolve, ConfirmSecrets, StartContainer,
                InjectAuthentication, UpgradeBase, CommitTool, Interrupt, On, Active, machine
  <2>2. \E d : Become(p, d)
    <3>1. CASE FindDefault(p)
      BY <3>1 DEF FindDefault
    <3>2. CASE BuildDefault(p)
      BY <3>2 DEF BuildDefault
    <3>3. CASE Resolve(p)
      BY <3>3 DEF Resolve
    <3>4. CASE ConfirmSecrets(p)
      BY <3>4 DEF ConfirmSecrets
    <3>5. CASE StartContainer(p)
      BY <3>5 DEF StartContainer
    <3>6. CASE InjectAuthentication(p)
      BY <3>6 DEF InjectAuthentication
    <3>7. CASE UpgradeBase(p)
      BY <3>7, UpgradeStep
    <3>8. CASE CommitTool(p)
      BY <3>8, CommitStep
    <3>9. CASE Interrupt(p)
      BY <3>9 DEF Interrupt
    <3>10. QED
      BY <1>2, <3>1, <3>2, <3>3, <3>4, <3>5, <3>6, <3>7, <3>8, <3>9 DEF Step
  <2>3. \A q \in Creates : q # p => create'[q] = create[q]
    BY <2>2, BecomeOne
  <2>4. QED
    BY <2>1, <2>3 DEF AloneInv, Active
<1>3. QED
  BY <1>1, <1>2

\* The image a create has resolved to, and the one it recorded, are still what they were.
CurrentOf(c) ==
    /\ c.pc \in Resolved /\ Attempted(c.state) =>
          store[c.image] # None /\ Attempted(store[c.image].state[c.tool])
    /\ c.pc \in Resolved /\ c.state = "installed" /\ c.image # Base => store[c.image] # None
    /\ c.pc = "ended" /\ c.image # Base =>
          /\ Working(c)
          /\ c.image \in {AuthTag(c.tool, c.hash), InstalledTag(c.tool, c.hash)}
          /\ store[c.image] # None
          /\ c.image = AuthTag(c.tool, c.hash) => Attempted(store[c.image].state[c.tool])

CurrentInv == ~raced => \A p \in Creates : CurrentOf(create[p])

\* What a step may put under a tag other than the base's: an image with the label of the tag.
LabelledWrites ==
    \A tag \in Tags \ {Base} :
        \/ store'[tag] = store[tag]
        \/ /\ store'[tag] # None
           /\ \A t \in Tools : \A h \in HashesOf(t) :
                 tag = AuthTag(t, h) => Attempted(store'[tag].state[t])

\* Such writes keep the recorded images of the creates that have ended.
LEMMA CurrentByCreate ==
  ASSUME ImageTypeOK, CurrentInv, LabelledWrites, NEW p \in Creates, NEW d, Become(p, d),
         ~raced' => /\ ~raced
                    /\ \A q \in Creates : q # p => ~Active(q) /\ create'[q] = create[q],
         ~raced =>
           /\ d.pc \in Resolved /\ Attempted(d.state) =>
                 store'[d.image] # None /\ Attempted(store'[d.image].state[d.tool])
           /\ d.pc \in Resolved /\ d.state = "installed" /\ d.image # Base => store'[d.image] # None
           /\ d.pc = "ended" /\ d.image # Base =>
                 /\ Working(d)
                 /\ d.image \in {AuthTag(d.tool, d.hash), InstalledTag(d.tool, d.hash)}
                 /\ store'[d.image] # None
                 /\ d.image = AuthTag(d.tool, d.hash) => Attempted(store'[d.image].state[d.tool])
  PROVE  CurrentInv'
<1> SUFFICES ASSUME ~raced', NEW q \in Creates PROVE CurrentOf(create[q])'
  BY DEF CurrentInv
<1>1. create'[p] = d
  BY BecomeOne
<1>2. ~raced
  OBVIOUS
<1>3. CASE q = p
  BY <1>1, <1>2, <1>3 DEF CurrentOf, Working
<1>4. CASE q # p
  <2> DEFINE c == create[q]
  <2>1. ~Active(q) /\ create'[q] = c /\ CurrentOf(c)
    BY <1>2, <1>4 DEF CurrentInv
  <2>2. c.pc \notin Resolved
    BY <2>1 DEF Resolved, Active
  <2>3. ASSUME c.pc = "ended", c.image # Base
        PROVE  /\ store'[c.image] # None
               /\ c.image = AuthTag(c.tool, c.hash) => Attempted(store'[c.image].state[c.tool])
    <3>1. /\ Working(c) /\ store[c.image] # None
          /\ c.image \in {AuthTag(c.tool, c.hash), InstalledTag(c.tool, c.hash)}
          /\ c.image = AuthTag(c.tool, c.hash) => Attempted(store[c.image].state[c.tool])
      BY <2>1, <2>3 DEF CurrentOf
    <3>2. c.image \in Tags \ {Base}
      BY <2>3, <3>1, TagsOfTool DEF Working
    <3>3. QED
      BY <3>1, <3>2 DEF LabelledWrites, Working
  <2>4. QED
    BY <2>1, <2>2, <2>3 DEF CurrentOf, Working
<1>5. QED
  BY <1>3, <1>4

\* A step that writes no tag, or the base, is one.
LEMMA LabelsOfWrites ==
  ASSUME ImageTypeOK
  PROVE  /\ UNCHANGED store => LabelledWrites
         /\ \A image \in Image : store' = [store EXCEPT ![Base] = image] => LabelledWrites
<1>1. UNCHANGED store => LabelledWrites
  BY DEF LabelledWrites
<1>2. ASSUME NEW image \in Image, store' = [store EXCEPT ![Base] = image] PROVE LabelledWrites
  <2>1. \A tag \in Tags : tag # Base => store'[tag] = store[tag]
    BY <1>2, TagFacts, WriteType
  <2>2. QED
    BY <2>1 DEF LabelledWrites
<1>3. QED
  BY <1>1, <1>2

\* So is a commit, which leaves its tag with the label of the tag's form.
LEMMA LabelOfTarget ==
  ASSUME ImageTypeOK, NEW c \in Create, Working(c),
         store' = [store EXCEPT ![TargetTag(c)] = Committed(c)]
  PROVE  /\ LabelledWrites /\ store'[TargetTag(c)] # None
         /\ TargetTag(c) = AuthTag(c.tool, c.hash) => Attempted(store'[TargetTag(c)].state[c.tool])
<1>1. /\ Committed(c) \in Image /\ TargetTag(c) \in Tags
      /\ Committed(c).state = [c.box.state EXCEPT ![c.tool] = LabelOf(c.auth)]
  BY CommittedType, TargetType DEF Working
<1>2. /\ store'[TargetTag(c)] = Committed(c)
      /\ \A tag \in Tags : tag # TargetTag(c) => store'[tag] = store[tag]
  BY <1>1, WriteType
<1>3. c.tool \in Tools /\ c.box.state \in [Tools -> States] /\ c.auth \in Methods
  BY DEF Working, Create, Image
<1>4. Committed(c) # None
  BY <1>1, ImageAssumption
<1>5. \A t \in Tools : \A h \in HashesOf(t) :
         TargetTag(c) = AuthTag(t, h) => t = c.tool /\ Attempted(Committed(c).state[t])
  <2> SUFFICES ASSUME NEW t \in Tools, NEW h \in HashesOf(t), TargetTag(c) = AuthTag(t, h)
               PROVE  t = c.tool /\ Attempted(Committed(c).state[t])
    OBVIOUS
  <2>1. t = c.tool /\ c.auth # "none"
    BY TagFacts DEF TargetTag
  <2>2. Attempted(LabelOf(c.auth))
    BY <1>3, <2>1 DEF LabelOf, Methods, Attempted
  <2>3. QED
    BY <1>1, <1>3, <2>1, <2>2
<1>6. QED
  BY <1>2, <1>4, <1>5 DEF LabelledWrites, Working

\* Every step of a create keeps the images resolved to and recorded.
LEMMA CurrentStep ==
  ASSUME ImageTypeOK, LabelInv, PathInv, AloneInv, CurrentInv, NEW p \in Creates, Step(p)
  PROVE  CurrentInv'
<1> DEFINE c == create[p]
<1>1. PathOf(c) /\ (~raced => CurrentOf(c))
  BY DEF PathInv, CurrentInv
<1>2. ~raced' => /\ ~raced
                 /\ \A q \in Creates : q # p => ~Active(q) /\ create'[q] = create[q]
  BY AloneStep
<1>3. ASSUME LabelledWrites, NEW d, Become(p, d), d.pc \notin Resolved \cup {"ended"} PROVE CurrentInv'
  BY <1>2, <1>3, CurrentByCreate
<1>4. ASSUME LabelledWrites, Become(p, Failed) PROVE CurrentInv'
  BY <1>3, <1>4, NewType DEF Resolved
<1>5. CASE Begin(p)
  <2>1. PICK d \in Create : Become(p, d) /\ d.pc \in {"default", "resolve"} /\ UNCHANGED store
    BY <1>5, BeginStep
  <2>2. QED
    BY <1>3, <2>1, LabelsOfWrites DEF Resolved
<1>6. CASE FindDefault(p)
  <2> DEFINE d == [c EXCEPT !.pc = "resolve", !.image = Base, !.found = TRUE]
  <2>1. c \in Create /\ Become(p, d) /\ UNCHANGED store
    BY <1>6, FindDefaultStep
  <2>2. d.pc = "resolve"
    BY <2>1 DEF Create
  <2> HIDE DEF d
  <2>3. QED
    BY <1>3, <2>1, <2>2, LabelsOfWrites DEF Resolved
<1>7. CASE BuildDefault(p)
  <2> DEFINE d == [c EXCEPT !.pc = "resolve", !.image = Base]
  <2>1. /\ c \in Create
        /\ \/ /\ Become(p, d)
              /\ \E image \in Image : store' = [store EXCEPT ![Base] = image]
           \/ Become(p, Failed) /\ UNCHANGED store
    BY <1>7, BuildDefaultStep
  <2>2. d.pc = "resolve"
    BY <2>1 DEF Create
  <2> HIDE DEF d
  <2>3. QED
    BY <1>3, <1>4, <2>1, <2>2, LabelsOfWrites DEF Resolved
<1>8. CASE Resolve(p)
  <2>1. PICK r : LET d == [c EXCEPT !.pc = "confirm", !.image = r.ref, !.state = r.state,
                                    !.compatible = r.compatible]
                 IN  /\ c \in Create /\ Working(c) /\ c.pc = "resolve"
                     /\ Leads(r, c.image, c.tool, c.hash)
                     /\ Become(p, d) /\ UNCHANGED store
    BY <1>8, ResolveStep
  <2> DEFINE d == [c EXCEPT !.pc = "confirm", !.image = r.ref, !.state = r.state,
                            !.compatible = r.compatible]
  <2>2. /\ d.pc = "confirm" /\ d.image = r.ref /\ d.state = r.state
        /\ d.tool = c.tool /\ d.hash = c.hash
    BY <2>1 DEF Create
  <2>3. Become(p, d) /\ UNCHANGED store
    BY <2>1
  <2> HIDE DEF d
  <2>4. create'[p] = d
    BY <2>3, BecomeOne
  <2>5. PathOf(d)
    BY <1>8, <2>4, PathStep DEF PathInv, Step
  <2>6. ASSUME Attempted(d.state)
        PROVE  store[d.image] # None /\ Attempted(store[d.image].state[d.tool])
    <3>1. d.image # Raw
      BY <2>2, <2>5, <2>6, TagFacts DEF PathOf, Resolved
    <3>2. d.state = ToolState(d.image, d.tool)
      BY <2>1, <2>2, <2>6 DEF Leads, Attempted
    <3>3. QED
      BY <2>6, <3>1, <3>2 DEF ToolState, Exists, At, Attempted
  <2>7. ASSUME d.state = "installed", d.image # Base
        PROVE  store[d.image] # None
    <3>1. d.image # Raw
      BY <2>2, <2>5, <2>7, TagFacts DEF PathOf, Resolved
    <3>2. d.state = ToolState(d.image, d.tool)
      BY <2>1, <2>2, <2>7 DEF Leads
    <3>3. QED
      BY <2>7, <3>1, <3>2 DEF ToolState, Exists
  <2>8. QED
    BY <1>2, <2>2, <2>3, <2>6, <2>7, CurrentByCreate, LabelsOfWrites
<1>9. CASE ConfirmSecrets(p)
  <2>1. /\ c \in Create /\ c.pc = "confirm" /\ UNCHANGED store
        /\ \/ \E s \in BOOLEAN : Become(p, [c EXCEPT !.pc = "create", !.secrets = s])
           \/ Become(p, Failed)
    BY <1>9, ConfirmStep
  <2>2. ASSUME NEW s \in BOOLEAN, Become(p, [c EXCEPT !.pc = "create", !.secrets = s])
        PROVE  CurrentInv'
    <3> DEFINE d == [c EXCEPT !.pc = "create", !.secrets = s]
    <3>1. d.pc = "create" /\ d.image = c.image /\ d.state = c.state /\ d.tool = c.tool
      BY <2>1 DEF Create
    <3>2. Become(p, d)
      BY <2>2
    <3> HIDE DEF d
    <3>3. QED
      BY <1>1, <1>2, <2>1, <3>1, <3>2, CurrentByCreate, LabelsOfWrites DEF CurrentOf, Resolved
  <2>3. QED
    BY <1>4, <2>1, <2>2, LabelsOfWrites
<1>10. CASE StartContainer(p)
  <2>1. c \in Create /\ c.pc = "create" /\ UNCHANGED store
    BY <1>10, StartStep
  <2>2. ASSUME NEW auth, NEW box, Become(p, [c EXCEPT !.pc = "inject", !.box = box, !.auth = auth])
        PROVE  CurrentInv'
    <3> DEFINE d == [c EXCEPT !.pc = "inject", !.box = box, !.auth = auth]
    <3>1. d.pc = "inject" /\ d.image = c.image /\ d.state = c.state /\ d.tool = c.tool
      BY <2>1 DEF Create
    <3>2. Become(p, d)
      BY <2>2
    <3> HIDE DEF d
    <3>3. QED
      BY <1>1, <1>2, <2>1, <3>1, <3>2, CurrentByCreate, LabelsOfWrites DEF CurrentOf, Resolved
  <2>3. QED
    BY <1>4, <1>10, <2>1, <2>2, StartStep, LabelsOfWrites
<1>11. CASE InjectAuthentication(p)
  <2> DEFINE next == [c EXCEPT !.pc = "upgrade", !.auth = ResultOf(c)]
  <2> DEFINE done == [next EXCEPT !.box.credentials = @ \cup {c.tool}, !.copies = "done"]
  <2> DEFINE lost == [next EXCEPT !.copies = "failed"]
  <2>1. /\ c \in Create /\ c.pc = "inject" /\ UNCHANGED store
        /\ Become(p, next) \/ Become(p, done) \/ Become(p, lost)
    BY <1>11, InjectStep
  <2>2. ASSUME NEW d \in {next, done, lost}
        PROVE  d.pc = "upgrade" /\ d.image = c.image /\ d.state = c.state /\ d.tool = c.tool
    BY <2>1 DEF Create
  <2> HIDE DEF next, done, lost
  <2>3. PICK d \in {next, done, lost} : Become(p, d)
    BY <2>1
  <2>4. d.pc = "upgrade" /\ d.image = c.image /\ d.state = c.state /\ d.tool = c.tool
    BY <2>2
  <2>5. QED
    BY <1>1, <1>2, <2>1, <2>3, <2>4, CurrentByCreate, LabelsOfWrites DEF CurrentOf, Resolved
<1>12. CASE UpgradeBase(p)
  <2> DEFINE next == [c EXCEPT !.pc = "commit", !.image = IF c.compatible THEN @ ELSE Base]
  <2> DEFINE base == [c.box EXCEPT !.compatible = TRUE]
  <2>1. /\ c \in Create /\ c.pc = "upgrade" /\ base \in Image /\ Working(c)
        /\ Become(p, next) \/ Become(p, Failed)
        /\ UNCHANGED store \/ store' = [store EXCEPT ![Base] = base]
    BY <1>12, UpgradeStep
  <2>2. /\ next.pc = "commit" /\ next.image = (IF c.compatible THEN c.image ELSE Base)
        /\ next.state = c.state /\ next.tool = c.tool /\ c.image \in Tags \cup {Raw}
    BY <2>1 DEF Create
  <2> HIDE DEF next, base
  <2>3. LabelledWrites /\ \A tag \in Tags : tag # Base => store'[tag] = store[tag]
    BY <2>1, TagFacts, LabelsOfWrites, WriteType
  <2>4. Attempted(next.state) => next.image = c.image /\ c.image \in Tags \ {Base}
    BY <1>1, <2>1, <2>2, TagFacts, TagsOfTool DEF PathOf, Resolved, Working
  <2>5. next.image # Base => next.image = c.image /\ c.compatible
    BY <2>2
  <2>6. next.image # Base => c.image \in Tags \ {Base}
    BY <1>1, <2>1, <2>2, <2>5 DEF PathOf
  <2>7. ASSUME ~raced, Attempted(next.state)
        PROVE  store'[next.image] # None /\ Attempted(store'[next.image].state[next.tool])
    <3>1. store[c.image] # None /\ Attempted(store[c.image].state[c.tool])
      BY <1>1, <2>1, <2>2, <2>7 DEF CurrentOf, Resolved
    <3>2. QED
      BY <2>2, <2>3, <2>4, <2>7, <3>1
  <2>8. ASSUME ~raced, next.state = "installed", next.image # Base
        PROVE  store'[next.image] # None
    <3>1. store[c.image] # None
      BY <1>1, <2>1, <2>2, <2>5, <2>8 DEF CurrentOf, Resolved
    <3>2. QED
      BY <2>3, <2>5, <2>6, <2>8, <3>1
  <2>9. CASE Become(p, next)
    BY <1>2, <2>2, <2>3, <2>7, <2>8, <2>9, CurrentByCreate
  <2>10. QED
    BY <1>4, <2>1, <2>3, <2>9
<1>13. CASE CommitTool(p)
  <2> DEFINE next == [c EXCEPT !.pc = "ended", !.image = IF NothingNew(c) THEN @ ELSE TargetTag(c)]
  <2>1. /\ c \in Create /\ Working(c) /\ c.pc = "commit" /\ TargetTag(c) \in Tags
        /\ \/ (NothingNew(c) \/ HasLabel(c)) /\ Become(p, next) /\ UNCHANGED store
           \/ /\ ~NothingNew(c) /\ store' = [store EXCEPT ![TargetTag(c)] = Committed(c)]
              /\ Become(p, next) \/ Become(p, Failed)
           \/ UNCHANGED store /\ Become(p, Failed)
    BY <1>13, CommitStep
  <2>2. /\ next.pc = "ended" /\ next.tool = c.tool /\ next.hash = c.hash
        /\ next.image = (IF NothingNew(c) THEN c.image ELSE TargetTag(c))
    BY <2>1 DEF Create
  <2> HIDE DEF next
  <2>3. LabelledWrites
    BY <2>1, LabelsOfWrites, LabelOfTarget
  <2>4. TargetTag(c) \in {AuthTag(c.tool, c.hash), InstalledTag(c.tool, c.hash)} /\ TargetTag(c) # Raw
    BY TagFacts DEF TargetTag
  <2>5. CASE NothingNew(c) /\ UNCHANGED store /\ Become(p, next)
    <3>1. ASSUME ~raced, c.image # Base
          PROVE  /\ c.image \in {AuthTag(c.tool, c.hash), InstalledTag(c.tool, c.hash)}
                 /\ store[c.image] # None
                 /\ c.image = AuthTag(c.tool, c.hash) => Attempted(store[c.image].state[c.tool])
      <4>1. CurrentOf(c)
        BY <1>1, <3>1
      <4>2. CASE Attempted(c.state)
        BY <1>1, <2>1, <4>1, <4>2 DEF PathOf, CurrentOf, Resolved
      <4>3. CASE ~Attempted(c.state)
        <5>1. c.state = "installed"
          BY <2>5, <4>3 DEF NothingNew
        <5>2. c.image = InstalledTag(c.tool, c.hash) /\ store[c.image] # None
          BY <1>1, <2>1, <3>1, <4>1, <5>1 DEF PathOf, CurrentOf, Resolved
        <5>3. QED
          BY <5>2, TagFacts
      <4>4. QED
        BY <4>2, <4>3
    <3>2. QED
      BY <1>2, <2>1, <2>2, <2>3, <2>5, <3>1, CurrentByCreate DEF Resolved, Working
  <2>6. CASE ~NothingNew(c) /\ HasLabel(c) /\ UNCHANGED store /\ Become(p, next)
    <3>1. ToolState(TargetTag(c), c.tool) = LabelOf(c.auth) /\ c.auth \in Methods
      BY <2>1, <2>6 DEF HasLabel, Create
    <3>2. LabelOf(c.auth) # "absent" /\ (c.auth # "none" => Attempted(LabelOf(c.auth)))
      BY <3>1 DEF LabelOf, Methods, Attempted
    <3>3. store[TargetTag(c)] # None /\ store[TargetTag(c)].state[c.tool] = LabelOf(c.auth)
      BY <2>4, <3>1, <3>2 DEF ToolState, Exists, At
    <3>4. TargetTag(c) = AuthTag(c.tool, c.hash) => c.auth # "none"
      BY TagFacts DEF TargetTag
    <3>5. QED
      BY <1>2, <2>1, <2>2, <2>3, <2>4, <2>6, <3>2, <3>3, <3>4, CurrentByCreate DEF Resolved, Working
  <2>7. CASE ~NothingNew(c) /\ store' = [store EXCEPT ![TargetTag(c)] = Committed(c)] /\ Become(p, next)
    <3>1. /\ store'[TargetTag(c)] # None
          /\ TargetTag(c) = AuthTag(c.tool, c.hash) => Attempted(store'[TargetTag(c)].state[c.tool])
      BY <2>1, <2>7, LabelOfTarget
    <3>2. QED
      BY <1>2, <2>1, <2>2, <2>3, <2>4, <2>7, <3>1, CurrentByCreate DEF Resolved, Working
  <2>8. QED
    BY <1>4, <2>1, <2>3, <2>5, <2>6, <2>7
<1>14. CASE Interrupt(p)
  BY <1>4, <1>14, LabelsOfWrites DEF Interrupt
<1>15. QED
  BY <1>5, <1>6, <1>7, <1>8, <1>9, <1>10, <1>11, <1>12, <1>13, <1>14 DEF Step

-----------------------------------------------------------------------------
Fit(image, c) == c.tool \in image.holds /\ image.fit /\ (c.wants => image.capable)

\* The default image that was found is fit up to the container made from it.
FoundOf(c) ==
    c.found =>
        /\ c.pc # "default"
        /\ c.pc \in {"resolve", "confirm", "create"} =>
              c.image = Base /\ store[Base] # None /\ Fit(store[Base], c)
        /\ c.pc = "resolve" => c.tool \in store[Base].tools
        /\ c.pc = "inject" => Fit(c.box, c)

FoundInv == ~raced => \A p \in Creates : FoundOf(create[p])

\* A create's step keeps it when it holds of that create.
LEMMA FoundByCreate ==
  ASSUME ImageTypeOK, FoundInv, NEW p \in Creates, NEW d, Become(p, d),
         ~raced' => /\ ~raced
                    /\ \A q \in Creates : q # p => ~Active(q) /\ create'[q] = create[q],
         ~raced /\ d.found =>
            /\ d.pc # "default"
            /\ d.pc \in {"resolve", "confirm", "create"} =>
                  d.image = Base /\ store'[Base] # None /\ Fit(store'[Base], d)
            /\ d.pc = "resolve" => d.tool \in store'[Base].tools
            /\ d.pc = "inject" => Fit(d.box, d)
  PROVE  FoundInv'
<1> SUFFICES ASSUME ~raced', NEW q \in Creates PROVE FoundOf(create[q])'
  BY DEF FoundInv
<1>1. create'[p] = d
  BY BecomeOne
<1>2. CASE q = p
  BY <1>1, <1>2 DEF FoundOf, Fit
<1>3. CASE q # p
  <2>1. ~Active(q) /\ create'[q] = create[q]
    BY <1>3
  <2>2. QED
    BY <2>1 DEF FoundOf, Active
<1>4. QED
  BY <1>2, <1>3

\* Every step of a create keeps the default image found fit.
LEMMA FoundStep ==
  ASSUME ImageTypeOK, LabelInv, AloneInv, FoundInv, NEW p \in Creates, Step(p)
  PROVE  FoundInv'
<1> DEFINE c == create[p]
<1>1. ~raced => FoundOf(c)
  BY DEF FoundInv
<1>2. ~raced' => /\ ~raced
                 /\ \A q \in Creates : q # p => ~Active(q) /\ create'[q] = create[q]
  BY AloneStep
<1>3. ASSUME NEW d, Become(p, d), ~d.found PROVE FoundInv'
  BY <1>2, <1>3, FoundByCreate
<1>4. ASSUME Become(p, Failed) PROVE FoundInv'
  <2>1. ~Failed.found
    BY NewType DEF Failed, New
  <2>2. QED
    BY <1>3, <1>4, <2>1
<1>5. CASE Begin(p)
  <2>1. PICK d \in Create : Become(p, d) /\ d.found = FALSE
    BY <1>5, BeginStep
  <2>2. QED
    BY <1>3, <2>1
<1>6. CASE FindDefault(p)
  <2> DEFINE d == [c EXCEPT !.pc = "resolve", !.image = Base, !.found = TRUE]
  <2>1. c \in Create /\ Become(p, d) /\ UNCHANGED store /\ Candidate(c.tool, c.wants)
    BY <1>6, FindDefaultStep
  <2>2. d.pc = "resolve" /\ d.image = Base /\ d.tool = c.tool /\ d.wants = c.wants
    BY <2>1 DEF Create
  <2>3. store[Base] # None /\ At(Base) = store[Base]
    BY <2>1, TagFacts DEF Candidate, Compatible, Exists, At
  <2> HIDE DEF d
  <2>4. Fit(store[Base], d) /\ d.tool \in store[Base].tools
    BY <2>1, <2>2, <2>3 DEF Candidate, Valid, Fit
  <2>5. QED
    BY <1>2, <2>1, <2>2, <2>3, <2>4, FoundByCreate
<1>7. CASE BuildDefault(p)
  <2> DEFINE d == [c EXCEPT !.pc = "resolve", !.image = Base]
  <2>1. c \in Create /\ c.pc = "default" /\ (Become(p, d) \/ Become(p, Failed))
    BY <1>7, BuildDefaultStep
  <2>2. d.pc = "resolve" /\ d.found = c.found
    BY <2>1 DEF Create
  <2> HIDE DEF d
  <2>3. ~raced => ~d.found
    BY <1>1, <2>1, <2>2 DEF FoundOf
  <2>4. CASE Become(p, d)
    BY <1>2, <2>3, <2>4, FoundByCreate
  <2>5. QED
    BY <1>4, <2>1, <2>4
<1>8. CASE Resolve(p)
  <2>1. PICK r : LET d == [c EXCEPT !.pc = "confirm", !.image = r.ref, !.state = r.state,
                                    !.compatible = r.compatible]
                 IN  /\ c \in Create /\ Working(c) /\ c.pc = "resolve"
                     /\ Leads(r, c.image, c.tool, c.hash)
                     /\ Become(p, d) /\ UNCHANGED store
    BY <1>8, ResolveStep
  <2> DEFINE d == [c EXCEPT !.pc = "confirm", !.image = r.ref, !.state = r.state,
                            !.compatible = r.compatible]
  <2>2. /\ d.pc = "confirm" /\ d.image = r.ref /\ d.tool = c.tool /\ d.wants = c.wants
        /\ d.found = c.found
    BY <2>1 DEF Create
  <2>3. Become(p, d) /\ UNCHANGED store
    BY <2>1
  <2> HIDE DEF d
  <2>4. ASSUME ~raced, d.found
        PROVE  d.image = Base /\ store[Base] # None /\ Fit(store[Base], d)
    <3>1. /\ c.image = Base /\ store[Base] # None /\ Fit(store[Base], c)
          /\ c.tool \in store[Base].tools /\ c.tool \in Tools
      BY <1>1, <2>1, <2>2, <2>4 DEF FoundOf, Working
    <3>2. ToolState(Base, c.tool) # "absent"
      BY <3>1, TagFacts DEF LabelInv, BaseLike, ToolState, Exists, At
    <3>3. QED
      BY <2>1, <2>2, <3>1, <3>2 DEF Leads, Fit
  <2>5. QED
    BY <1>2, <2>2, <2>3, <2>4, FoundByCreate
<1>9. CASE ConfirmSecrets(p)
  <2>1. /\ c \in Create /\ c.pc = "confirm" /\ UNCHANGED store
        /\ \/ \E s \in BOOLEAN : Become(p, [c EXCEPT !.pc = "create", !.secrets = s])
           \/ Become(p, Failed)
    BY <1>9, ConfirmStep
  <2>2. ASSUME NEW s \in BOOLEAN, Become(p, [c EXCEPT !.pc = "create", !.secrets = s])
        PROVE  FoundInv'
    <3> DEFINE d == [c EXCEPT !.pc = "create", !.secrets = s]
    <3>1. /\ d.pc = "create" /\ d.image = c.image /\ d.tool = c.tool /\ d.wants = c.wants
          /\ d.found = c.found
      BY <2>1 DEF Create
    <3>2. Become(p, d)
      BY <2>2
    <3> HIDE DEF d
    <3>3. QED
      BY <1>1, <1>2, <2>1, <3>1, <3>2, FoundByCreate DEF FoundOf, Fit
  <2>3. QED
    BY <1>4, <2>1, <2>2
<1>10. CASE StartContainer(p)
  <2>1. c \in Create /\ c.pc = "create" /\ UNCHANGED store
    BY <1>10, StartStep
  <2>2. ASSUME NEW auth, Become(p, [c EXCEPT !.pc = "inject", !.box = At(c.image), !.auth = auth])
        PROVE  FoundInv'
    <3> DEFINE d == [c EXCEPT !.pc = "inject", !.box = At(c.image), !.auth = auth]
    <3>1. /\ d.pc = "inject" /\ d.box = At(c.image) /\ d.tool = c.tool /\ d.wants = c.wants
          /\ d.found = c.found
      BY <2>1 DEF Create
    <3>2. Become(p, d)
      BY <2>2
    <3> HIDE DEF d
    <3>3. ~raced /\ d.found => Fit(d.box, d)
      BY <1>1, <2>1, <3>1, TagFacts DEF FoundOf, Fit, At
    <3>4. QED
      BY <1>2, <3>1, <3>2, <3>3, FoundByCreate
  <2>3. QED
    BY <1>4, <1>10, <2>1, <2>2, StartStep
<1>11. CASE InjectAuthentication(p)
  <2> DEFINE next == [c EXCEPT !.pc = "upgrade", !.auth = ResultOf(c)]
  <2> DEFINE done == [next EXCEPT !.box.credentials = @ \cup {c.tool}, !.copies = "done"]
  <2> DEFINE lost == [next EXCEPT !.copies = "failed"]
  <2>1. /\ c \in Create /\ c.pc = "inject"
        /\ Become(p, next) \/ Become(p, done) \/ Become(p, lost)
    BY <1>11, InjectStep
  <2>2. next.pc = "upgrade" /\ done.pc = "upgrade" /\ lost.pc = "upgrade"
    BY <2>1 DEF Create
  <2> HIDE DEF next, done, lost
  <2>3. PICK d \in {next, done, lost} : Become(p, d)
    BY <2>1
  <2>4. d.pc = "upgrade"
    BY <2>2
  <2>5. QED
    BY <1>2, <2>3, <2>4, FoundByCreate
<1>12. CASE UpgradeBase(p)
  <2> DEFINE next == [c EXCEPT !.pc = "commit", !.image = IF c.compatible THEN @ ELSE Base]
  <2>1. c \in Create /\ (Become(p, next) \/ Become(p, Failed))
    BY <1>12, UpgradeStep
  <2>2. next.pc = "commit"
    BY <2>1 DEF Create
  <2> HIDE DEF next
  <2>3. QED
    BY <1>2, <1>4, <2>1, <2>2, FoundByCreate
<1>13. CASE CommitTool(p)
  <2> DEFINE next == [c EXCEPT !.pc = "ended", !.image = IF NothingNew(c) THEN @ ELSE TargetTag(c)]
  <2>1. c \in Create /\ (Become(p, next) \/ Become(p, Failed))
    BY <1>13, CommitStep
  <2>2. next.pc = "ended"
    BY <2>1 DEF Create
  <2> HIDE DEF next
  <2>3. QED
    BY <1>2, <1>4, <2>1, <2>2, FoundByCreate
<1>14. CASE Interrupt(p)
  BY <1>4, <1>14 DEF Interrupt
<1>15. QED
  BY <1>5, <1>6, <1>7, <1>8, <1>9, <1>10, <1>11, <1>12, <1>13, <1>14 DEF Step

-----------------------------------------------------------------------------
ImageInv ==
    /\ ImageTypeOK /\ LabelInv /\ PathInv /\ CopiesInv /\ HeldInv /\ AloneInv /\ CurrentInv
    /\ FoundInv

\* The invariant holds initially,
LEMMA ImageInvInit == ImageInit => ImageInv
<1> SUFFICES ASSUME ImageInit PROVE ImageInv
  OBVIOUS
<1>1. ImageTypeOK
  BY ImageTypeInit
<1>2. \A p \in Creates : create[p] = New
  BY DEF ImageInit
<1>3. LabelInv
  <2>1. store[Base] = None
    BY InitialImages, TagFacts
  <2>2. \A t \in Tools : \A h \in HashesOf(t) : store[InstalledTag(t, h)] = None
    BY InitialImages, TagFacts, TagsOfTool
  <2>3. QED
    BY <2>1, <2>2 DEF LabelInv
<1>4. PathInv /\ CopiesInv
  BY <1>2, NewType DEF PathInv, PathOf, CopiesInv, CopiesOf, Resolved
<1>5. HeldInv
  <2>1. \A tag \in Tags : store[tag] # None =>
           \A t \in Tools : store[tag].state[t] \in {"installed", "absent"}
    BY InitialImages
  <2>2. HeldByImages
    BY <2>1, TagsOfTool DEF HeldByImages, EarnedImage, Attempted
  <2>3. \A p \in Creates : HeldOf(create[p])
    BY <1>2, NewType DEF HeldOf
  <2>4. QED
    BY <2>2, <2>3 DEF HeldInv
<1>6. AloneInv /\ CurrentInv
  BY <1>2, NewType DEF AloneInv, Active, CurrentInv, CurrentOf, Resolved
<1>7. FoundInv
  BY <1>2, NewType DEF FoundInv, FoundOf
<1>8. QED
  BY <1>1, <1>3, <1>4, <1>5, <1>6, <1>7 DEF ImageInv

\* every step keeps it, of a create and of the user,
LEMMA ImageInvStep == ImageInv /\ [ImageNext]_image_vars => ImageInv'
<1> SUFFICES ASSUME ImageInv, [ImageNext]_image_vars PROVE ImageInv'
  OBVIOUS
<1>1. /\ ImageTypeOK /\ LabelInv /\ PathInv /\ CopiesInv /\ HeldInv /\ AloneInv /\ CurrentInv
      /\ FoundInv
  BY DEF ImageInv
<1>2. ImageTypeOK'
  BY <1>1, ImageTypeStep
<1>3. ASSUME NEW p \in Creates, Step(p) PROVE ImageInv'
  BY <1>1, <1>2, <1>3, PathStep, CopiesStep, HeldStep, AloneStep, CurrentStep, FoundStep DEF ImageInv
<1>4. ASSUME UNCHANGED <<store, create, raced>> PROVE ImageInv'
  <2>1. LabelInv' /\ PathInv' /\ CopiesInv'
    BY <1>1, <1>4 DEF LabelInv, PathInv, CopiesInv
  <2>2. HeldInv'
    BY <1>1, <1>4 DEF HeldInv, HeldByImages, HeldOf
  <2>3. AloneInv' /\ CurrentInv' /\ FoundInv'
    BY <1>1, <1>4 DEF AloneInv, Active, CurrentInv, CurrentOf, FoundInv, FoundOf
  <2>4. QED
    BY <1>2, <2>1, <2>2, <2>3 DEF ImageInv
<1>5. ASSUME NEW t \in Configured, NEW h \in Manifests, Edit(t, h) PROVE ImageInv'
  BY <1>4, <1>5 DEF Edit
<1>6. ASSUME NEW tag \in Tags, Remove(tag) PROVE ImageInv'
  <2>1. /\ store'[tag] = None /\ \A other \in Tags : other # tag => store'[other] = store[other]
        /\ UNCHANGED create /\ raced' = TRUE
    BY <1>1, <1>6, WriteType DEF Remove
  <2>2. LabelInv'
    BY <1>1, <2>1, TagFacts, TagsOfTool DEF LabelInv
  <2>3. PathInv' /\ CopiesInv'
    BY <1>1, <2>1 DEF PathInv, CopiesInv
  <2>4. HeldInv'
    <3>1. EarnedWrites
      BY <2>1 DEF EarnedWrites
    <3>2. HeldByImages' /\ \A q \in Creates : HeldOf(create[q])'
      BY <1>1, <2>1, <3>1, HeldWrites
    <3>3. QED
      BY <3>2 DEF HeldInv
  <2>5. AloneInv' /\ CurrentInv' /\ FoundInv'
    BY <2>1 DEF AloneInv, CurrentInv, FoundInv
  <2>6. QED
    BY <1>2, <2>2, <2>3, <2>4, <2>5 DEF ImageInv
<1>7. CASE UNCHANGED image_vars
  BY <1>4, <1>7 DEF image_vars
<1>8. QED
  BY <1>3, <1>5, <1>6, <1>7 DEF ImageNext

\* and so it always holds.
LEMMA ImageInvHolds == ImageSpec => []ImageInv
BY ImageInvInit, ImageInvStep, PTL DEF ImageSpec

\* An image labelled "authenticated" holds the credentials, or the record says whose commit
\* failed to put them there: for every number of creates, tools and manifests.
THEOREM EarnedLabelsCorrect == ImageSpec => []EarnedLabels
<1>1. ImageInv => EarnedLabels
  <2> SUFFICES ASSUME ImageInv, NEW tag \in Tags, NEW t \in Tools, ToolState(tag, t) = "authenticated"
               PROVE  t \in store[tag].credentials \cup store[tag].unearned
    BY DEF EarnedLabels
  <2>1. tag # Raw
    BY TagFacts
  <2>2. store[tag] # None /\ store[tag].state[t] = "authenticated"
    BY <2>1 DEF ToolState, Exists, At
  <2>3. QED
    BY <2>2 DEF ImageInv, HeldInv, HeldByImages, EarnedImage, Has
<1>2. QED
  BY <1>1, ImageInvHolds, PTL

\* A container of a tool whose credentials are copied has them, or the copy failed here or when
\* its image was committed, in every interleaving of creates and removals.
THEOREM ContainerHasCredentialsCorrect == ImageSpec => []ContainerHasCredentials
<1>1. ImageInv => ContainerHasCredentials
  BY DEF ImageInv, HeldInv, HeldOf, Copier, Has, ContainerHasCredentials
<1>2. QED
  BY <1>1, ImageInvHolds, PTL

\* Without an overlap, the image a sandbox records is there with the label of its tag's form.
THEOREM RecordedImageIsCurrentCorrect == ImageSpec => []RecordedImageIsCurrent
<1>1. ImageInv => RecordedImageIsCurrent
  <2> SUFFICES ASSUME ImageInv, ~raced, NEW p \in Creates,
                      create[p].pc = "ended", create[p].image # Base
               PROVE  /\ Exists(create[p].image)
                      /\ create[p].image[1] = "auth" <=> Attempted(ToolState(create[p].image, create[p].tool))
    BY DEF RecordedImageIsCurrent
  <2> DEFINE c == create[p]
  <2>1. /\ Working(c) /\ store[c.image] # None
        /\ c.image \in {AuthTag(c.tool, c.hash), InstalledTag(c.tool, c.hash)}
        /\ c.image = AuthTag(c.tool, c.hash) => Attempted(store[c.image].state[c.tool])
    BY DEF ImageInv, CurrentInv, CurrentOf
  <2>2. Exists(c.image) /\ ToolState(c.image, c.tool) = store[c.image].state[c.tool]
    BY <2>1, TagFacts DEF Exists, ToolState, At
  <2>3. CASE c.image = AuthTag(c.tool, c.hash)
    <3>1. c.image[1] = "auth"
      BY <2>3, TagFacts
    <3>2. Attempted(ToolState(c.image, c.tool))
      BY <2>1, <2>2, <2>3
    <3>3. QED
      BY <2>2, <3>1, <3>2
  <2>4. CASE c.image = InstalledTag(c.tool, c.hash)
    <3>1. store[c.image].state[c.tool] = "installed"
      BY <2>1, <2>4 DEF ImageInv, LabelInv, Working
    <3>2. c.image[1] # "auth"
      BY <2>4, TagFacts
    <3>3. QED
      BY <2>2, <3>1, <3>2 DEF Attempted
  <2>5. QED
    BY <2>1, <2>3, <2>4
<1>2. QED
  BY <1>1, ImageInvHolds, PTL

\* Without an overlap, a default image that was found has the working tool and the capabilities.
THEOREM DefaultIsFitCorrect == ImageSpec => []DefaultIsFit
<1>1. ImageInv => DefaultIsFit
  BY DEF ImageInv, FoundInv, FoundOf, Fit, DefaultIsFit
<1>2. QED
  BY <1>1, ImageInvHolds, PTL
=============================================================================
