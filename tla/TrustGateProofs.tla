--------------------------- MODULE TrustGateProofs ---------------------------
(***************************************************************************)
(* What holds of the trust decisions for any repositories, manifests,      *)
(* names, edits and commands: the types, that a marker is something the    *)
(* user confirmed, that nothing runs that was not, and that the tool is    *)
(* the user's choice.                                                      *)
(***************************************************************************)
EXTENDS TrustGate, FiniteSetTheorems, TLAPS

-----------------------------------------------------------------------------
(***************************************************************************)
(* What is registered.                                                     *)
(***************************************************************************)
Snapshots == {Readable(c) : c \in Contents}

\* A repository's readable manifests are no marker for nothing, nor is the pair with it.
LEMMA Pairs ==
    ASSUME NEW r \in Repos, NEW s \in Snapshots
    PROVE  s # Nothing /\ <<r, s>> # Nothing /\ <<r, s>> # Own /\ <<r, s>> \in Sets
<1>1. PICK c \in Contents : s = Readable(c)
  BY DEF Snapshots
<1>2. s \subseteq c
  BY <1>1 DEF Readable
<1>3. s # Nothing /\ <<r, s>> # Nothing
  BY <1>2, TrustAssumption
<1>4. QED
  BY <1>1, <1>3 DEF Sets, Own

\* What is on disk, as it is read.
LEMMA Reading ==
    ASSUME disk \in [Repos -> Contents]
    PROVE  \A r \in Repos : Readable(disk[r]) \in Snapshots
BY DEF Snapshots

\* A name is registered for the repository that declares it, or stays as it was.
LEMMA Registering ==
    ASSUME disk \in [Repos -> Contents], NEW n \in Names
    PROVE  \/ Registered[n] = registry[n]
           \/ \E r \in Repos : /\ Registered[n] = <<r, Readable(disk[r])>>
                               /\ Readable(disk[r]) # {}
<1>1. CASE \E r \in Repos : n \in Declares(disk[r])
  <2>1. PICK r \in Repos : r = CHOOSE s \in Repos : n \in Declares(disk[s])
    BY <1>1
  <2>2. Registered[n] = <<r, Readable(disk[r])>>
    BY <1>1, <2>1 DEF Registered
  <2>3. n \in Declares(disk[r])
    BY <1>1, <2>1
  <2>4. Readable(disk[r]) # {}
    BY <2>3 DEF Declares, Accepted
  <2>5. QED
    BY <2>2, <2>4
<1>2. CASE ~ \E r \in Repos : n \in Declares(disk[r])
  BY <1>2 DEF Registered
<1>3. QED
  BY <1>1, <1>2

\* The user's own tool is a name.
LEMMA Falling ==
    ASSUME loaded.mine \in Names \cup {Nothing}
    PROVE  Fallback \in Names
BY TrustAssumption DEF Fallback

-----------------------------------------------------------------------------
(***************************************************************************)
(* Types.                                                                  *)
(***************************************************************************)
LEMMA TypeInit == Init => TypeOK
<1> SUFFICES ASSUME Init PROVE TypeOK
  OBVIOUS
<1>1. Readable({}) = {}
  BY DEF Readable
<1>2. disk \in [Repos -> Contents] /\ snapshot \in [Repos -> {Readable(c) : c \in Contents}]
  BY <1>1, TrustAssumption DEF Init
<1>3. /\ wants \in [Repos -> Names \cup {Nothing}] /\ mine \in Names \cup {Nothing}
      /\ loaded \in [wants : [Repos -> Names \cup {Nothing}], mine : Names \cup {Nothing}]
  BY DEF Init
<1>4. /\ marker \in [Repos -> {Nothing} \cup {Readable(c) : c \in Contents}]
      /\ preference \in [Repos -> {Nothing} \cup [value : Names, choice : Choices]]
      /\ picked \in [Repos \X Names -> Choices \cup {Nothing}]
  BY DEF Init
<1>5. registry \in [Names -> Sets \cup {Own, Nothing}]
  BY DEF Init, Fresh
<1>6. edits \in 0..MaxEdits /\ runs \in 0..MaxRuns
  BY TrustAssumption DEF Init
<1>7. QED
  BY <1>2, <1>3, <1>4, <1>5, <1>6 DEF Init, TypeOK

\* Every action keeps the types.
LEMMA TypeStep == TypeOK /\ [Next]_vars => TypeOK'
<1> SUFFICES ASSUME TypeOK, [Next]_vars PROVE TypeOK'
  OBVIOUS
<1> USE DEF files, process, history, Goto
<1>s. ASSUME Stop PROVE TypeOK'
  BY <1>s DEF Stop, TypeOK
<1>u. ASSUME NEW name \in Names, Use(name),
             preference' \in [Repos -> {Nothing} \cup [value : Names, choice : Choices]],
             picked' \in [Repos \X Names -> Choices \cup {Nothing}]
      PROVE  TypeOK'
  <2>1. tool' \in Names /\ pc' \in {"idle", "verify"}
    BY <1>u DEF Use
  <2>2. UNCHANGED <<disk, wants, mine, marker, sandbox, command, tty, opt_in, flag, loaded,
                    registry, snapshot, todo, approved, waived, executed, edits, runs>>
    BY <1>u DEF Use
  <2>3. QED
    BY <1>u, <2>1, <2>2 DEF TypeOK
<1>1. ASSUME NEW cmd \in {"create", "resume"}, NEW name \in Names \cup {Nothing}, Begin(cmd, name)
      PROVE  TypeOK'
  <2>1. registry' \in [Names -> Sets \cup {Own, Nothing}]
    BY <1>1 DEF Begin, Fresh
  <2>2. runs' \in 0..MaxRuns
    BY <1>1, TrustAssumption DEF Begin, TypeOK
  <2>3. QED
    BY <1>1, <2>1, <2>2 DEF Begin, TypeOK
<1>2. CASE Register
  <2>1. CASE Collides /\ Stop
    BY <2>1, <1>s
  <2>2. CASE ~(Collides /\ Stop)
    <3>1. snapshot' = [r \in Repos |-> Readable(disk[r])] /\ registry' = Registered
      BY <1>2, <2>2 DEF Register
    <3>2. snapshot' \in [Repos -> {Readable(c) : c \in Contents}]
      BY <3>1, Reading DEF TypeOK, Snapshots
    <3>3. \A n \in Names : Registered[n] \in Sets \cup {Own, Nothing}
      <4> SUFFICES ASSUME NEW n \in Names PROVE Registered[n] \in Sets \cup {Own, Nothing}
        OBVIOUS
      <4>1. disk \in [Repos -> Contents] /\ registry[n] \in Sets \cup {Own, Nothing}
        BY DEF TypeOK
      <4>2. \A r \in Repos : <<r, Readable(disk[r])>> \in Sets
        BY <4>1, Reading, Pairs
      <4>3. QED
        BY <4>1, <4>2, Registering
    <3>4. registry' \in [Names -> Sets \cup {Own, Nothing}]
      BY <3>1, <3>3 DEF Registered
    <3>5. loaded' \in [wants : [Repos -> Names \cup {Nothing}], mine : Names \cup {Nothing}]
      <4>1. loaded' \in {loaded, [wants |-> wants, mine |-> mine]}
        BY <1>2, <2>2 DEF Register
      <4>2. /\ loaded \in [wants : [Repos -> Names \cup {Nothing}], mine : Names \cup {Nothing}]
            /\ wants \in [Repos -> Names \cup {Nothing}] /\ mine \in Names \cup {Nothing}
        BY DEF TypeOK
      <4>3. QED
        BY <4>1, <4>2
    <3>6. todo' \subseteq Repos /\ pc' \in {"lookup", "choose", "verify again"}
      BY <1>2, <2>2 DEF Register, TypeOK
    <3>7. UNCHANGED <<files, command, tty, opt_in, flag, tool, history, edits, runs>>
      BY <1>2, <2>2 DEF Register
    <3>8. QED
      BY <3>2, <3>4, <3>5, <3>6, <3>7 DEF TypeOK
  <2>3. QED
    BY <2>1, <2>2
<1>3. CASE Lookup
  <2>1. CASE Stop
    BY <2>1, <1>s
  <2>2. CASE ~Stop
    <3>1. pc' = "again" /\ UNCHANGED <<files, command, tty, opt_in, flag, loaded, tool, registry,
                                       snapshot, todo, history, edits, runs>>
      BY <1>3, <2>2 DEF Lookup
    <3>2. QED
      BY <3>1 DEF TypeOK
  <2>3. QED
    BY <2>1, <2>2
<1>4. CASE UseNamed
  <2>1. /\ preference' \in [Repos -> {Nothing} \cup [value : Names, choice : Choices]]
        /\ picked' \in [Repos \X Names -> Choices \cup {Nothing}]
    BY <1>4 DEF UseNamed, TypeOK
  <2>2. flag \in Names \cup {Nothing} /\ Fallback \in Names
    BY Falling DEF TypeOK
  <2>3. QED
    BY <1>4, <2>1, <2>2, <1>u DEF UseNamed
<1>5. CASE RefuseTool
  BY <1>5, <1>s DEF RefuseTool
<1>6. ASSUME NEW name \in Names, OptInTool(name)
      PROVE  TypeOK'
  BY <1>6, <1>u DEF OptInTool, TypeOK
<1>7. ASSUME NEW name \in Names, NEW choice \in Choices, UseStored(name, choice)
      PROVE  TypeOK'
  <2>1. Fallback \in Names
    BY Falling DEF TypeOK
  <2>2. QED
    BY <1>7, <2>1, <1>u DEF UseStored, TypeOK
<1>8. ASSUME NEW name \in Names, NEW choice \in Choices, AskForTool(name, choice)
      PROVE  TypeOK'
  <2>1. [value |-> name, choice |-> choice] \in [value : Names, choice : Choices]
    OBVIOUS
  <2>2. preference' \in [Repos -> {Nothing} \cup [value : Names, choice : Choices]]
    BY <1>8, <2>1 DEF AskForTool, TypeOK
  <2>3. picked' \in [Repos \X Names -> Choices \cup {Nothing}]
    BY <1>8 DEF AskForTool, TypeOK
  <2>4. Fallback \in Names
    BY Falling DEF TypeOK
  <2>5. QED
    BY <1>8, <2>2, <2>3, <2>4, <1>u DEF AskForTool
<1>9. ASSUME NEW r \in Repos, Skip(r) \/ Confirm(r) \/ Waive(r) \/ Decline(r)
      PROVE  TypeOK'
  <2>0. snapshot[r] \in {Readable(c) : c \in Contents} /\ <<r, snapshot[r]>> \in Sets
    BY Pairs DEF TypeOK, Snapshots
  <2>1. CASE Skip(r)
    BY <2>1 DEF Skip, Verified, TypeOK
  <2>2. CASE Confirm(r)
    <3>1. marker' \in [Repos -> {Nothing} \cup {Readable(c) : c \in Contents}]
      BY <2>0, <2>2 DEF Confirm, TypeOK
    <3>2. approved' \subseteq Sets
      BY <2>0, <2>2 DEF Confirm, TypeOK
    <3>3. QED
      BY <2>2, <3>1, <3>2 DEF Confirm, Verified, TypeOK
  <2>3. CASE Waive(r)
    <3>1. waived' \subseteq Sets
      BY <2>0, <2>3 DEF Waive, TypeOK
    <3>2. QED
      BY <2>3, <3>1 DEF Waive, Verified, TypeOK
  <2>4. CASE Decline(r)
    BY <2>4, <1>s DEF Decline
  <2>5. QED
    BY <1>9, <2>1, <2>2, <2>3, <2>4
<1>10. CASE Build
  BY <1>10 DEF Build, Provided, TypeOK
<1>11. CASE Launch
  BY <1>11 DEF Launch, Provided, TypeOK
<1>12. CASE Edit
  <2>0. edits < MaxEdits /\ edits' = edits + 1 /\ edits \in 0..MaxEdits
    BY <1>12 DEF Edit, TypeOK
  <2>1. edits' \in 0..MaxEdits
    BY <2>0, TrustAssumption
  <2>a. disk' = disk \/ \E r \in Repos, c \in Contents : disk' = [disk EXCEPT ![r] = c]
    BY <1>12 DEF Edit
  <2>b. \/ wants' = wants
        \/ \E r \in Repos, n \in Names \cup {Nothing} : wants' = [wants EXCEPT ![r] = n]
    BY <1>12 DEF Edit
  <2>c. mine' = mine \/ mine' \in Names \cup {Nothing}
    BY <1>12 DEF Edit
  <2>2. /\ disk' \in [Repos -> Contents]
        /\ wants' \in [Repos -> Names \cup {Nothing}] /\ mine' \in Names \cup {Nothing}
    <3>1. disk' \in [Repos -> Contents]
      BY <2>a DEF TypeOK
    <3>2. wants' \in [Repos -> Names \cup {Nothing}]
      BY <2>b DEF TypeOK
    <3>3. mine' \in Names \cup {Nothing}
      BY <2>c DEF TypeOK
    <3>4. QED
      BY <3>1, <3>2, <3>3
  <2>3. /\ marker' \in [Repos -> {Nothing} \cup {Readable(c) : c \in Contents}]
        /\ preference' \in [Repos -> {Nothing} \cup [value : Names, choice : Choices]]
    BY <1>12 DEF Edit, TypeOK
  <2>4. UNCHANGED <<sandbox, process, history, runs>>
    BY <1>12 DEF Edit
  <2>5. QED
    BY <2>1, <2>2, <2>3, <2>4 DEF TypeOK
<1>13. CASE UNCHANGED vars
  BY <1>13 DEF vars, TypeOK
<1>14. QED
  BY <1>1, <1>2, <1>3, <1>4, <1>5, <1>6, <1>7, <1>8, <1>9, <1>10, <1>11, <1>12, <1>13
     DEF Next, Verify

\* The types hold in every state, for any repositories, manifests and bounds.
THEOREM TypeCorrect == Spec => []TypeOK
<1>1. QED
  BY TypeInit, TypeStep, PTL DEF Spec

-----------------------------------------------------------------------------
(***************************************************************************)
(* The tool is the user's choice.                                          *)
(***************************************************************************)
\* What is decided depends on the command's options and on what it has loaded.
LEMMA Deciding ==
    ASSUME UNCHANGED <<loaded, flag>>
    PROVE  /\ Fallback' = Fallback /\ Participating' = Participating
           /\ \A name : Proposed(name)' = Proposed(name)
BY DEF Fallback, Participating, Proposals, Proposed

\* A stored preference is the user's last choice for its value.
PickInv ==
    \A r \in Repos, name \in Names, choice \in Choices :
        preference[r] = [value |-> name, choice |-> choice] => picked[<<r, name>>] = choice

ToolInv == PickInv /\ TheUserChoseTheTool /\ (pc = "lookup" => command = "resume")

\* What counts as stored was chosen in every repository that asks.
LEMMA Storing ==
    ASSUME PickInv, NEW name \in Names, NEW choice \in Choices, Stored(name, choice)
    PROVE  \A r \in Participating : picked[<<r, name>>] = choice
<1>1. Participating \subseteq Repos /\ IsFiniteSet(Participating)
  BY TrustAssumption, FS_Subset DEF Participating
<1>2. PICK x : Participating = {x}
  BY <1>1, FS_Singleton DEF Stored
<1>3. preference[x] = [value |-> name, choice |-> choice]
  BY <1>2 DEF Stored
<1>4. QED
  BY <1>1, <1>2, <1>3 DEF PickInv

\* Nothing has been chosen at first.
LEMMA ToolInit == Init => ToolInv
<1> SUFFICES ASSUME Init PROVE ToolInv
  OBVIOUS
<1>1. \A r \in Repos : preference[r] = Nothing
  BY DEF Init
<1>2. PickInv
  BY <1>1, TrustAssumption DEF PickInv, Choices
<1>3. QED
  BY <1>2 DEF ToolInv, TheUserChoseTheTool, Init

\* Every action keeps ToolInv.
LEMMA ToolStep == TypeOK /\ ToolInv /\ [Next]_vars => ToolInv'
<1> SUFFICES ASSUME TypeOK, ToolInv, [Next]_vars PROVE ToolInv'
  OBVIOUS
<1> USE DEF files, process, history, Goto
\* Steps that decide nothing: what was decided stands, or the command ends or begins.
<1>k. ASSUME UNCHANGED <<preference, picked>>, pc' = "lookup" => command' = "resume",
             \/ pc' \notin {"verify", "again", "verify again"}
             \/ command' # "create"
             \/ /\ UNCHANGED <<loaded, flag, tool, tty, opt_in, command>>
                /\ pc \in {"verify", "again", "verify again"}
      PROVE  ToolInv'
  <2>1. PickInv'
    BY <1>k DEF ToolInv, PickInv
  <2>2. CASE pc' \notin {"verify", "again", "verify again"} \/ command' # "create"
    BY <1>k, <2>1, <2>2 DEF ToolInv, TheUserChoseTheTool
  <2>3. CASE ~(pc' \notin {"verify", "again", "verify again"} \/ command' # "create")
    <3>1. UNCHANGED <<loaded, flag, tool, tty, opt_in, command, picked>>
      BY <1>k, <2>3
    <3>2. pc \in {"verify", "again", "verify again"} /\ command = "create"
      BY <1>k, <2>3
    <3>3. ASSUME NEW name \in Names, Proposed(name)'
          PROVE  \/ tool' = name /\ ~tty' /\ "default_tool" \in opt_in'
                 \/ \E choice \in Choices :
                     /\ tool' = (IF choice = "repository" THEN name ELSE Fallback')
                     /\ \A r \in Participating' : picked'[<<r, name>>] = choice
      <4>1. Proposed(name) /\ Fallback' = Fallback /\ Participating' = Participating
        BY <3>1, <3>3, Deciding
      <4>2. QED
        BY <3>1, <3>2, <4>1 DEF ToolInv, TheUserChoseTheTool
    <3>4. TheUserChoseTheTool'
      BY <3>3 DEF TheUserChoseTheTool
    <3>5. QED
      BY <1>k, <2>1, <3>4 DEF ToolInv
  <2>4. QED
    BY <2>2, <2>3
<1>s. ASSUME Stop PROVE ToolInv'
  BY <1>s, <1>k DEF Stop
\* Choosing: what is asked for is one name.
<1>u. ASSUME NEW chosen \in Names, Use(chosen), PickInv', pc = "choose",
             \A name \in Names : Proposed(name) =>
                \/ chosen = name /\ ~tty /\ "default_tool" \in opt_in
                \/ \E choice \in Choices :
                    /\ chosen = (IF choice = "repository" THEN name ELSE Fallback)
                    /\ \A r \in Participating : picked'[<<r, name>>] = choice
      PROVE  ToolInv'
  <2>1. tool' = chosen /\ pc' # "lookup" /\ UNCHANGED <<loaded, flag, tty, opt_in>>
    BY <1>u DEF Use
  <2>2. QED
    BY <1>u, <2>1, Deciding DEF ToolInv, TheUserChoseTheTool
<1>1. ASSUME NEW cmd \in {"create", "resume"}, NEW name \in Names \cup {Nothing}, Begin(cmd, name)
      PROVE  ToolInv'
  BY <1>1, <1>k DEF Begin
<1>2. CASE Register
  <2>1. CASE Collides /\ Stop
    BY <2>1, <1>s
  <2>2. CASE ~(Collides /\ Stop)
    <3>1. /\ pc = "register" => pc' \in {"choose", "lookup"}
          /\ pc # "register" => pc = "again" /\ pc' = "verify again" /\ loaded' = loaded
          /\ pc' = "lookup" => command # "create"
      BY <1>2, <2>2 DEF Register
    <3>2. UNCHANGED <<files, command, tty, opt_in, flag, tool, history, edits, runs>>
      BY <1>2, <2>2 DEF Register
    <3>3. QED
      BY <3>1, <3>2, <1>k DEF TypeOK
  <2>3. QED
    BY <2>1, <2>2
<1>3. CASE Lookup
  <2>1. CASE Stop
    BY <2>1, <1>s
  <2>2. CASE ~Stop
    <3>1. pc = "lookup" /\ pc' = "again" /\ UNCHANGED <<preference, picked, command>>
      BY <1>3, <2>2 DEF Lookup
    <3>2. command' = "resume"
      BY <3>1 DEF ToolInv
    <3>3. QED
      BY <3>1, <3>2, <1>k
  <2>3. QED
    BY <2>1, <2>2
<1>4. CASE UseNamed
  <2>1. pc = "choose" /\ UNCHANGED <<preference, picked>>
    BY <1>4 DEF UseNamed
  <2>2. PickInv'
    BY <2>1 DEF ToolInv, PickInv
  <2>3. \A name \in Names : ~Proposed(name)
    BY <1>4 DEF UseNamed, Proposed
  <2>4. flag \in Names \cup {Nothing} /\ Fallback \in Names
    BY Falling DEF TypeOK
  <2>5. QED
    BY <1>4, <2>1, <2>2, <2>3, <2>4, <1>u DEF UseNamed
<1>5. CASE RefuseTool
  BY <1>5, <1>s DEF RefuseTool
<1>6. ASSUME NEW name \in Names, OptInTool(name)
      PROVE  ToolInv'
  <2>1. pc = "choose" /\ UNCHANGED <<preference, picked>> /\ ~tty /\ "default_tool" \in opt_in
    BY <1>6 DEF OptInTool
  <2>2. PickInv'
    BY <2>1 DEF ToolInv, PickInv
  <2>3. \A n \in Names : Proposed(n) => n = name
    BY <1>6 DEF OptInTool, Proposed
  <2>4. QED
    BY <1>6, <2>1, <2>2, <2>3, <1>u DEF OptInTool
<1>7. ASSUME NEW name \in Names, NEW choice \in Choices, UseStored(name, choice)
      PROVE  ToolInv'
  <2>1. /\ pc = "choose" /\ UNCHANGED <<preference, picked>> /\ Stored(name, choice)
        /\ Use(IF choice = "repository" THEN name ELSE Fallback)
    BY <1>7 DEF UseStored
  <2>2. PickInv'
    BY <2>1 DEF ToolInv, PickInv
  <2>3. \A n \in Names : Proposed(n) => n = name
    BY <1>7 DEF UseStored, Proposed
  <2>4. \A r \in Participating : picked'[<<r, name>>] = choice
    BY <2>1, Storing DEF ToolInv
  <2>5. (IF choice = "repository" THEN name ELSE Fallback) \in Names
    BY Falling DEF TypeOK
  <2>6. QED
    BY <2>1, <2>2, <2>3, <2>4, <2>5, <1>u
<1>8. ASSUME NEW name \in Names, NEW choice \in Choices, AskForTool(name, choice)
      PROVE  ToolInv'
  <2>1. /\ pc = "choose"
        /\ preference' = [r \in Repos |->
              IF r \in Participating THEN [value |-> name, choice |-> choice] ELSE preference[r]]
        /\ picked' = [x \in Repos \X Names |->
              IF x[1] \in Participating /\ x[2] = name THEN choice ELSE picked[x]]
        /\ Use(IF choice = "repository" THEN name ELSE Fallback)
    BY <1>8 DEF AskForTool
  <2>2. \A r \in Repos, n \in Names :
            picked'[<<r, n>>] = IF r \in Participating /\ n = name THEN choice ELSE picked[<<r, n>>]
    BY <2>1
  <2>3. PickInv'
    <3> SUFFICES ASSUME NEW r \in Repos, NEW n \in Names, NEW c \in Choices,
                        preference'[r] = [value |-> n, choice |-> c]
                 PROVE  picked'[<<r, n>>] = c
      BY DEF PickInv
    <3>1. CASE r \in Participating
      <4>1. preference'[r] = [value |-> name, choice |-> choice]
        BY <2>1, <3>1
      <4>2. n = name /\ c = choice
        BY <4>1
      <4>3. QED
        BY <2>2, <3>1, <4>2
    <3>2. CASE r \notin Participating
      BY <2>1, <2>2, <3>2 DEF ToolInv, PickInv
    <3>3. QED
      BY <3>1, <3>2
  <2>4. \A n \in Names : Proposed(n) => n = name
    BY <1>8 DEF AskForTool, Proposed
  <2>5. \A r \in Participating : picked'[<<r, name>>] = choice
    BY <2>2 DEF Participating
  <2>6. PICK chosen \in Names : chosen = (IF choice = "repository" THEN name ELSE Fallback)
    BY Falling DEF TypeOK
  <2>7. Use(chosen)
    BY <2>1, <2>6
  <2>8. \A n \in Names : Proposed(n) =>
            \E c \in Choices : /\ chosen = (IF c = "repository" THEN n ELSE Fallback)
                               /\ \A r \in Participating : picked'[<<r, n>>] = c
    BY <2>4, <2>5, <2>6
  <2>9. QED
    BY <2>1, <2>3, <2>7, <2>8, <1>u
<1>9. ASSUME NEW r \in Repos, pc \in {"verify", "verify again"},
             Skip(r) \/ Confirm(r) \/ Waive(r) \/ Decline(r)
      PROVE  ToolInv'
  <2>1. CASE Decline(r)
    BY <2>1, <1>s DEF Decline
  <2>2. CASE ~Decline(r)
    <3>1. Verified(r)
      BY <1>9, <2>2 DEF Skip, Confirm, Waive
    <3>2. QED
      BY <1>9, <3>1, <1>k DEF Verified
  <2>3. QED
    BY <2>1, <2>2
<1>10. CASE Build
  BY <1>10, <1>k DEF Build
<1>11. CASE Launch
  BY <1>11, <1>k DEF Launch
<1>12. CASE Edit
  <2>1. UNCHANGED <<process, picked>>
    BY <1>12 DEF Edit
  <2>2. \A r \in Repos : preference'[r] \in {preference[r], Nothing}
    BY <1>12 DEF Edit, TypeOK
  <2>3. PickInv'
    <3> SUFFICES ASSUME NEW r \in Repos, NEW n \in Names, NEW c \in Choices,
                        preference'[r] = [value |-> n, choice |-> c]
                 PROVE  picked'[<<r, n>>] = c
      BY DEF PickInv
    <3>1. preference'[r] = preference[r]
      BY <2>2, TrustAssumption DEF Choices
    <3>2. QED
      BY <2>1, <3>1 DEF ToolInv, PickInv
  <2>4. QED
    BY <2>1, <2>3, Deciding DEF ToolInv, TheUserChoseTheTool
<1>13. CASE UNCHANGED vars
  <2>1. PickInv'
    BY <1>13 DEF ToolInv, PickInv, vars
  <2>2. QED
    BY <1>13, <2>1, Deciding DEF ToolInv, TheUserChoseTheTool, vars
<1>14. QED
  BY <1>1, <1>2, <1>3, <1>4, <1>5, <1>6, <1>7, <1>8, <1>9, <1>10, <1>11, <1>12, <1>13
     DEF Next, Verify

\* When repositories ask for another tool than the user's, the user chose the one that is
\* used, whatever was asked, stored and lost before.
THEOREM TheUserChoseTheToolCorrect == Spec => []TheUserChoseTheTool
<1>1. TypeOK /\ ToolInv /\ [Next]_vars => (TypeOK /\ ToolInv)'
  BY TypeStep, ToolStep
<1>2. ToolInv => TheUserChoseTheTool
  BY DEF ToolInv
<1>3. QED
  BY <1>1, <1>2, TypeInit, ToolInit, PTL DEF Spec

-----------------------------------------------------------------------------
(***************************************************************************)
(* A marker is consent.                                                    *)
(***************************************************************************)
LEMMA MarkerInit == Init => MarkersAreConsent
BY DEF Init, MarkersAreConsent

\* Every action keeps a marker what the user once confirmed.
LEMMA MarkerStep == TypeOK /\ MarkersAreConsent /\ [Next]_vars => MarkersAreConsent'
<1> SUFFICES ASSUME TypeOK, MarkersAreConsent, [Next]_vars PROVE MarkersAreConsent'
  OBVIOUS
<1> USE DEF files, process, history, Goto
<1>k. ASSUME UNCHANGED <<marker, approved>> PROVE MarkersAreConsent'
  BY <1>k DEF MarkersAreConsent
<1>1. CASE \E cmd \in {"create", "resume"}, name \in Names \cup {Nothing} : Begin(cmd, name)
  BY <1>1, <1>k DEF Begin
<1>2. CASE Register \/ Lookup \/ UseNamed \/ RefuseTool
  BY <1>2, <1>k DEF Register, Lookup, UseNamed, RefuseTool, Stop, Use
<1>3. CASE \E name \in Names :
              \/ OptInTool(name)
              \/ \E choice \in Choices : UseStored(name, choice) \/ AskForTool(name, choice)
  BY <1>3, <1>k DEF OptInTool, UseStored, AskForTool, Use
<1>4. ASSUME NEW r \in Repos, Skip(r) \/ Confirm(r) \/ Waive(r) \/ Decline(r)
      PROVE  MarkersAreConsent'
  <2>1. CASE Confirm(r)
    <3>1. /\ marker' = [marker EXCEPT ![r] = snapshot[r]]
          /\ approved' = approved \cup {<<r, snapshot[r]>>}
      BY <2>1 DEF Confirm
    <3>2. \A s \in Repos : marker'[s] = IF s = r THEN snapshot[r] ELSE marker[s]
      BY <3>1 DEF TypeOK
    <3>3. QED
      BY <3>1, <3>2 DEF MarkersAreConsent
  <2>2. CASE ~Confirm(r)
    BY <1>4, <2>2, <1>k DEF Skip, Waive, Decline, Stop
  <2>3. QED
    BY <2>1, <2>2
<1>5. CASE Build \/ Launch
  BY <1>5, <1>k DEF Build, Launch
<1>6. CASE Edit
  <2>1. approved' = approved
    BY <1>6 DEF Edit
  <2>2. \A r \in Repos : marker'[r] \in {marker[r], Nothing}
    BY <1>6 DEF Edit, TypeOK
  <2>3. QED
    BY <2>1, <2>2 DEF MarkersAreConsent
<1>7. CASE UNCHANGED vars
  BY <1>7, <1>k DEF vars
<1>8. QED
  BY <1>1, <1>2, <1>3, <1>4, <1>5, <1>6, <1>7 DEF Next, Verify

\* A marker is never anything the user has not confirmed.
THEOREM MarkersAreConsentCorrect == Spec => []MarkersAreConsent
<1>1. TypeOK /\ MarkersAreConsent /\ [Next]_vars => (TypeOK /\ MarkersAreConsent)'
  BY TypeStep, MarkerStep
<1>2. QED
  BY <1>1, TypeInit, MarkerInit, PTL DEF Spec

-----------------------------------------------------------------------------
(***************************************************************************)
(* Nothing runs unconfirmed.                                               *)
(***************************************************************************)
LetThrough == approved \cup waived

\* The tool is a name when it is looked up, and registered when it is verified.
ProviderInv ==
    /\ pc \in {"choose", "verify"} => command = "create"
    /\ command = "resume" /\ pc = "register" => tool \in Names
    /\ pc = "lookup" => command = "resume" /\ tool \in Names
    /\ pc \in {"verify", "again", "verify again"} => tool \in Names /\ registry[tool] # Nothing

\* What is registered for a repository was confirmed, or is what is being verified; a resume
\* registers twice what nobody has changed in between.
RegistryInv ==
    /\ pc = "register" => \A n \in Names : registry[n] \in {Own, Nothing}
    /\ pc \notin {"idle", "register"} =>
         \A n \in Names : \/ registry[n] \in {Own, Nothing} \cup LetThrough
                          \/ \E r \in Repos : snapshot[r] # {} /\ registry[n] = <<r, snapshot[r]>>
    /\ command = "resume" /\ pc \in {"lookup", "again"} =>
         \A r \in Repos : snapshot[r] = Readable(disk[r])

\* What has been verified was let through.
VerifyInv ==
    /\ pc = "choose" => todo = Repos
    /\ command = "create" /\ pc = "again" => todo = {}
    /\ pc \in {"verify", "verify again"} \/ (command = "create" /\ pc = "again") =>
         \A r \in Repos \ todo : snapshot[r] = {} \/ <<r, snapshot[r]>> \in LetThrough

ConsentInv ==
    MarkersAreConsent /\ ProviderInv /\ RegistryInv /\ VerifyInv /\ NothingRunsUnconfirmed

\* Nothing is registered at first.
LEMMA ConsentInit == Init => ConsentInv
<1> SUFFICES ASSUME Init PROVE ConsentInv
  OBVIOUS
<1>1. pc = "idle" /\ executed = {}
  BY DEF Init
<1>2. QED
  BY <1>1, MarkerInit DEF ConsentInv, ProviderInv, RegistryInv, VerifyInv, NothingRunsUnconfirmed

\* Once everything is verified, what the tool's provider is was let through.
LEMMA Providing ==
    ASSUME TypeOK, ConsentInv, pc \in {"verify", "verify again"}, todo = {}
    PROVE  Provided \subseteq LetThrough
<1>1. tool \in Names /\ registry[tool] # Nothing
  BY DEF ConsentInv, ProviderInv
<1>2. Own \notin Sets
  <2>1. \A c \in Contents, r \in Repos : Readable(c) # Nothing
    BY Pairs DEF Snapshots
  <2>2. QED
    BY <2>1 DEF Own, Sets
<1>3. \/ registry[tool] \in {Own, Nothing} \cup LetThrough
      \/ \E r \in Repos : snapshot[r] # {} /\ registry[tool] = <<r, snapshot[r]>>
  BY <1>1 DEF ConsentInv, RegistryInv
<1>4. \A r \in Repos : snapshot[r] = {} \/ <<r, snapshot[r]>> \in LetThrough
  BY DEF ConsentInv, VerifyInv
<1>5. registry[tool] \in LetThrough \/ registry[tool] \notin Sets
  BY <1>1, <1>2, <1>3, <1>4
<1>6. QED
  BY <1>5 DEF Provided

\* Every action keeps ConsentInv, if nobody edits a manifest between a resume's two readings.
LEMMA ConsentStep ==
    ASSUME EditsInResume = FALSE
    PROVE  TypeOK /\ ConsentInv /\ [Next]_vars => ConsentInv'
<1> SUFFICES ASSUME TypeOK, ConsentInv, [Next]_vars PROVE ConsentInv'
  OBVIOUS
<1>m. MarkersAreConsent'
  BY MarkerStep DEF ConsentInv
<1> USE DEF files, process, history, Goto
\* A command that ends keeps nothing but what has run.
<1>i. ASSUME pc' = "idle", UNCHANGED <<approved, waived, executed>> PROVE ConsentInv'
  BY <1>i, <1>m DEF ConsentInv, ProviderInv, RegistryInv, VerifyInv, NothingRunsUnconfirmed
<1>s. ASSUME Stop PROVE ConsentInv'
  BY <1>s, <1>i DEF Stop
<1>u. ASSUME NEW chosen \in Names, Use(chosen), pc = "choose" PROVE ConsentInv'
  <2>1. CASE registry[chosen] = Nothing
    BY <1>u, <2>1, <1>i DEF Use
  <2>2. CASE registry[chosen] # Nothing
    <3>1. tool' = chosen /\ pc' = "verify"
      BY <1>u, <2>2 DEF Use
    <3>2. UNCHANGED <<disk, command, registry, snapshot, todo, approved, waived, executed>>
      BY <1>u DEF Use
    <3>3. ProviderInv'
      BY <1>u, <2>2, <3>1, <3>2 DEF ConsentInv, ProviderInv
    <3>4. RegistryInv'
      BY <1>u, <3>1, <3>2 DEF ConsentInv, RegistryInv, LetThrough
    <3>5. VerifyInv'
      BY <1>u, <3>1, <3>2 DEF ConsentInv, VerifyInv
    <3>6. QED
      BY <1>m, <3>2, <3>3, <3>4, <3>5 DEF ConsentInv, NothingRunsUnconfirmed
  <2>3. QED
    BY <2>1, <2>2
<1>1. ASSUME NEW cmd \in {"create", "resume"}, NEW name \in Names \cup {Nothing}, Begin(cmd, name)
      PROVE  ConsentInv'
  <2>1. pc' = "register" /\ registry' = Fresh /\ executed' = {} /\ tool' = sandbox
    BY <1>1 DEF Begin
  <2>2. command' = "resume" => tool' \in Names
    BY <1>1, <2>1 DEF Begin, TypeOK
  <2>3. \A n \in Names : registry'[n] \in {Own, Nothing}
    BY <2>1 DEF Fresh
  <2>4. QED
    BY <1>m, <2>1, <2>2, <2>3 DEF ConsentInv, ProviderInv, RegistryInv, VerifyInv,
       NothingRunsUnconfirmed
<1>2. CASE Register
  <2>1. CASE Collides /\ Stop
    BY <2>1, <1>s
  <2>2. CASE ~(Collides /\ Stop)
    <3>1. snapshot' = [r \in Repos |-> Readable(disk[r])] /\ registry' = Registered
      BY <1>2, <2>2 DEF Register
    <3>2. /\ pc = "register" \/ pc = "again"
          /\ pc = "again" => pc' = "verify again" /\ todo' = Repos
          /\ pc = "register" /\ command = "create" => pc' = "choose" /\ todo' = Repos
          /\ pc = "register" /\ command # "create" => pc' = "lookup"
      BY <1>2, <2>2 DEF Register
    <3>3. UNCHANGED <<files, command, tool, history>>
      BY <1>2, <2>2 DEF Register
    <3>4. \A n \in Names :
            \/ registry'[n] = registry[n]
            \/ \E r \in Repos : snapshot'[r] # {} /\ registry'[n] = <<r, snapshot'[r]>>
      BY <3>1, Registering DEF TypeOK
    <3>5. \A r \in Repos : <<r, snapshot'[r]>> # Nothing
      BY <3>1, Reading, Pairs DEF TypeOK
    <3>6. ProviderInv'
      <4>1. pc = "again" => tool \in Names /\ registry[tool] # Nothing
        BY DEF ConsentInv, ProviderInv
      <4>2. pc = "again" => registry'[tool] # Nothing
        BY <3>4, <3>5, <4>1
      <4>3. pc = "register" /\ command # "create" => tool \in Names
        BY DEF ConsentInv, ProviderInv, TypeOK
      <4>4. command \in {"create", "resume"}
        BY DEF TypeOK
      <4>5. QED
        BY <3>2, <3>3, <4>1, <4>2, <4>3, <4>4 DEF ProviderInv
    <3>7. RegistryInv'
      <4>1. pc = "register" => \A n \in Names : registry[n] \in {Own, Nothing}
        BY DEF ConsentInv, RegistryInv
      <4>2. pc = "again" =>
              \A n \in Names : \/ registry[n] \in {Own, Nothing} \cup LetThrough
                               \/ \E r \in Repos : snapshot'[r] # {} /\ registry[n] = <<r, snapshot'[r]>>
        <5>1. CASE command = "create"
          BY <5>1 DEF ConsentInv, RegistryInv, VerifyInv
        <5>2. CASE command = "resume"
          BY <3>1, <5>2 DEF ConsentInv, RegistryInv
        <5>3. QED
          BY <5>1, <5>2 DEF TypeOK
      <4>3. LetThrough' = LetThrough
        BY <3>3 DEF LetThrough
      <4>4. \A n \in Names :
              \/ registry'[n] \in {Own, Nothing} \cup LetThrough'
              \/ \E r \in Repos : snapshot'[r] # {} /\ registry'[n] = <<r, snapshot'[r]>>
        BY <3>2, <3>4, <4>1, <4>2, <4>3
      <4>5. \A r \in Repos : snapshot'[r] = Readable(disk'[r])
        BY <3>1, <3>3
      <4>6. pc' # "register"
        BY <3>2 DEF TypeOK
      <4>7. QED
        BY <4>4, <4>5, <4>6 DEF RegistryInv
    <3>8. VerifyInv'
      BY <3>2, <3>3 DEF VerifyInv, TypeOK
    <3>9. QED
      BY <1>m, <3>3, <3>6, <3>7, <3>8 DEF ConsentInv, NothingRunsUnconfirmed
  <2>3. QED
    BY <2>1, <2>2
<1>3. CASE Lookup
  <2>1. CASE Stop
    BY <2>1, <1>s
  <2>2. CASE ~Stop
    <3>1. pc = "lookup" /\ pc' = "again" /\ registry[tool] # Nothing
          /\ UNCHANGED <<files, command, tool, registry, snapshot, todo, history>>
      BY <1>3, <2>2 DEF Lookup
    <3>2. ProviderInv'
      BY <3>1 DEF ConsentInv, ProviderInv
    <3>3. RegistryInv'
      BY <3>1 DEF ConsentInv, RegistryInv, LetThrough
    <3>4. command = "resume"
      BY <3>1 DEF ConsentInv, ProviderInv
    <3>5. QED
      BY <1>m, <3>1, <3>2, <3>3, <3>4 DEF ConsentInv, VerifyInv, NothingRunsUnconfirmed
  <2>3. QED
    BY <2>1, <2>2
<1>4. CASE UseNamed
  <2>1. flag \in Names \cup {Nothing} /\ Fallback \in Names
    BY Falling DEF TypeOK
  <2>2. QED
    BY <1>4, <2>1, <1>u DEF UseNamed
<1>5. CASE RefuseTool
  BY <1>5, <1>s DEF RefuseTool
<1>6. ASSUME NEW name \in Names, OptInTool(name)
      PROVE  ConsentInv'
  BY <1>6, <1>u DEF OptInTool
<1>7. ASSUME NEW name \in Names, NEW choice \in Choices,
             UseStored(name, choice) \/ AskForTool(name, choice)
      PROVE  ConsentInv'
  <2>1. PICK chosen \in Names : chosen = (IF choice = "repository" THEN name ELSE Fallback)
    BY Falling DEF TypeOK
  <2>2. pc = "choose" /\ Use(chosen)
    BY <1>7, <2>1 DEF UseStored, AskForTool
  <2>3. QED
    BY <2>2, <1>u
<1>8. ASSUME NEW r \in Repos, pc \in {"verify", "verify again"},
             Skip(r) \/ Confirm(r) \/ Waive(r) \/ Decline(r)
      PROVE  ConsentInv'
  <2>1. CASE Decline(r)
    BY <2>1, <1>s DEF Decline
  <2>2. CASE ~Decline(r)
    <3>1. /\ todo' = todo \ {r}
          /\ UNCHANGED <<disk, command, pc, tool, registry, snapshot, executed>>
      BY <1>8, <2>2 DEF Skip, Confirm, Waive, Verified
    <3>2. LetThrough \subseteq LetThrough'
      BY <1>8, <2>2 DEF Skip, Confirm, Waive, LetThrough
    <3>3. snapshot[r] = {} \/ <<r, snapshot[r]>> \in LetThrough'
      <4>1. CASE Skip(r)
        <5>1. snapshot[r] # Nothing
          BY Pairs DEF TypeOK, Snapshots
        <5>2. snapshot[r] = {} \/ <<r, snapshot[r]>> \in approved
          BY <4>1, <5>1 DEF Skip, Settled, ConsentInv, MarkersAreConsent
        <5>3. QED
          BY <3>2, <5>2 DEF LetThrough
      <4>2. CASE Confirm(r)
        BY <4>2 DEF Confirm, LetThrough
      <4>3. CASE Waive(r)
        BY <4>3 DEF Waive, LetThrough
      <4>4. QED
        BY <1>8, <2>2, <4>1, <4>2, <4>3
    <3>4. ProviderInv'
      BY <1>8, <3>1 DEF ConsentInv, ProviderInv
    <3>5. RegistryInv'
      BY <1>8, <3>1, <3>2 DEF ConsentInv, RegistryInv
    <3>6. VerifyInv'
      BY <1>8, <3>1, <3>2, <3>3 DEF ConsentInv, VerifyInv
    <3>7. NothingRunsUnconfirmed'
      BY <3>1, <3>2 DEF ConsentInv, NothingRunsUnconfirmed, LetThrough
    <3>8. QED
      BY <1>m, <3>4, <3>5, <3>6, <3>7 DEF ConsentInv
  <2>3. QED
    BY <2>1, <2>2
<1>9. CASE Build
  <2>1. /\ pc = "verify" /\ todo = {} /\ pc' = "again"
        /\ executed' \in {executed, executed \cup Provided}
        /\ UNCHANGED <<disk, command, tool, registry, snapshot, todo, approved, waived>>
    BY <1>9 DEF Build
  <2>2. Provided \subseteq LetThrough
    BY <2>1, Providing
  <2>3. ProviderInv'
    BY <2>1 DEF ConsentInv, ProviderInv
  <2>4. command = "create"
    BY <2>1 DEF ConsentInv, ProviderInv
  <2>5. RegistryInv'
    BY <2>1, <2>4 DEF ConsentInv, RegistryInv, LetThrough
  <2>6. VerifyInv'
    BY <2>1 DEF ConsentInv, VerifyInv, LetThrough
  <2>7. NothingRunsUnconfirmed'
    BY <2>1, <2>2 DEF ConsentInv, NothingRunsUnconfirmed, LetThrough
  <2>8. QED
    BY <1>m, <2>3, <2>5, <2>6, <2>7 DEF ConsentInv
<1>10. CASE Launch
  <2>1. /\ pc = "verify again" /\ todo = {} /\ pc' = "idle"
        /\ executed' = executed \cup Provided /\ UNCHANGED <<approved, waived>>
    BY <1>10 DEF Launch
  <2>2. Provided \subseteq LetThrough
    BY <2>1, Providing
  <2>3. NothingRunsUnconfirmed'
    BY <2>1, <2>2 DEF ConsentInv, NothingRunsUnconfirmed, LetThrough
  <2>4. QED
    BY <1>m, <2>1, <2>3 DEF ConsentInv, ProviderInv, RegistryInv, VerifyInv
<1>11. CASE Edit
  <2>1. UNCHANGED <<sandbox, process, history>>
    BY <1>11 DEF Edit
  <2>2. disk' = disk \/ command = "create" \/ pc \notin {"lookup", "again"}
    BY <1>11 DEF Edit
  <2>3. ProviderInv' /\ VerifyInv'
    BY <2>1 DEF ConsentInv, ProviderInv, VerifyInv, LetThrough
  <2>4. RegistryInv'
    BY <2>1, <2>2 DEF ConsentInv, RegistryInv, LetThrough
  <2>5. QED
    BY <1>m, <2>1, <2>3, <2>4 DEF ConsentInv, NothingRunsUnconfirmed
<1>12. CASE UNCHANGED vars
  BY <1>m, <1>12 DEF vars, ConsentInv, ProviderInv, RegistryInv, VerifyInv, LetThrough,
     NothingRunsUnconfirmed
<1>13. QED
  BY <1>1, <1>2, <1>3, <1>4, <1>5, <1>6, <1>7, <1>8, <1>9, <1>10, <1>11, <1>12
     DEF Next, Verify

\* No build and no launch runs what a repository's manifest says before the user let exactly
\* that through, when no repository changes between the two registrations of a resume.
THEOREM NothingRunsUnconfirmedCorrect ==
    ASSUME EditsInResume = FALSE
    PROVE  Spec => []NothingRunsUnconfirmed
<1>1. TypeOK /\ ConsentInv /\ [Next]_vars => (TypeOK /\ ConsentInv)'
  BY TypeStep, ConsentStep
<1>2. ConsentInv => NothingRunsUnconfirmed
  BY DEF ConsentInv
<1>3. QED
  BY <1>1, <1>2, TypeInit, ConsentInit, PTL DEF Spec
=============================================================================
