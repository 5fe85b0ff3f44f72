------------------------ MODULE DestroySandboxProofs ------------------------
(***************************************************************************)
(* For every number of repositories, commits and destroyers: the types; and *)
(* when no session's exit overlaps a destroyer, no unapplied session commit *)
(* is lost and the archive goes last.                                       *)
(***************************************************************************)
EXTENDS DestroySandbox, TLAPS

\* What EXCEPT does to a function.
LEMMA ExceptType ==
    ASSUME NEW S, NEW T, NEW g \in [S -> T], NEW x, NEW y \in T
    PROVE  [g EXCEPT ![x] = y] \in [S -> T]
OBVIOUS

\* The values of a function that was changed in one place.
LEMMA ExceptValue ==
    ASSUME NEW S, NEW T, NEW g \in [S -> T], NEW x \in S, NEW y, NEW e \in S
    PROVE  [g EXCEPT ![x] = y][e] = IF e = x THEN y ELSE g[e]
OBVIOUS

\* The end of a repository's turn keeps the types.
LEMMA ConcludeTypes ==
    ASSUME TypeOK, NEW d \in Destroyers, NEW r \in Repos, NEW o \in Outcomes, Conclude(d, r, o)
    PROVE  /\ outcome' \in [Destroyers -> [Repos -> Outcomes]]
           /\ todo' \in [Destroyers -> SUBSET Repos]
           /\ step' \in [Destroyers -> {"next", "ask", "delete"}]
           /\ cur' \in [Destroyers -> Repos \cup {NoRepo}]
           /\ counted' \in [Destroyers -> SUBSET Commits]
           /\ \A e \in Destroyers : step'[e] # "next" => cur'[e] \in todo'[e]
           /\ \A e \in Destroyers : step'[e] # "next" => step[e] # "next"
           /\ UNCHANGED <<files, container, pc, read, force, session>>
<1> USE DEF TypeOK, Conclude
<1>1. [outcome[d] EXCEPT ![r] = o] \in [Repos -> Outcomes]
  OBVIOUS
<1>2. outcome' = outcome \/ outcome' = [outcome EXCEPT ![d] = [outcome[d] EXCEPT ![r] = o]]
  OBVIOUS
<1>3. outcome' \in [Destroyers -> [Repos -> Outcomes]]
  BY <1>1, <1>2
<1>4. QED
  BY <1>3

\* What it does to branch_outcomes and to the list of repositories.
LEMMA ConcludeValues ==
    ASSUME TypeOK, NEW d \in Destroyers, NEW r \in Repos, NEW o, Conclude(d, r, o)
    PROVE  /\ \A e \in Destroyers, q \in Repos :
                 outcome'[e][q] = IF e = d /\ q = r /\ pc[d] = "branches" THEN o ELSE outcome[e][q]
           /\ \A e \in Destroyers : todo'[e] = IF e = d THEN todo[e] \ {r} ELSE todo[e]
<1> USE DEF TypeOK, Conclude
<1>1. CASE pc[d] = "branches"
  <2>1. outcome' = [outcome EXCEPT ![d] = [outcome[d] EXCEPT ![r] = o]]
    BY <1>1
  <2>2. outcome'[d] = [outcome[d] EXCEPT ![r] = o] /\ \A e \in Destroyers : e # d => outcome'[e] = outcome[e]
    <3>1. outcome \in [Destroyers -> [Repos -> Outcomes]]
      OBVIOUS
    <3> HIDE DEF TypeOK, Conclude
    <3>2. QED
      BY <2>1, <3>1, ExceptValue
  <2>3. \A e \in Destroyers, q \in Repos :
           outcome'[e][q] = IF e = d /\ q = r THEN o ELSE outcome[e][q]
    <3>1. outcome \in [Destroyers -> [Repos -> Outcomes]] /\ outcome[d] \in [Repos -> Outcomes]
      OBVIOUS
    <3> HIDE DEF TypeOK, Conclude, Outcomes
    <3>2. \A q \in Repos : [outcome[d] EXCEPT ![r] = o][q] = IF q = r THEN o ELSE outcome[d][q]
      BY <3>1, ExceptValue
    <3>3. QED
      BY <2>2, <3>2
  <2>4. \A e \in Destroyers : todo'[e] = IF e = d THEN todo[e] \ {r} ELSE todo[e]
    OBVIOUS
  <2> HIDE DEF TypeOK, Conclude
  <2>5. QED
    BY <1>1, <2>3, <2>4
<1>2. CASE pc[d] # "branches"
  BY <1>2
<1>3. QED
  BY <1>1, <1>2

\* Every action keeps the types.
LEMMA TypeStep == TypeOK /\ [Next]_vars => TypeOK'
<1> SUFFICES ASSUME TypeOK, [Next]_vars PROVE TypeOK'
  OBVIOUS
<1> USE DestroyAssumption DEF TypeOK, Pcs, Outcomes, host, files, gate, session, history
<1>1. ASSUME NEW d \in Destroyers, GcLists(d) PROVE TypeOK'
  <2>1. /\ step[d] = "next"
        /\ \/ pc' = [pc EXCEPT ![d] = "listed"] /\ todo' = todo
           \/ /\ pc' = [pc EXCEPT ![d] = "orphans"]
              /\ \E scan \in SUBSET Repos : todo' = [todo EXCEPT ![d] = scan]
        /\ UNCHANGED <<host, files, container, gate, read, force, outcome, session, history>>
    BY <1>1 DEF GcLists
  <2>2. pc' \in [Destroyers -> Pcs]
    <3>1. pc \in [Destroyers -> Pcs] /\ "listed" \in Pcs /\ "orphans" \in Pcs
      OBVIOUS
    <3> HIDE DEF TypeOK, Pcs
    <3>2. QED
      BY <2>1, <3>1, ExceptType
  <2>3. todo' \in [Destroyers -> SUBSET Repos]
    <3>1. CASE todo' = todo
      BY <3>1
    <3>2. ASSUME NEW scan \in SUBSET Repos, todo' = [todo EXCEPT ![d] = scan]
          PROVE  todo' \in [Destroyers -> SUBSET Repos]
      BY <3>2
    <3>3. QED
      BY <2>1, <3>1, <3>2
  <2>4. \A e \in Destroyers : e # d => pc'[e] = pc[e] /\ todo'[e] = todo[e]
    BY <2>1
  <2>5. QED
    BY <2>1, <2>2, <2>3, <2>4
<1>2. ASSUME NEW d \in Destroyers, Begin(d) PROVE TypeOK'
  <2>1. step[d] = "next" /\ pc' = [pc EXCEPT ![d] = "branches"]
    BY <1>2 DEF Begin
  <2>2. todo' \in [Destroyers -> SUBSET Repos]
    <3>1. (IF archive /\ readable THEN Repos
           ELSE IF archive /\ force[d] THEN roots ELSE {}) \in SUBSET Repos
      OBVIOUS
    <3>2. QED
      BY <1>2, <3>1 DEF Begin
  <2>3. read' \in [Destroyers -> BOOLEAN]
    <3>1. (archive /\ readable) \in BOOLEAN
      OBVIOUS
    <3>2. QED
      BY <1>2, <3>1, Zenon DEF Begin
  <2>4. container' \in BOOLEAN
    <3>1. container' = FALSE \/ container' = container
      BY <1>2 DEF Begin
    <3>2. QED
      BY <3>1
  <2>5. \A e \in Destroyers : e # d => todo'[e] = todo[e] /\ pc'[e] = pc[e]
    BY <1>2 DEF Begin
  <2>6. UNCHANGED <<host, files, gate, force, outcome, session, history>>
    BY <1>2 DEF Begin
  <2>7. QED
    BY <2>1, <2>2, <2>3, <2>4, <2>5, <2>6
<1>3. ASSUME NEW d \in Destroyers, NEW r \in Repos, NothingToDelete(d, r) PROVE TypeOK'
  <2>1. PICK o \in Outcomes : Conclude(d, r, o)
    BY <1>3 DEF NothingToDelete
  <2>2. UNCHANGED <<host, history>>
    BY <1>3 DEF NothingToDelete
  <2>3. /\ outcome' \in [Destroyers -> [Repos -> Outcomes]]
        /\ todo' \in [Destroyers -> SUBSET Repos]
        /\ step' \in [Destroyers -> {"next", "ask", "delete"}]
        /\ cur' \in [Destroyers -> Repos \cup {NoRepo}]
        /\ counted' \in [Destroyers -> SUBSET Commits]
        /\ \A e \in Destroyers : step'[e] # "next" => cur'[e] \in todo'[e]
        /\ \A e \in Destroyers : step'[e] # "next" => step[e] # "next"
        /\ UNCHANGED <<files, container, pc, read, force, session>>
    BY <2>1, ConcludeTypes
  <2>4. QED
    BY <2>2, <2>3
<1>4. ASSUME NEW d \in Destroyers, NEW r \in Repos, Gate(d, r) PROVE TypeOK'
  <2> DEFINE S == IF force[d] THEN {} ELSE Unapplied(d, r)
  <2>1. S \subseteq Commits
    BY DEF Unapplied
  <2>2. /\ counted' = [counted EXCEPT ![d] = S]
        /\ cur' = [cur EXCEPT ![d] = r]
        /\ step' = [step EXCEPT ![d] = "delete"] \/ step' = [step EXCEPT ![d] = "ask"]
        /\ pc[d] \in {"branches", "orphans"} /\ r \in todo[d]
        /\ UNCHANGED <<host, files, container, pc, todo, read, force, outcome, session, history>>
    BY <1>4 DEF Gate, Deletable
  <2>3. counted' \in [Destroyers -> SUBSET Commits]
    BY <2>1, <2>2
  <2>4. step' \in [Destroyers -> {"next", "ask", "delete"}]
    BY <2>2
  <2>5. \A e \in Destroyers : step'[e] # "next" => cur'[e] \in todo[e]
                                                 /\ pc[e] \in {"branches", "orphans"}
    BY <2>2
  <2>6. QED
    BY <2>2, <2>3, <2>4, <2>5
<1>5. ASSUME NEW d \in Destroyers, NEW r \in Repos, GateFails(d, r) PROVE TypeOK'
  BY <1>5 DEF GateFails, Deletable, Conclude
<1>6. ASSUME NEW d \in Destroyers, Agree(d) PROVE TypeOK'
  BY <1>6 DEF Agree
<1>7. ASSUME NEW d \in Destroyers, Decline(d) PROVE TypeOK'
  BY <1>7 DEF Decline, Conclude
<1>8. ASSUME NEW d \in Destroyers, Delete(d) PROVE TypeOK'
  BY <1>8 DEF Delete, Conclude
<1>9. ASSUME NEW d \in Destroyers, DeleteFails(d) PROVE TypeOK'
  BY <1>9 DEF DeleteFails, Conclude
<1>10. ASSUME NEW d \in Destroyers, Finish(d) PROVE TypeOK'
  <2>1. /\ todo[d] = {} /\ pc[d] = "branches"
        /\ read' = [read EXCEPT ![d] = FALSE]
        /\ outcome' = [outcome EXCEPT ![d] = [r \in Repos |-> "none"]]
        /\ UNCHANGED <<host, container, gate, force, session, history>>
    BY <1>10 DEF Finish
  <2>2. step[d] = "next"
    BY <2>1
  <2>3. /\ pc' = [pc EXCEPT ![d] = "orphans"] \/ pc' = [pc EXCEPT ![d] = "ended"]
        /\ \/ todo' = [todo EXCEPT ![d] = Repos] \/ todo' = [todo EXCEPT ![d] = {}]
           \/ todo' = todo
    BY <1>10 DEF Finish
  <2>4. archive' \in BOOLEAN /\ readable' \in BOOLEAN /\ roots' \subseteq Repos
    BY <1>10 DEF Finish
  <2>5. outcome' \in [Destroyers -> [Repos -> Outcomes]]
    <3>1. [r \in Repos |-> "none"] \in [Repos -> Outcomes]
      OBVIOUS
    <3>2. QED
      BY <2>1, <3>1
  <2>6. pc' \in [Destroyers -> Pcs]
    <3>1. pc \in [Destroyers -> Pcs] /\ "orphans" \in Pcs /\ "ended" \in Pcs
      OBVIOUS
    <3> HIDE DEF TypeOK, Pcs
    <3>2. QED
      BY <2>3, <3>1, ExceptType
  <2>7. todo' \in [Destroyers -> SUBSET Repos]
    <3>1. todo \in [Destroyers -> SUBSET Repos]
      OBVIOUS
    <3> HIDE DEF TypeOK, Pcs
    <3>2. QED
      BY <2>3, <3>1, ExceptType
  <2>8. \A e \in Destroyers : e # d => todo'[e] = todo[e] /\ pc'[e] = pc[e]
    BY <2>3
  <2>9. QED
    BY <2>1, <2>2, <2>4, <2>5, <2>6, <2>7, <2>8
<1>11. ASSUME NEW d \in Destroyers, GcEnds(d) PROVE TypeOK'
  BY <1>11 DEF GcEnds
<1>12. ASSUME NEW r \in Repos, ExitReads(r) PROVE TypeOK'
  BY <1>12 DEF ExitReads, MayExit
<1>13. ASSUME NEW c \in Commits, ExitCommits(c) PROVE TypeOK'
  BY <1>13 DEF ExitCommits
<1>14. CASE ExitFails
  BY <1>14 DEF ExitFails
<1>15. ASSUME NEW r \in Repos, NEW c \in Commits, Apply(r, c) PROVE TypeOK'
  BY <1>15 DEF Apply
<1>16. ASSUME NEW r \in Repos, BranchDeleted(r) PROVE TypeOK'
  BY <1>16 DEF BranchDeleted
<1>17. ASSUME NEW r \in Repos, MoveAway(r) PROVE TypeOK'
  BY <1>17 DEF MoveAway
<1>18. ASSUME NEW r \in Repos, MoveBack(r) PROVE TypeOK'
  BY <1>18 DEF MoveBack
<1>19. CASE UNCHANGED vars
  BY <1>19 DEF vars
<1>20. QED
  BY <1>1, <1>2, <1>3, <1>4, <1>5, <1>6, <1>7, <1>8, <1>9, <1>10,
     <1>11, <1>12, <1>13, <1>14, <1>15, <1>16, <1>17, <1>18, <1>19
     DEF Next, Destroy, Environment

\* The state of the destroyers always has its types.
THEOREM TypeCorrect == Spec => []TypeOK
<1>1. Init => TypeOK
  <2> SUFFICES ASSUME Init PROVE TypeOK
    OBVIOUS
  <2>1. archive \in BOOLEAN /\ readable \in BOOLEAN /\ roots \subseteq Repos
    BY DEF Init
  <2>2. tip \in [Repos -> SUBSET Commits]
    BY DestroyAssumption DEF Init
  <2>3. outcome \in [Destroyers -> [Repos -> Outcomes]]
    BY DEF Init, Outcomes
  <2>4. QED
    BY <2>1, <2>2, <2>3 DEF Init, TypeOK, Pcs
<1>2. QED
  BY <1>1, TypeStep, PTL DEF Spec

-----------------------------------------------------------------------------
(***************************************************************************)
(* The inductive invariant, when no exit overlaps a destroyer.              *)
(***************************************************************************)
\* An exit is under way only beside destroyers that have not begun or have ended, so the
\* tip it has read is the tip of the branch.
ExitInv ==
    exiting # NoRepo =>
        /\ \A d \in Destroyers : pc[d] \in {"idle", "ended"}
        /\ parent = tip[exiting]

\* Between the gate and the deletion the branch of the repository at hand carries what the
\* gate counted, what another branch carries, and what the user has given up.
GateInv ==
    \A d \in Destroyers :
        /\ step[d] = "ask" =>
              tip[cur[d]] \subseteq applied[cur[d]] \cup counted[d] \cup {Baseline}
        /\ step[d] = "delete" /\ ~force[d] =>
              tip[cur[d]] \subseteq applied[cur[d]] \cup given_up[cur[d]] \cup {Baseline}

\* What branch_outcomes says of a repository is still so when the loop is over.
OutcomeInv ==
    /\ Repos \ reachable \subseteq moved
    /\ \A d \in Destroyers, r \in Repos :
          /\ pc[d] # "branches" => outcome[d][r] = "none"
          /\ outcome[d][r] \in {"deleted", "missing"} => r \notin exists
          /\ outcome[d][r] = "error" => r \in moved
          /\ pc[d] = "branches" /\ read[d] /\ r \notin todo[d] => outcome[d][r] # "none"

IInv == ExitInv /\ GateInv /\ OutcomeInv

\* Every action keeps ExitInv.
LEMMA ExitStep ==
    ASSUME ~Overlap, TypeOK, ExitInv, GateInv, [Next]_vars PROVE ExitInv'
<1> USE DestroyAssumption DEF TypeOK, ExitInv, GateInv, host, files, gate, session, history
<1>1. ASSUME NEW d \in Destroyers, GcLists(d) PROVE ExitInv'
  BY <1>1 DEF GcLists, MayDestroy
<1>2. ASSUME NEW d \in Destroyers, Begin(d) PROVE ExitInv'
  BY <1>2 DEF Begin, MayDestroy
<1>3. ASSUME NEW d \in Destroyers, NEW r \in Repos, NothingToDelete(d, r) PROVE ExitInv'
  BY <1>3 DEF NothingToDelete, Conclude
<1>4. ASSUME NEW d \in Destroyers, NEW r \in Repos, Gate(d, r) PROVE ExitInv'
  BY <1>4 DEF Gate, Deletable, Unapplied
<1>5. ASSUME NEW d \in Destroyers, NEW r \in Repos, GateFails(d, r) PROVE ExitInv'
  BY <1>5 DEF GateFails, Deletable, Conclude
<1>6. ASSUME NEW d \in Destroyers, Agree(d) PROVE ExitInv'
  BY <1>6 DEF Agree
<1>7. ASSUME NEW d \in Destroyers, Decline(d) PROVE ExitInv'
  BY <1>7 DEF Decline, Conclude
<1>8. ASSUME NEW d \in Destroyers, Delete(d) PROVE ExitInv'
  BY <1>8 DEF Delete, Conclude
<1>9. ASSUME NEW d \in Destroyers, DeleteFails(d) PROVE ExitInv'
  BY <1>9 DEF DeleteFails, Conclude
<1>10. ASSUME NEW d \in Destroyers, Finish(d) PROVE ExitInv'
  BY <1>10 DEF Finish, MayRemoveArchive
<1>11. ASSUME NEW d \in Destroyers, GcEnds(d) PROVE ExitInv'
  BY <1>11 DEF GcEnds
<1>12. ASSUME NEW r \in Repos, ExitReads(r) PROVE ExitInv'
  BY <1>12 DEF ExitReads, MayExit
<1>13. ASSUME NEW c \in Commits, ExitCommits(c) PROVE ExitInv'
  BY <1>13 DEF ExitCommits
<1>14. CASE ExitFails
  BY <1>14 DEF ExitFails
<1>15. ASSUME NEW r \in Repos, NEW c \in Commits, Apply(r, c) PROVE ExitInv'
  BY <1>15 DEF Apply
<1>16. ASSUME NEW r \in Repos, BranchDeleted(r) PROVE ExitInv'
  BY <1>16 DEF BranchDeleted
<1>17. ASSUME NEW r \in Repos, MoveAway(r) PROVE ExitInv'
  BY <1>17 DEF MoveAway
<1>18. ASSUME NEW r \in Repos, MoveBack(r) PROVE ExitInv'
  BY <1>18 DEF MoveBack
<1>19. CASE UNCHANGED vars
  BY <1>19 DEF vars
<1>20. QED
  BY <1>1, <1>2, <1>3, <1>4, <1>5, <1>6, <1>7, <1>8, <1>9, <1>10,
     <1>11, <1>12, <1>13, <1>14, <1>15, <1>16, <1>17, <1>18, <1>19
     DEF Next, Destroy, Environment

\* Every action keeps GateInv.
LEMMA GateStep ==
    ASSUME ~Overlap, TypeOK, ExitInv, GateInv, [Next]_vars PROVE GateInv'
<1> USE DestroyAssumption DEF TypeOK, ExitInv, GateInv, host, files, gate, session, history
<1>1. ASSUME NEW d \in Destroyers, GcLists(d) PROVE GateInv'
  BY <1>1 DEF GcLists, MayDestroy
<1>2. ASSUME NEW d \in Destroyers, Begin(d) PROVE GateInv'
  BY <1>2 DEF Begin, MayDestroy
<1>3. ASSUME NEW d \in Destroyers, NEW r \in Repos, NothingToDelete(d, r) PROVE GateInv'
  BY <1>3 DEF NothingToDelete, Conclude
<1>4. ASSUME NEW d \in Destroyers, NEW r \in Repos, Gate(d, r) PROVE GateInv'
  <2> DEFINE S == IF force[d] THEN {} ELSE Unapplied(d, r)
  <2>1. /\ counted' = [counted EXCEPT ![d] = S]
        /\ cur' = [cur EXCEPT ![d] = r]
        /\ step' = [step EXCEPT ![d] = IF S = {} THEN "delete" ELSE "ask"]
        /\ UNCHANGED <<host, files, container, pc, todo, read, force, outcome, session, history>>
    BY <1>4 DEF Gate
  <2>2. ~force[d] => tip[r] \subseteq applied[r] \cup S \cup {Baseline}
    BY DEF Unapplied
  <2>3. S # {} => ~force[d]
    OBVIOUS
  <2> HIDE DEF S
  <2>4. step'[d] = "ask" => tip[r] \subseteq applied[r] \cup S \cup {Baseline}
    BY <2>1, <2>2, <2>3
  <2>5. step'[d] = "delete" /\ ~force[d] => tip[r] \subseteq applied[r] \cup {Baseline}
    BY <2>1, <2>2
  <2>6. QED
    BY <2>1, <2>4, <2>5
<1>5. ASSUME NEW d \in Destroyers, NEW r \in Repos, GateFails(d, r) PROVE GateInv'
  BY <1>5 DEF GateFails, Deletable, Conclude
<1>6. ASSUME NEW d \in Destroyers, Agree(d) PROVE GateInv'
  BY <1>6 DEF Agree
<1>7. ASSUME NEW d \in Destroyers, Decline(d) PROVE GateInv'
  BY <1>7 DEF Decline, Conclude
<1>8. ASSUME NEW d \in Destroyers, Delete(d) PROVE GateInv'
  BY <1>8 DEF Delete, Conclude
<1>9. ASSUME NEW d \in Destroyers, DeleteFails(d) PROVE GateInv'
  BY <1>9 DEF DeleteFails, Conclude
<1>10. ASSUME NEW d \in Destroyers, Finish(d) PROVE GateInv'
  BY <1>10 DEF Finish, MayRemoveArchive
<1>11. ASSUME NEW d \in Destroyers, GcEnds(d) PROVE GateInv'
  BY <1>11 DEF GcEnds
<1>12. ASSUME NEW r \in Repos, ExitReads(r) PROVE GateInv'
  BY <1>12 DEF ExitReads, MayExit
<1>13. ASSUME NEW c \in Commits, ExitCommits(c) PROVE GateInv'
  <2>1. \A d \in Destroyers : step[d] = "next"
    BY <1>13 DEF ExitCommits
  <2>2. step' = step /\ pc' = pc
    BY <1>13 DEF ExitCommits
  <2>3. QED
    BY <2>1, <2>2
<1>14. CASE ExitFails
  BY <1>14 DEF ExitFails
<1>15. ASSUME NEW r \in Repos, NEW c \in Commits, Apply(r, c) PROVE GateInv'
  BY <1>15 DEF Apply
<1>16. ASSUME NEW r \in Repos, BranchDeleted(r) PROVE GateInv'
  BY <1>16 DEF BranchDeleted
<1>17. ASSUME NEW r \in Repos, MoveAway(r) PROVE GateInv'
  BY <1>17 DEF MoveAway
<1>18. ASSUME NEW r \in Repos, MoveBack(r) PROVE GateInv'
  BY <1>18 DEF MoveBack
<1>19. CASE UNCHANGED vars
  BY <1>19 DEF vars
<1>20. QED
  BY <1>1, <1>2, <1>3, <1>4, <1>5, <1>6, <1>7, <1>8, <1>9, <1>10,
     <1>11, <1>12, <1>13, <1>14, <1>15, <1>16, <1>17, <1>18, <1>19
     DEF Next, Destroy, Environment

\* Every action keeps OutcomeInv.
LEMMA OutcomeStep ==
    ASSUME ~Overlap, TypeOK, ExitInv, GateInv, OutcomeInv, [Next]_vars PROVE OutcomeInv'
<1>0. ASSUME NEW d \in Destroyers, NEW r \in Repos, NEW o, Conclude(d, r, o),
             NEW e \in Destroyers
      PROVE  todo'[e] = IF e = d THEN todo[e] \ {r} ELSE todo[e]
  BY <1>0, ConcludeValues
<1> USE DestroyAssumption
    DEF TypeOK, ExitInv, GateInv, OutcomeInv, Outcomes, host, files, gate, session, history
<1>1. ASSUME NEW d \in Destroyers, GcLists(d) PROVE OutcomeInv'
  BY <1>1 DEF GcLists, MayDestroy
<1>2. ASSUME NEW d \in Destroyers, Begin(d) PROVE OutcomeInv'
  BY <1>2 DEF Begin, MayDestroy
<1>3. ASSUME NEW d \in Destroyers, NEW r \in Repos, NothingToDelete(d, r) PROVE OutcomeInv'
  <2>1. PICK o \in Outcomes :
          /\ Conclude(d, r, o)
          /\ \/ r \notin reachable /\ o = "error"
             \/ r \notin exists /\ o = "missing"
             \/ pc[d] = "orphans"
    BY <1>3 DEF NothingToDelete
  <2>2. UNCHANGED <<host, history, pc, read>>
    BY <1>3, <2>1 DEF NothingToDelete, Conclude
  <2> SUFFICES ASSUME NEW e \in Destroyers, NEW q \in Repos
               PROVE  /\ pc[e] # "branches" => outcome'[e][q] = "none"
                      /\ outcome'[e][q] \in {"deleted", "missing"} => q \notin exists
                      /\ outcome'[e][q] = "error" => q \in moved
                      /\ pc[e] = "branches" /\ read[e] /\ q \notin todo'[e]
                           => outcome'[e][q] # "none"
    BY <2>2
  <2>3. CASE e = d /\ q = r /\ pc[d] = "branches"
    <3>1. outcome'[e][q] = o
      BY <2>1, <2>3, ConcludeValues
    <3>2. QED
      BY <2>1, <2>3, <3>1
  <2>4. CASE ~ (e = d /\ q = r /\ pc[d] = "branches")
    <3>1. outcome'[e][q] = outcome[e][q]
      BY <2>1, <2>4, ConcludeValues
    <3>2. pc[e] = "branches" /\ q \notin todo'[e] => q \notin todo[e]
      <4>1. todo'[e] = IF e = d THEN todo[e] \ {r} ELSE todo[e]
        BY <2>1, <1>0
      <4>2. CASE e = d
        BY <2>4, <4>1, <4>2
      <4>3. CASE e # d
        BY <4>1, <4>3
      <4>4. QED
        BY <4>2, <4>3
    <3>3. QED
      BY <3>1, <3>2
  <2>5. QED
    BY <2>3, <2>4
<1>4. ASSUME NEW d \in Destroyers, NEW r \in Repos, Gate(d, r) PROVE OutcomeInv'
  BY <1>4 DEF Gate, Deletable, Unapplied
<1>5. ASSUME NEW d \in Destroyers, NEW r \in Repos, GateFails(d, r) PROVE OutcomeInv'
  BY <1>5 DEF GateFails, Deletable, Conclude
<1>6. ASSUME NEW d \in Destroyers, Agree(d) PROVE OutcomeInv'
  BY <1>6 DEF Agree
<1>7. ASSUME NEW d \in Destroyers, Decline(d) PROVE OutcomeInv'
  BY <1>7 DEF Decline, Conclude
<1>8. ASSUME NEW d \in Destroyers, Delete(d) PROVE OutcomeInv'
  BY <1>8 DEF Delete, Conclude
<1>9. ASSUME NEW d \in Destroyers, DeleteFails(d) PROVE OutcomeInv'
  BY <1>9 DEF DeleteFails, Conclude
<1>10. ASSUME NEW d \in Destroyers, Finish(d) PROVE OutcomeInv'
  BY <1>10 DEF Finish, MayRemoveArchive
<1>11. ASSUME NEW d \in Destroyers, GcEnds(d) PROVE OutcomeInv'
  BY <1>11 DEF GcEnds
<1>12. ASSUME NEW r \in Repos, ExitReads(r) PROVE OutcomeInv'
  BY <1>12 DEF ExitReads, MayExit
<1>13. ASSUME NEW c \in Commits, ExitCommits(c) PROVE OutcomeInv'
  <2>1. UNCHANGED <<reachable, moved, pc, todo, read, outcome>>
    BY <1>13 DEF ExitCommits
  <2>2. exists' = exists \cup {exiting} /\ exiting \in Repos
    BY <1>13 DEF ExitCommits
  <2>3. exiting # NoRepo
    BY <2>2
  <2>4. \A d \in Destroyers : pc[d] # "branches"
    BY <2>3
  <2>5. \A d \in Destroyers : outcome[d][exiting] = "none"
    BY <2>2, <2>4
  <2>6. Repos \ reachable' \subseteq moved'
    BY <2>1
  <2>7. ASSUME NEW d \in Destroyers, NEW r \in Repos
        PROVE  /\ pc'[d] # "branches" => outcome'[d][r] = "none"
               /\ outcome'[d][r] \in {"deleted", "missing"} => r \notin exists'
               /\ outcome'[d][r] = "error" => r \in moved'
               /\ pc'[d] = "branches" /\ read'[d] /\ r \notin todo'[d]
                    => outcome'[d][r] # "none"
    BY <2>1, <2>2, <2>5, <2>7
  <2> QED
    BY <2>6, <2>7
<1>14. CASE ExitFails
  BY <1>14 DEF ExitFails
<1>15. ASSUME NEW r \in Repos, NEW c \in Commits, Apply(r, c) PROVE OutcomeInv'
  BY <1>15 DEF Apply
<1>16. ASSUME NEW r \in Repos, BranchDeleted(r) PROVE OutcomeInv'
  BY <1>16 DEF BranchDeleted
<1>17. ASSUME NEW r \in Repos, MoveAway(r) PROVE OutcomeInv'
  BY <1>17 DEF MoveAway
<1>18. ASSUME NEW r \in Repos, MoveBack(r) PROVE OutcomeInv'
  BY <1>18 DEF MoveBack
<1>19. CASE UNCHANGED vars
  BY <1>19 DEF vars
<1>20. QED
  BY <1>1, <1>2, <1>3, <1>4, <1>5, <1>6, <1>7, <1>8, <1>9, <1>10,
     <1>11, <1>12, <1>13, <1>14, <1>15, <1>16, <1>17, <1>18, <1>19
     DEF Next, Destroy, Environment

\* The invariant holds in every state.
LEMMA Invariant ==
    ASSUME ~Overlap PROVE Spec => [](TypeOK /\ IInv)
<1>1. Init => IInv
  BY DestroyAssumption DEF Init, IInv, ExitInv, GateInv, OutcomeInv
<1>2. TypeOK /\ IInv /\ [Next]_vars => IInv'
  BY ExitStep, GateStep, OutcomeStep DEF IInv
<1>3. QED
  BY <1>1, <1>2, TypeCorrect, TypeStep, PTL DEF Spec

-----------------------------------------------------------------------------
\* A step takes nothing off a branch that no other carries and the user has not given up.
LEMMA KeptStep ==
    ASSUME ~Overlap, TypeOK, IInv, [Next]_vars, NEW r0 \in Repos
    PROVE  Held(r0) \ (Held(r0)' \cup {Baseline}) \subseteq applied'[r0] \cup given_up'[r0]
<1> DEFINE Kept == Held(r0) \ (Held(r0)' \cup {Baseline})
                     \subseteq applied'[r0] \cup given_up'[r0]
<1> USE DestroyAssumption
    DEF TypeOK, IInv, ExitInv, GateInv, Held, host, files, gate, session, history
<1>1. ASSUME NEW d \in Destroyers, GcLists(d) PROVE Kept
  BY <1>1 DEF GcLists, MayDestroy
<1>2. ASSUME NEW d \in Destroyers, Begin(d) PROVE Kept
  BY <1>2 DEF Begin, MayDestroy
<1>3. ASSUME NEW d \in Destroyers, NEW r \in Repos, NothingToDelete(d, r) PROVE Kept
  BY <1>3 DEF NothingToDelete, Conclude
<1>4. ASSUME NEW d \in Destroyers, NEW r \in Repos, Gate(d, r) PROVE Kept
  BY <1>4 DEF Gate, Deletable, Unapplied
<1>5. ASSUME NEW d \in Destroyers, NEW r \in Repos, GateFails(d, r) PROVE Kept
  BY <1>5 DEF GateFails, Deletable, Conclude
<1>6. ASSUME NEW d \in Destroyers, Agree(d) PROVE Kept
  BY <1>6 DEF Agree
<1>7. ASSUME NEW d \in Destroyers, Decline(d) PROVE Kept
  BY <1>7 DEF Decline, Conclude
<1>8. ASSUME NEW d \in Destroyers, Delete(d) PROVE Kept
  BY <1>8 DEF Delete, Conclude
<1>9. ASSUME NEW d \in Destroyers, DeleteFails(d) PROVE Kept
  BY <1>9 DEF DeleteFails, Conclude
<1>10. ASSUME NEW d \in Destroyers, Finish(d) PROVE Kept
  BY <1>10 DEF Finish, MayRemoveArchive
<1>11. ASSUME NEW d \in Destroyers, GcEnds(d) PROVE Kept
  BY <1>11 DEF GcEnds
<1>12. ASSUME NEW r \in Repos, ExitReads(r) PROVE Kept
  BY <1>12 DEF ExitReads, MayExit
<1>13. ASSUME NEW c \in Commits, ExitCommits(c) PROVE Kept
  BY <1>13 DEF ExitCommits
<1>14. CASE ExitFails
  BY <1>14 DEF ExitFails
<1>15. ASSUME NEW r \in Repos, NEW c \in Commits, Apply(r, c) PROVE Kept
  BY <1>15 DEF Apply
<1>16. ASSUME NEW r \in Repos, BranchDeleted(r) PROVE Kept
  BY <1>16 DEF BranchDeleted
<1>17. ASSUME NEW r \in Repos, MoveAway(r) PROVE Kept
  BY <1>17 DEF MoveAway
<1>18. ASSUME NEW r \in Repos, MoveBack(r) PROVE Kept
  BY <1>18 DEF MoveBack
<1>19. CASE UNCHANGED vars
  BY <1>19 DEF vars
<1>20. QED
  BY <1>1, <1>2, <1>3, <1>4, <1>5, <1>6, <1>7, <1>8, <1>9, <1>10,
     <1>11, <1>12, <1>13, <1>14, <1>15, <1>16, <1>17, <1>18, <1>19
     DEF Next, Destroy, Environment

\* No destroy and no gc takes a session commit that no other branch carries and the user has
\* not given up, whatever other destroyers do between its gate and its deletion.
THEOREM NothingUnappliedIsLost ==
    ASSUME ~Overlap PROVE Spec => UnappliedKept
<1>1. TypeOK /\ IInv /\ [Next]_vars =>
        [\A r \in Repos :
            Held(r) \ (Held(r)' \cup {Baseline}) \subseteq applied'[r] \cup given_up'[r]]_vars
  BY KeptStep
<1>2. QED
  BY <1>1, Invariant, PTL DEF Spec, UnappliedKept

\* The archive, with which a branch can be found again, goes only after the branches: what
\* the one who removes it has found decides, not what others have.
THEOREM ArchiveIsLast ==
    ASSUME ~Overlap PROVE Spec => ArchiveGoesLast
<1> DEFINE Excused(d, r) == \/ r \in moved /\ outcome[d][r] = "error"
                            \/ ~read[d] /\ force[d] /\ outcome[d][r] = "none"
<1>1. ASSUME TypeOK, IInv, archive, ~archive', NEW d \in Destroyers, Finish(d)
      PROVE  Concludes(d) /\ \A r \in exists : Excused(d, r)
  <2>1. MayRemoveArchive(d) /\ pc[d] = "branches" /\ todo[d] = {}
    BY <1>1 DEF Finish, files
  <2>2. Concludes(d)
    <3>1. pc'[d] \in {"orphans", "ended"}
      BY <1>1 DEF Finish, TypeOK
    <3>2. QED
      BY <2>1, <3>1 DEF Concludes
  <2>3. ASSUME NEW r \in exists PROVE Excused(d, r)
    <3>1. r \in Repos /\ outcome[d][r] \in Outcomes
      BY <1>1 DEF TypeOK
    <3>2. outcome[d][r] \in {"none", "error"}
      BY <1>1, <2>1, <3>1 DEF IInv, OutcomeInv, MayRemoveArchive, Outcomes
    <3>3. outcome[d][r] = "error" => r \in moved
      BY <1>1, <3>1 DEF IInv, OutcomeInv
    <3>4. outcome[d][r] = "none" => ~read[d]
      BY <1>1, <2>1, <3>1 DEF IInv, OutcomeInv
    <3>5. ~read[d] => force[d]
      BY <2>1 DEF MayRemoveArchive
    <3>6. QED
      BY <3>2, <3>3, <3>4, <3>5
  <2>4. QED
    BY <2>2, <2>3
<1>2. ASSUME [Next]_vars, archive, ~archive' PROVE \E d \in Destroyers : Finish(d)
  <2> SUFFICES ASSUME ~ \E d \in Destroyers : Finish(d) PROVE archive' = archive
    BY <1>2
  <2>1. ASSUME NEW d \in Destroyers, Destroy(d) PROVE archive' = archive
    BY <2>1
       DEF Destroy, files, GcLists, Begin, NothingToDelete, Gate, GateFails, Agree, Decline,
           Delete, DeleteFails, Conclude, GcEnds
  <2>2. CASE Environment
    BY <2>2
       DEF Environment, files, ExitReads, ExitCommits, ExitFails, Apply, BranchDeleted,
           MoveAway, MoveBack
  <2>3. QED
    BY <1>2, <2>1, <2>2 DEF Next, vars, files
<1>3. TypeOK /\ IInv /\ [Next]_vars =>
        [archive /\ ~archive' =>
            \E d \in Destroyers :
                /\ Concludes(d)
                /\ \A r \in exists : \/ r \in moved /\ outcome[d][r] = "error"
                                     \/ ~read[d] /\ force[d] /\ outcome[d][r] = "none"]_vars
  BY <1>1, <1>2
<1>4. QED
  BY <1>3, Invariant, PTL DEF Spec, ArchiveGoesLast
=============================================================================
