------------------------- MODULE ResumeSandboxProofs -------------------------
(***************************************************************************)
(* For every number of resumes and of sessions: the types hold, no two      *)
(* resumes hold one session directory, a resume that fails alone has rolled *)
(* back, a container with a session's work goes only once its successor is  *)
(* committed, and what is restored is the session that was checked, unless  *)
(* a killed resume or a failed rollback left a directory after it.  For all *)
(* limits, repositories and sessions: a choice and a cap survive, and       *)
(* repositories only tighten.                                               *)
(***************************************************************************)
EXTENDS ResumeSandbox, ResourceLimits, WellFoundedInduction, TLAPS

\* Main names the container with the canonical name, when there is one.
LEMMA MainIsMain ==
    /\ Main # None => Main \in Containers /\ name[Main] = "main"
    /\ Main = None => \A c \in Containers : name[c] # "main"
<1>1. CASE \E c \in Containers : name[c] = "main"
  <2>1. Main \in Containers /\ name[Main] = "main"
    BY <1>1 DEF Main
  <2>2. QED
    BY <2>1, ResumeAssumption DEF Containers
<1>2. CASE ~ \E c \in Containers : name[c] = "main"
  BY <1>2 DEF Main
<1>3. QED
  BY <1>1, <1>2

-----------------------------------------------------------------------------
(***************************************************************************)
(* The inductive invariant.                                                 *)
(***************************************************************************)
Claimed   == {"restore", "rename_previous", "rename_staging", "write", "cleanup", "discard"}
Fresh     == {"idle", "confirm", "stop", "create"}
Staged    == {"next", "claim", "restore", "discard", "rename_previous"}

\* A resume past its claim holds a session number until it rolls back.
ClaimHeld == \A p \in Resumes : pc[p] \in Claimed => claim[p] # 0

\* A claimed number has its directory.
ClaimMade == \A p \in Resumes : claim[p] # 0 => sess[claim[p]] # "none"

\* Before it creates its container a resume has none, and before the swap it has no
\* backup; it knows of no previous container and no claim before it is confirmed.
NotYet(p) ==
    /\ pc[p] \in Fresh => name[p] = "none" /\ \A q \in Resumes : backup[q] # p
    /\ pc[p] \in Fresh \cup Staged => backup[p] = None
    /\ pc[p] \in {"idle", "confirm"} => previous[p] = None /\ claim[p] = 0

\* A resume whose session has metadata has nothing left but the cleanup.
Finishing(p) ==
    /\ p \in committed => pc[p] \in {"cleanup", "done", "crashed"}
    /\ pc[p] = "cleanup" => p \in committed

\* While a resume beside no other is active, no other is; after its swap the canonical
\* name is its own, and while it has a backup nobody else takes the name.
Undisturbed(p) ==
    /\ \A q \in Resumes : q # p => ~Active(q)
    /\ pc[p] \in {"write", "cleanup"} => name[p] = "main"
    /\ pc[p] \in {"rename_staging", "write", "containers_back"} /\ backup[p] # None =>
          \A c \in Containers : name[c] = "main" => c = p

\* Where the container to go back to is, and the resume's own, at each step.
Recoverable(p) ==
    LET c == previous[p] IN
    /\ c # p
    /\ pc[p] \in Fresh => name[c] = "main"
    /\ pc[p] \in Staged => name[c] = "main" /\ name[p] = "staging"
    /\ pc[p] \in {"rename_staging", "write"} => backup[p] = c /\ name[c] = "backup"
    /\ pc[p] = "rename_staging" => name[p] = "staging"
    /\ pc[p] = "containers_back" =>
          \/ backup[p] = None /\ name[c] = "main" /\ name[p] \in {"none", "staging"}
          \/ backup[p] = c /\ name[c] = "backup" /\ name[p] = "main"
    /\ pc[p] = "manifest_back" => name[c] = "main" /\ name[p] = "none"

SwapInvOf(p) ==
    /\ NotYet(p) /\ Finishing(p)
    /\ p \in alone /\ Active(p) => Undisturbed(p)
    /\ p \in alone \ faulted /\ Active(p) /\ previous[p] # None => Recoverable(p)

SwapInv == \A p \in Resumes : SwapInvOf(p)

\* Every step of a resume keeps the types.
LEMMA TypeResume ==
    ASSUME TypeOK, ClaimHeld, NEW p \in Resumes, Resume(p) PROVE TypeOK'
<1> USE ResumeAssumption, MainIsMain DEF TypeOK, Goto, Pcs, Names, Containers, Sessions,
        containers, locals, history
<1>1. CASE Preflight(p)
  <2>1. PICK n \in 0 .. MaxSession : checked' = [checked EXCEPT ![p] = n]
    BY <1>1 DEF Preflight
  <2>2. checked' \in [Resumes -> 0 .. MaxSession]
    BY <2>1
  <2>3. alone' \subseteq Resumes
    BY <1>1 DEF Preflight
  <2>4. pc' \in [Resumes -> Pcs]
    BY <1>1 DEF Preflight
  <2>5. UNCHANGED <<name, running, sess, stopped, backup, candidate, claim, restored, previous,
                    committed, faulted>>
    BY <1>1 DEF Preflight
  <2> HIDE DEF Pcs, Names, Goto, locals, history, containers
  <2>6. QED
    BY <2>2, <2>3, <2>4, <2>5
<1>2. CASE Confirm(p)
  BY <1>2 DEF Confirm
<1>3. CASE Refuse(p)
  BY <1>3 DEF Refuse
<1>4. CASE StopPrevious(p)
  BY <1>4 DEF StopPrevious
<1>5. CASE CreateStaging(p)
  BY <1>5 DEF CreateStaging
<1>6. CASE ProvisionFails(p)
  <2>1. /\ name' = name \/ name' = [name EXCEPT ![p] = "staging"]
        /\ running' = running \/ running' = [running EXCEPT ![p] = TRUE]
    BY <1>6 DEF ProvisionFails
  <2>2. /\ pc' = [pc EXCEPT ![p] = "containers_back"]
        /\ UNCHANGED <<sess, locals, history>>
    BY <1>6 DEF ProvisionFails
  <2>3. /\ name' \in [Containers -> Names]
        /\ \A c, d \in Containers : name'[c] = "main" /\ name'[d] = "main" => c = d
    BY <2>1
  <2>4. running' \in [Containers -> BOOLEAN]
    BY <2>1
  <2>5. QED
    BY <2>2, <2>3, <2>4
<1>7. CASE NextSessionNumber(p)
  <2>1. PICK n \in 0 .. MaxSession : candidate' = [candidate EXCEPT ![p] = n + 1]
    BY <1>7 DEF NextSessionNumber
  <2>2. candidate' \in [Resumes -> 0 .. MaxSession + 1]
    BY <2>1
  <2>3. pc' = [pc EXCEPT ![p] = "claim"]
    BY <1>7 DEF NextSessionNumber
  <2>4. pc' \in [Resumes -> Pcs]
    BY <2>3
  <2>5. UNCHANGED <<name, running, sess, checked, stopped, backup, claim, restored, previous,
                    committed, alone, faulted>>
    BY <1>7 DEF NextSessionNumber
  <2> HIDE DEF Pcs, Names, Goto, locals, history, containers
  <2>6. QED
    BY <2>2, <2>4, <2>5
<1>8. CASE Claim(p)
  <2>1. candidate[p] \in Sessions /\ candidate[p] \in 0 .. MaxSession
    BY <1>8 DEF Claim
  <2>2. /\ sess' = [sess EXCEPT ![candidate[p]] = "claimed"]
        /\ claim' = [claim EXCEPT ![p] = candidate[p]]
        /\ pc' = [pc EXCEPT ![p] = "restore"]
    BY <1>8 DEF Claim
  <2>3. sess' \in [Sessions -> {"none", "claimed", "written"}]
    BY <2>2
  <2>4. claim' \in [Resumes -> 0 .. MaxSession]
    BY <2>1, <2>2
  <2>5. pc' \in [Resumes -> Pcs]
    BY <2>2
  <2>6. UNCHANGED <<name, running, checked, stopped, backup, candidate, restored, previous,
                    committed, alone, faulted>>
    BY <1>8 DEF Claim
  <2> HIDE DEF Pcs, Names, Goto, locals, history, containers
  <2>7. QED
    BY <2>3, <2>4, <2>5, <2>6
<1>9. CASE ClaimTaken(p)
  BY <1>9 DEF ClaimTaken
<1>10. CASE Restore(p)
  <2>1. claim[p] - 1 \in 0 .. MaxSession
    BY <1>10 DEF Restore, ClaimHeld, Claimed
  <2>2. QED
    BY <1>10, <2>1 DEF Restore
<1>11. CASE RestoreFails(p)
  BY <1>11 DEF RestoreFails
<1>12. CASE Discard(p)
  <2>1. claim[p] \in Sessions
    BY <1>12 DEF Discard, ClaimHeld, Claimed
  <2>2. sess' \in [Sessions -> {"none", "claimed", "written"}]
    BY <1>12, <2>1 DEF Discard
  <2>3. QED
    BY <1>12, <2>2 DEF Discard
<1>13. CASE RenamePrevious(p)
  BY <1>13 DEF RenamePrevious
<1>14. CASE RenamePreviousFails(p)
  BY <1>14 DEF RenamePreviousFails
<1>15. CASE RenameStaging(p)
  BY <1>15 DEF RenameStaging
<1>16. CASE RenameStagingFails(p)
  <2>1. name' = name \/ (backup[p] # None /\ Main = None
                             /\ name' = [name EXCEPT ![backup[p]] = "main"])
    BY <1>16 DEF RenameStagingFails
  <2>2. /\ pc' = [pc EXCEPT ![p] = "containers_back"]
        /\ backup' = [backup EXCEPT ![p] = None]
        /\ faulted' = faulted \/ faulted' = faulted \cup {p}
        /\ UNCHANGED <<running, sess, checked, stopped, candidate, claim, restored, previous,
                        committed, alone>>
    BY <1>16 DEF RenameStagingFails
  <2>3. /\ name' \in [Containers -> Names]
        /\ \A c, d \in Containers : name'[c] = "main" /\ name'[d] = "main" => c = d
    <3>1. CASE name' = name
      BY <3>1
    <3>2. CASE Main = None /\ name' = [name EXCEPT ![backup[p]] = "main"]
      <4>1. /\ name' \in [Containers -> Names]
            /\ \A c \in Containers : name'[c] = "main" => c = backup[p]
        BY <3>2
      <4>2. QED
        BY <4>1
    <3>3. QED
      BY <2>1, <3>1, <3>2
  <2>4. QED
    BY <2>2, <2>3
<1>17. CASE Write(p)
  BY <1>17 DEF Write
<1>18. CASE WriteFails(p)
  BY <1>18 DEF WriteFails
<1>19. CASE Cleanup(p)
  <2>1. /\ \E c \in Containers :
              /\ name' = name \/ name' = [name EXCEPT ![c] = "none"]
              /\ running' = running \/ running' = [running EXCEPT ![c] = FALSE]
        /\ faulted' = faulted \/ faulted' = faulted \cup {p}
    BY <1>19 DEF Cleanup, Remove
  <2>2. pc' = [pc EXCEPT ![p] = "done"] /\ UNCHANGED <<sess, locals, committed, alone>>
    BY <1>19 DEF Cleanup
  <2>3. /\ name' \in [Containers -> Names]
        /\ \A c, d \in Containers : name'[c] = "main" /\ name'[d] = "main" => c = d
    BY <2>1
  <2>4. running' \in [Containers -> BOOLEAN]
    <3>1. PICK c \in Containers : running' = running \/ running' = [running EXCEPT ![c] = FALSE]
      BY <2>1
    <3>2. [running EXCEPT ![c] = FALSE] \in [Containers -> BOOLEAN]
      OBVIOUS
    <3>3. QED
      BY <3>1, <3>2
  <2>5. pc' \in [Resumes -> Pcs]
    BY <2>2
  <2>6. faulted' \subseteq Resumes
    BY <2>1
  <2>7. UNCHANGED <<sess, checked, stopped, backup, candidate, claim, restored, previous,
                    committed, alone>>
    BY <2>2
  <2> HIDE DEF Pcs, Names, Goto, locals, history, containers
  <2>8. QED
    BY <2>3, <2>4, <2>5, <2>6, <2>7
<1>20. CASE ContainersBack(p)
  <2>1. /\ pc' = [pc EXCEPT ![p] = "manifest_back"]
        /\ faulted' = faulted \/ faulted' = faulted \cup {p}
        /\ UNCHANGED <<sess, locals, committed, alone>>
    BY <1>20 DEF ContainersBack, SwapBack, Remove
  <2>2. /\ name' \in [Containers -> Names] /\ running' \in [Containers -> BOOLEAN]
        /\ \A c, d \in Containers : name'[c] = "main" /\ name'[d] = "main" => c = d
    <3>1. CASE backup[p] # None /\ name[backup[p]] = "backup" /\ SwapBack(p)
      <4>1. \/ name' = name
            \/ name' = [c \in Containers |-> IF c = Main THEN "none" ELSE name[c]]
            \/ name' = [c \in Containers |-> IF c = backup[p] THEN "main"
                                            ELSE IF c = Main THEN "none" ELSE name[c]]
        BY <3>1 DEF SwapBack
      <4>2. \/ running' = running
            \/ running' = [c \in Containers |-> running[c] /\ c # Main]
        BY <3>1 DEF SwapBack
      <4>3. running' \in [Containers -> BOOLEAN]
        <5>1. \A c \in Containers : (running[c] /\ c # Main) \in BOOLEAN
          OBVIOUS
        <5>2. [c \in Containers |-> running[c] /\ c # Main] \in [Containers -> BOOLEAN]
          BY <5>1, Zenon
        <5>3. QED
          BY <4>2, <5>2
      <4>4. /\ name' \in [Containers -> Names]
            /\ \A c, d \in Containers : name'[c] = "main" /\ name'[d] = "main" => c = d
        <5>1. \A c \in Containers : c # Main => name[c] # "main"
          OBVIOUS
        <5>2. CASE name' = [c \in Containers |-> IF c = backup[p] THEN "main"
                                               ELSE IF c = Main THEN "none" ELSE name[c]]
          <6>1. name' \in [Containers -> Names]
            BY <5>2
          <6>2. \A c \in Containers : name'[c] = "main" => c = backup[p]
            BY <5>1, <5>2
          <6>3. QED
            BY <6>1, <6>2
        <5>3. CASE \/ name' = name
                   \/ name' = [c \in Containers |-> IF c = Main THEN "none" ELSE name[c]]
          BY <5>3
        <5>4. QED
          BY <4>1, <5>2, <5>3
      <4>5. QED
        BY <4>3, <4>4
    <3>2. CASE Remove(p, p)
      <4>1. \/ name' = [name EXCEPT ![p] = "none"] /\ running' = [running EXCEPT ![p] = FALSE]
            \/ UNCHANGED <<name, running>>
        BY <3>2 DEF Remove
      <4>2. p \in Containers
        OBVIOUS
      <4>3. running' \in [Containers -> BOOLEAN]
        BY <4>1
      <4>4. name' \in [Containers -> Names]
        <5>1. name \in [Containers -> Names] /\ "none" \in Names
          OBVIOUS
        <5> HIDE DEF TypeOK, Names, Containers, Pcs
        <5>2. QED
          BY <4>1, <5>1
      <4>5. \A c \in Containers : name'[c] = "main" => name[c] = "main"
        BY <4>1, <4>2
      <4>6. QED
        BY <4>3, <4>4, <4>5
    <3>3. CASE UNCHANGED containers
      BY <3>3
    <3>4. QED
      BY <1>20, <3>1, <3>2, <3>3 DEF ContainersBack
  <2>3. QED
    BY <2>1, <2>2
<1>21. CASE ManifestBack(p)
  <2>1. /\ pc' = [pc EXCEPT ![p] = "failed"]
        /\ faulted' = faulted \/ faulted' = faulted \cup {p}
        /\ UNCHANGED <<name, checked, stopped, backup, candidate, restored, previous,
                        committed, alone>>
    BY <1>21 DEF ManifestBack
  <2>2. running' \in [Containers -> BOOLEAN]
    BY <1>21 DEF ManifestBack
  <2>3. /\ sess' \in [Sessions -> {"none", "claimed", "written"}]
        /\ claim' \in [Resumes -> 0 .. MaxSession]
    <3>1. \/ sess' = sess /\ claim' = claim
          \/ /\ claim[p] # 0
             /\ sess' = [sess EXCEPT ![claim[p]] = "none"]
             /\ claim' = [claim EXCEPT ![p] = 0]
      BY <1>21 DEF ManifestBack
    <3>2. CASE /\ claim[p] # 0
               /\ sess' = [sess EXCEPT ![claim[p]] = "none"]
               /\ claim' = [claim EXCEPT ![p] = 0]
      <4>1. sess' \in [Sessions -> {"none", "claimed", "written"}]
        BY <3>2
      <4>2. claim' \in [Resumes -> 0 .. MaxSession]
        BY <3>2
      <4>3. QED
        BY <4>1, <4>2
    <3>3. QED
      BY <3>1, <3>2
  <2>4. QED
    BY <2>1, <2>2, <2>3
<1>22. QED
  BY <1>1, <1>2, <1>3, <1>4, <1>5, <1>6, <1>7, <1>8, <1>9, <1>10, <1>11, <1>12, <1>13,
     <1>14, <1>15, <1>16, <1>17, <1>18, <1>19, <1>20, <1>21 DEF Resume

\* So does every step.
LEMMA TypeStep == TypeOK /\ ClaimHeld /\ [Next]_vars => TypeOK'
<1> SUFFICES ASSUME TypeOK, ClaimHeld, [Next]_vars PROVE TypeOK'
  OBVIOUS
<1>1. ASSUME NEW p \in Resumes, Resume(p) PROVE TypeOK'
  BY <1>1, TypeResume
<1>2. ASSUME NEW p \in Resumes, CliKilled(p) PROVE TypeOK'
  BY <1>2 DEF CliKilled, Goto, Pcs, TypeOK, containers, locals, history
<1>3. CASE ContainerRemoved
  BY <1>3, MainIsMain DEF ContainerRemoved, Names, TypeOK, locals, history
<1>4. CASE UNCHANGED vars
  BY <1>4 DEF vars, TypeOK, containers, locals, history
<1>5. QED
  BY <1>1, <1>2, <1>3, <1>4 DEF Next

-----------------------------------------------------------------------------
ClaimInv == ClaimHeld /\ ClaimMade /\ ClaimsAreUnique

\* Only the claim and the two rollbacks change who holds which number: mkdir succeeds on
\* an absent directory only, and a rollback removes a directory nobody else holds.
LEMMA ClaimStep == TypeOK /\ ClaimInv /\ [Next]_vars => ClaimInv'
<1> SUFFICES ASSUME TypeOK, ClaimInv, [Next]_vars PROVE ClaimInv'
  OBVIOUS
<1> USE DEF ClaimInv
<1> DEFINE Moves(p, l) == /\ pc' = [pc EXCEPT ![p] = l]
                          /\ UNCHANGED <<claim, sess>>
                          /\ l \in Claimed => pc[p] \in Claimed
<1>1. ASSUME NEW p \in Resumes, NEW l, Moves(p, l) PROVE ClaimInv'
  <2>1. ClaimHeld'
    BY <1>1 DEF ClaimHeld, TypeOK
  <2>2. ClaimMade' /\ ClaimsAreUnique'
    BY <1>1 DEF ClaimMade, ClaimsAreUnique
  <2>3. QED
    BY <2>1, <2>2
<1>2. ASSUME NEW p \in Resumes, Resume(p) PROVE ClaimInv'
  <2> USE DEF Goto, Claimed, containers, locals, history
  <2>1. CASE Preflight(p)
    BY <1>1, <2>1 DEF Preflight
  <2>2. CASE Confirm(p)
    BY <1>1, <2>2 DEF Confirm
  <2>3. CASE Refuse(p)
    BY <1>1, <2>3 DEF Refuse
  <2>4. CASE StopPrevious(p)
    BY <1>1, <2>4 DEF StopPrevious
  <2>5. CASE CreateStaging(p)
    BY <1>1, <2>5 DEF CreateStaging
  <2>6. CASE ProvisionFails(p)
    BY <1>1, <2>6 DEF ProvisionFails
  <2>7. CASE NextSessionNumber(p)
    BY <1>1, <2>7 DEF NextSessionNumber
  <2>8. CASE Claim(p)
    <3> DEFINE n == candidate[p]
    <3>1. /\ n \in Sessions /\ sess[n] = "none"
          /\ sess' = [sess EXCEPT ![n] = "claimed"]
          /\ claim' = [claim EXCEPT ![p] = n]
          /\ pc' = [pc EXCEPT ![p] = "restore"]
      BY <2>8 DEF Claim
    <3>2. n # 0
      BY <3>1 DEF Sessions
    <3>3. \A q \in Resumes : claim[q] # n
      BY <3>1, <3>2 DEF ClaimMade
    <3>4. \A q \in Resumes : claim[q] # 0 => claim[q] \in Sessions
      BY ResumeAssumption DEF TypeOK, Sessions
    <3>5. ClaimHeld'
      BY <3>1, <3>2 DEF ClaimHeld, TypeOK
    <3>6. ClaimMade'
      BY <3>1, <3>3, <3>4 DEF ClaimMade, TypeOK
    <3>7. ClaimsAreUnique'
      BY <3>1, <3>3 DEF ClaimsAreUnique, TypeOK
    <3>8. QED
      BY <3>5, <3>6, <3>7
  <2>9. CASE ClaimTaken(p)
    BY <2>9 DEF ClaimTaken, ClaimHeld, ClaimMade, ClaimsAreUnique
  <2>10. CASE Restore(p)
    BY <1>1, <2>10 DEF Restore
  <2>11. CASE RestoreFails(p)
    BY <1>1, <2>11 DEF RestoreFails
  <2>12. ASSUME /\ claim[p] # 0
                /\ sess' = [sess EXCEPT ![claim[p]] = IF @ = "claimed" THEN "none" ELSE @]
                /\ claim' = [claim EXCEPT ![p] = 0]
                /\ \A q \in Resumes : q # p => pc'[q] = pc[q]
                /\ pc'[p] \notin Claimed
         PROVE  ClaimInv'
    <3>1. \A q \in Resumes : q # p /\ claim[q] # 0 => claim[q] # claim[p]
      BY DEF ClaimsAreUnique
    <3>2. \A q \in Resumes : claim[q] # 0 => claim[q] \in Sessions
      BY ResumeAssumption DEF TypeOK, Sessions
    <3>3. ClaimHeld'
      BY <2>12 DEF ClaimHeld, TypeOK
    <3>4. ClaimMade'
      BY <2>12, <3>1, <3>2 DEF ClaimMade, TypeOK
    <3>5. ClaimsAreUnique'
      BY <2>12 DEF ClaimsAreUnique, TypeOK
    <3>6. QED
      BY <3>3, <3>4, <3>5
  <2>13. CASE Discard(p)
    BY <2>12, <2>13 DEF Discard, ClaimHeld, TypeOK
  <2>14. CASE RenamePrevious(p)
    BY <1>1, <2>14 DEF RenamePrevious
  <2>15. CASE RenamePreviousFails(p)
    BY <1>1, <2>15 DEF RenamePreviousFails
  <2>16. CASE RenameStaging(p)
    BY <1>1, <2>16 DEF RenameStaging
  <2>17. CASE RenameStagingFails(p)
    BY <1>1, <2>17 DEF RenameStagingFails
  <2>18. CASE Write(p)
    <3>1. /\ claim[p] \in Sessions
          /\ sess' = [sess EXCEPT ![claim[p]] = "written"]
          /\ pc' = [pc EXCEPT ![p] = "cleanup"]
          /\ claim' = claim
      BY <2>18, ResumeAssumption DEF Write, ClaimHeld, TypeOK, Sessions
    <3>2. ClaimHeld' /\ ClaimsAreUnique'
      BY <2>18, <3>1 DEF Write, ClaimHeld, ClaimsAreUnique, TypeOK
    <3>3. ClaimMade'
      BY <3>1, ResumeAssumption DEF ClaimMade, TypeOK, Sessions
    <3>4. QED
      BY <3>2, <3>3
  <2>19. CASE WriteFails(p)
    BY <1>1, <2>19 DEF WriteFails
  <2>20. CASE Cleanup(p)
    BY <1>1, <2>20 DEF Cleanup
  <2>21. CASE ContainersBack(p)
    BY <1>1, <2>21 DEF ContainersBack
  <2>22. CASE ManifestBack(p)
    <3>1. CASE UNCHANGED <<sess, claim>>
      BY <1>1, <2>22, <3>1 DEF ManifestBack
    <3>2. CASE ~ UNCHANGED <<sess, claim>>
      BY <2>12, <2>22, <3>2 DEF ManifestBack, TypeOK
    <3>3. QED
      BY <3>1, <3>2
  <2>23. QED
    BY <1>2, <2>1, <2>2, <2>3, <2>4, <2>5, <2>6, <2>7, <2>8, <2>9, <2>10, <2>11, <2>13,
       <2>14, <2>15, <2>16, <2>17, <2>18, <2>19, <2>20, <2>21, <2>22 DEF Resume
<1>3. ASSUME NEW p \in Resumes, CliKilled(p) PROVE ClaimInv'
  BY <1>1, <1>3 DEF CliKilled, Goto, Claimed, locals
<1>4. CASE ContainerRemoved
  BY <1>4 DEF ContainerRemoved, locals, ClaimHeld, ClaimMade, ClaimsAreUnique
<1>5. CASE UNCHANGED vars
  BY <1>5 DEF vars, locals, ClaimHeld, ClaimMade, ClaimsAreUnique
<1>6. QED
  BY <1>2, <1>3, <1>4, <1>5 DEF Next

\* Only the first session has a directory at the start, and nobody has claimed it.
LEMMA InitInv == Init => TypeOK /\ ClaimInv
<1> SUFFICES ASSUME Init PROVE TypeOK /\ ClaimInv
  OBVIOUS
<1> USE ResumeAssumption DEF Init, Containers, Sessions, Names, Pcs
<1>1. PICK n \in {"none", "main"} : name = [c \in Containers |-> IF c = Old THEN n ELSE "none"]
  OBVIOUS
<1>2. PICK b \in BOOLEAN : running = [c \in Containers |-> c = Old /\ name[Old] = "main" /\ b]
  OBVIOUS
<1>3. /\ name \in [Containers -> Names]
      /\ \A c, d \in Containers : name[c] = "main" /\ name[d] = "main" => c = d
  BY <1>1
<1>4. running \in [Containers -> BOOLEAN]
  <2>1. \A c \in Containers : (c = Old /\ name[Old] = "main" /\ b) \in BOOLEAN
    OBVIOUS
  <2>2. QED
    BY <1>2, <2>1, Zenon
<1>5. sess \in [Sessions -> {"none", "claimed", "written"}]
  OBVIOUS
<1>6. TypeOK
  <2>1. /\ pc = [p \in Resumes |-> "idle"] /\ stopped = [p \in Resumes |-> FALSE]
        /\ checked = [p \in Resumes |-> 0] /\ candidate = [p \in Resumes |-> 0]
        /\ claim = [p \in Resumes |-> 0] /\ restored = [p \in Resumes |-> 0]
        /\ backup = [p \in Resumes |-> None] /\ previous = [p \in Resumes |-> None]
        /\ committed = {Old} /\ alone = Resumes /\ faulted = {}
    OBVIOUS
  <2> HIDE DEF Init
  <2>2. QED
    BY <1>3, <1>4, <1>5, <2>1 DEF TypeOK
<1>7. ClaimInv
  BY DEF ClaimInv, ClaimHeld, ClaimMade, ClaimsAreUnique, Claimed
<1>8. QED
  BY <1>6, <1>7

\* The types hold and at most one container has the canonical name, for any number of
\* resumes at once.
THEOREM TypeCorrect == Spec => []TypeOK
<1>1. Init => TypeOK /\ ClaimInv
  BY InitInv
<1>2. TypeOK /\ ClaimInv /\ [Next]_vars => TypeOK' /\ ClaimInv'
  BY TypeStep, ClaimStep DEF ClaimInv
<1>3. QED
  BY <1>1, <1>2, PTL DEF Spec

\* No two resumes hold one session directory, for any number of resumes at once.
THEOREM SessionsAreUnique == Spec => []ClaimsAreUnique
<1>1. Init => TypeOK /\ ClaimInv
  BY InitInv
<1>2. TypeOK /\ ClaimInv /\ [Next]_vars => TypeOK' /\ ClaimInv'
  BY TypeStep, ClaimStep DEF ClaimInv
<1>3. ClaimInv => ClaimsAreUnique
  BY DEF ClaimInv
<1>4. QED
  BY <1>1, <1>2, <1>3, PTL DEF Spec

-----------------------------------------------------------------------------
\* A resume's step changes its own container, the one with the canonical name and its
\* backup, nothing that another resume holds, and starts only where no resume that is
\* alone is under way.
LEMMA Footprint ==
    ASSUME TypeOK, NEW p \in Resumes, Resume(p)
    PROVE  /\ \A q \in Resumes : q # p => /\ pc'[q] = pc[q] /\ backup'[q] = backup[q]
                                          /\ previous'[q] = previous[q] /\ claim'[q] = claim[q]
           /\ \A c \in Containers : c # p /\ c # Main /\ c # backup[p] => name'[c] = name[c]
           /\ backup'[p] = backup[p] \/ backup'[p] = None \/ backup'[p] = Main
           /\ committed' = committed \/ committed' = committed \cup {p}
           /\ \A q \in alone' : q # p /\ Active(q) => q \in alone /\ Active(p)
           /\ faulted \subseteq faulted'
           /\ Active(p) \/ name' = name
           /\ pc'[p] = "failed" => Active(p)
<1> USE DEF TypeOK, Goto, Active, Over, containers, locals, history
<1>1. CASE Preflight(p)
  BY <1>1 DEF Preflight
<1>2. CASE Confirm(p)
  BY <1>2 DEF Confirm
<1>3. CASE Refuse(p)
  BY <1>3 DEF Refuse
<1>4. CASE StopPrevious(p)
  BY <1>4 DEF StopPrevious
<1>5. CASE CreateStaging(p)
  BY <1>5 DEF CreateStaging
<1>6. CASE ProvisionFails(p)
  BY <1>6 DEF ProvisionFails
<1>7. CASE NextSessionNumber(p)
  BY <1>7 DEF NextSessionNumber
<1>8. CASE Claim(p)
  BY <1>8 DEF Claim
<1>9. CASE ClaimTaken(p)
  BY <1>9 DEF ClaimTaken
<1>10. CASE Restore(p)
  BY <1>10 DEF Restore
<1>11. CASE RestoreFails(p)
  BY <1>11 DEF RestoreFails
<1>12. CASE Discard(p)
  BY <1>12 DEF Discard
<1>13. CASE RenamePrevious(p)
  BY <1>13 DEF RenamePrevious
<1>14. CASE RenamePreviousFails(p)
  BY <1>14 DEF RenamePreviousFails
<1>15. CASE RenameStaging(p)
  BY <1>15 DEF RenameStaging
<1>16. CASE RenameStagingFails(p)
  BY <1>16 DEF RenameStagingFails
<1>17. CASE Write(p)
  BY <1>17 DEF Write
<1>18. CASE WriteFails(p)
  BY <1>18 DEF WriteFails
<1>19. CASE Cleanup(p)
  BY <1>19 DEF Cleanup, Remove
<1>20. CASE ContainersBack(p)
  BY <1>20 DEF ContainersBack, Remove, SwapBack
<1>21. CASE ManifestBack(p)
  BY <1>21 DEF ManifestBack
<1>22. QED
  BY <1>1, <1>2, <1>3, <1>4, <1>5, <1>6, <1>7, <1>8, <1>9, <1>10,
     <1>11, <1>12, <1>13, <1>14, <1>15, <1>16, <1>17, <1>18, <1>19, <1>20,
     <1>21 DEF Resume

\* A step of one resume keeps what is known of the others.
LEMMA OtherStep ==
    ASSUME TypeOK, SwapInv, NEW p \in Resumes, Resume(p), NEW q \in Resumes, q # p
    PROVE  SwapInvOf(q)'
<1> USE Footprint
<1>1. NotYet(q)'
  <2>1. pc[q] \in Fresh => q # Main /\ q # backup[p] /\ q # None
    BY MainIsMain, ResumeAssumption DEF SwapInv, SwapInvOf, NotYet
  <2>2. q \in Containers
    BY DEF Containers
  <2>3. NotYet(q)
    BY DEF SwapInv, SwapInvOf
  <2>4. pc'[q] \in Fresh => name'[q] = "none" /\ \A r \in Resumes : backup'[r] # q
    BY <2>1, <2>2, <2>3 DEF NotYet
  <2>5. QED
    BY <2>3, <2>4 DEF NotYet
<1>2. Finishing(q)'
  BY DEF SwapInv, SwapInvOf, Finishing
<1>3. q \in alone' => ~Active(q)'
  BY DEF SwapInv, SwapInvOf, Undisturbed, Active
<1>4. QED
  BY <1>1, <1>2, <1>3 DEF SwapInvOf

\* A resume's own step keeps what is known of it.
LEMMA OwnStep ==
    ASSUME TypeOK, SwapInv, NEW p \in Resumes, Resume(p)
    PROVE  SwapInvOf(p)'
<1> USE ResumeAssumption, MainIsMain
    DEF TypeOK, Containers, Goto, Active, Over, Fresh, Staged, containers, locals, history
<1>a. SwapInvOf(p)
  BY DEF SwapInv
<1>b. p \in Containers
  OBVIOUS
<1> USE <1>a, <1>b DEF SwapInvOf
<1>1. CASE Preflight(p)
  <2>1. NotYet(p)' /\ Finishing(p)'
    BY <1>1 DEF Preflight, NotYet, Finishing
  <2>2. p \in alone' /\ Active(p)' => Undisturbed(p)'
    BY <1>1 DEF Preflight, NotYet, Undisturbed
  <2>3. p \in alone' \ faulted' /\ Active(p)' /\ previous'[p] # None => Recoverable(p)'
    BY <1>1 DEF Preflight, NotYet, Undisturbed, Recoverable
  <2>4. QED
    BY <2>1, <2>2, <2>3
<1>2. CASE Confirm(p)
  <2>1. NotYet(p)' /\ Finishing(p)'
    BY <1>2 DEF Confirm, NotYet, Finishing
  <2>2. p \in alone' /\ Active(p)' => Undisturbed(p)'
    BY <1>2 DEF Confirm, NotYet, Undisturbed
  <2>3. p \in alone' \ faulted' /\ Active(p)' /\ previous'[p] # None => Recoverable(p)'
    BY <1>2 DEF Confirm, NotYet, Undisturbed, Recoverable
  <2>4. QED
    BY <2>1, <2>2, <2>3
<1>3. CASE Refuse(p)
  <2>1. NotYet(p)' /\ Finishing(p)'
    BY <1>3 DEF Refuse, NotYet, Finishing
  <2>2. p \in alone' /\ Active(p)' => Undisturbed(p)'
    BY <1>3 DEF Refuse, NotYet, Undisturbed
  <2>3. p \in alone' \ faulted' /\ Active(p)' /\ previous'[p] # None => Recoverable(p)'
    BY <1>3 DEF Refuse, NotYet, Undisturbed, Recoverable
  <2>4. QED
    BY <2>1, <2>2, <2>3
<1>4. CASE StopPrevious(p)
  <2>1. NotYet(p)' /\ Finishing(p)'
    BY <1>4 DEF StopPrevious, NotYet, Finishing
  <2>2. p \in alone' /\ Active(p)' => Undisturbed(p)'
    BY <1>4 DEF StopPrevious, NotYet, Undisturbed
  <2>3. p \in alone' \ faulted' /\ Active(p)' /\ previous'[p] # None => Recoverable(p)'
    BY <1>4 DEF StopPrevious, NotYet, Undisturbed, Recoverable
  <2>4. QED
    BY <2>1, <2>2, <2>3
<1>5. CASE CreateStaging(p)
  <2>1. NotYet(p)' /\ Finishing(p)'
    BY <1>5 DEF CreateStaging, NotYet, Finishing
  <2>2. p \in alone' /\ Active(p)' => Undisturbed(p)'
    BY <1>5 DEF CreateStaging, NotYet, Undisturbed
  <2>3. p \in alone' \ faulted' /\ Active(p)' /\ previous'[p] # None => Recoverable(p)'
    BY <1>5 DEF CreateStaging, NotYet, Undisturbed, Recoverable
  <2>4. QED
    BY <2>1, <2>2, <2>3
<1>6. CASE ProvisionFails(p)
  <2>1. NotYet(p)' /\ Finishing(p)'
    BY <1>6 DEF ProvisionFails, NotYet, Finishing
  <2>2. p \in alone' /\ Active(p)' => Undisturbed(p)'
    BY <1>6 DEF ProvisionFails, NotYet, Undisturbed
  <2>3. p \in alone' \ faulted' /\ Active(p)' /\ previous'[p] # None => Recoverable(p)'
    BY <1>6 DEF ProvisionFails, NotYet, Undisturbed, Recoverable
  <2>4. QED
    BY <2>1, <2>2, <2>3
<1>7. CASE NextSessionNumber(p)
  <2>1. NotYet(p)' /\ Finishing(p)'
    BY <1>7 DEF NextSessionNumber, NotYet, Finishing
  <2>2. p \in alone' /\ Active(p)' => Undisturbed(p)'
    BY <1>7 DEF NextSessionNumber, NotYet, Undisturbed
  <2>3. p \in alone' \ faulted' /\ Active(p)' /\ previous'[p] # None => Recoverable(p)'
    BY <1>7 DEF NextSessionNumber, NotYet, Undisturbed, Recoverable
  <2>4. QED
    BY <2>1, <2>2, <2>3
<1>8. CASE Claim(p)
  <2>1. NotYet(p)' /\ Finishing(p)'
    BY <1>8 DEF Claim, NotYet, Finishing
  <2>2. p \in alone' /\ Active(p)' => Undisturbed(p)'
    BY <1>8 DEF Claim, NotYet, Undisturbed
  <2>3. p \in alone' \ faulted' /\ Active(p)' /\ previous'[p] # None => Recoverable(p)'
    BY <1>8 DEF Claim, NotYet, Undisturbed, Recoverable
  <2>4. QED
    BY <2>1, <2>2, <2>3
<1>9. CASE ClaimTaken(p)
  <2>1. NotYet(p)' /\ Finishing(p)'
    BY <1>9 DEF ClaimTaken, NotYet, Finishing
  <2>2. p \in alone' /\ Active(p)' => Undisturbed(p)'
    BY <1>9 DEF ClaimTaken, NotYet, Undisturbed
  <2>3. p \in alone' \ faulted' /\ Active(p)' /\ previous'[p] # None => Recoverable(p)'
    BY <1>9 DEF ClaimTaken, NotYet, Undisturbed, Recoverable
  <2>4. QED
    BY <2>1, <2>2, <2>3
<1>10. CASE Restore(p)
  <2>1. NotYet(p)' /\ Finishing(p)'
    BY <1>10 DEF Restore, NotYet, Finishing
  <2>2. p \in alone' /\ Active(p)' => Undisturbed(p)'
    BY <1>10 DEF Restore, NotYet, Undisturbed
  <2>3. p \in alone' \ faulted' /\ Active(p)' /\ previous'[p] # None => Recoverable(p)'
    BY <1>10 DEF Restore, NotYet, Undisturbed, Recoverable
  <2>4. QED
    BY <2>1, <2>2, <2>3
<1>11. CASE RestoreFails(p)
  <2>1. NotYet(p)' /\ Finishing(p)'
    BY <1>11 DEF RestoreFails, NotYet, Finishing
  <2>2. p \in alone' /\ Active(p)' => Undisturbed(p)'
    BY <1>11 DEF RestoreFails, NotYet, Undisturbed
  <2>3. p \in alone' \ faulted' /\ Active(p)' /\ previous'[p] # None => Recoverable(p)'
    BY <1>11 DEF RestoreFails, NotYet, Undisturbed, Recoverable
  <2>4. QED
    BY <2>1, <2>2, <2>3
<1>12. CASE Discard(p)
  <2>1. NotYet(p)' /\ Finishing(p)'
    BY <1>12 DEF Discard, NotYet, Finishing
  <2>2. p \in alone' /\ Active(p)' => Undisturbed(p)'
    BY <1>12 DEF Discard, NotYet, Undisturbed
  <2>3. p \in alone' \ faulted' /\ Active(p)' /\ previous'[p] # None => Recoverable(p)'
    BY <1>12 DEF Discard, NotYet, Undisturbed, Recoverable
  <2>4. QED
    BY <2>1, <2>2, <2>3
<1>13. CASE RenamePrevious(p)
  <2>1. NotYet(p)' /\ Finishing(p)'
    BY <1>13 DEF RenamePrevious, NotYet, Finishing
  <2>2. p \in alone' /\ Active(p)' => Undisturbed(p)'
    BY <1>13 DEF RenamePrevious, NotYet, Undisturbed
  <2>3. p \in alone' \ faulted' /\ Active(p)' /\ previous'[p] # None => Recoverable(p)'
    BY <1>13 DEF RenamePrevious, NotYet, Undisturbed, Recoverable
  <2>4. QED
    BY <2>1, <2>2, <2>3
<1>14. CASE RenamePreviousFails(p)
  <2>1. NotYet(p)' /\ Finishing(p)'
    BY <1>14 DEF RenamePreviousFails, NotYet, Finishing
  <2>2. p \in alone' /\ Active(p)' => Undisturbed(p)'
    BY <1>14 DEF RenamePreviousFails, NotYet, Undisturbed
  <2>3. p \in alone' \ faulted' /\ Active(p)' /\ previous'[p] # None => Recoverable(p)'
    BY <1>14 DEF RenamePreviousFails, NotYet, Undisturbed, Recoverable
  <2>4. QED
    BY <2>1, <2>2, <2>3
<1>15. CASE RenameStaging(p)
  <2>1. NotYet(p)' /\ Finishing(p)'
    BY <1>15 DEF RenameStaging, NotYet, Finishing
  <2>2. p \in alone' /\ Active(p)' => Undisturbed(p)'
    BY <1>15 DEF RenameStaging, NotYet, Undisturbed
  <2>3. p \in alone' \ faulted' /\ Active(p)' /\ previous'[p] # None => Recoverable(p)'
    BY <1>15 DEF RenameStaging, NotYet, Undisturbed, Recoverable
  <2>4. QED
    BY <2>1, <2>2, <2>3
<1>16. CASE RenameStagingFails(p)
  <2>1. NotYet(p)' /\ Finishing(p)'
    BY <1>16 DEF RenameStagingFails, NotYet, Finishing
  <2>2. p \in alone' /\ Active(p)' => Undisturbed(p)'
    BY <1>16 DEF RenameStagingFails, NotYet, Undisturbed
  <2>3. p \in alone' \ faulted' /\ Active(p)' /\ previous'[p] # None => Recoverable(p)'
    BY <1>16 DEF RenameStagingFails, NotYet, Undisturbed, Recoverable
  <2>4. QED
    BY <2>1, <2>2, <2>3
<1>17. CASE Write(p)
  <2>1. NotYet(p)' /\ Finishing(p)'
    BY <1>17 DEF Write, NotYet, Finishing
  <2>2. p \in alone' /\ Active(p)' => Undisturbed(p)'
    BY <1>17 DEF Write, NotYet, Undisturbed
  <2>3. p \in alone' \ faulted' /\ Active(p)' /\ previous'[p] # None => Recoverable(p)'
    BY <1>17 DEF Write, NotYet, Undisturbed, Recoverable
  <2>4. QED
    BY <2>1, <2>2, <2>3
<1>18. CASE WriteFails(p)
  <2>1. NotYet(p)' /\ Finishing(p)'
    BY <1>18 DEF WriteFails, NotYet, Finishing
  <2>2. p \in alone' /\ Active(p)' => Undisturbed(p)'
    BY <1>18 DEF WriteFails, NotYet, Undisturbed
  <2>3. p \in alone' \ faulted' /\ Active(p)' /\ previous'[p] # None => Recoverable(p)'
    BY <1>18 DEF WriteFails, NotYet, Undisturbed, Recoverable
  <2>4. QED
    BY <2>1, <2>2, <2>3
<1>19. CASE Cleanup(p)
  <2>1. NotYet(p)' /\ Finishing(p)'
    BY <1>19 DEF Cleanup, Remove, NotYet, Finishing
  <2>2. p \in alone' /\ Active(p)' => Undisturbed(p)'
    BY <1>19 DEF Cleanup, Remove, NotYet, Undisturbed
  <2>3. p \in alone' \ faulted' /\ Active(p)' /\ previous'[p] # None => Recoverable(p)'
    BY <1>19 DEF Cleanup, Remove, NotYet, Undisturbed, Recoverable
  <2>4. QED
    BY <2>1, <2>2, <2>3
<1>20. CASE ContainersBack(p)
  <2>1. NotYet(p)' /\ Finishing(p)'
    BY <1>20 DEF ContainersBack, Remove, SwapBack, NotYet, Finishing
  <2>2. p \in alone' /\ Active(p)' => Undisturbed(p)'
    BY <1>20 DEF ContainersBack, Remove, SwapBack, NotYet, Undisturbed
  <2>3. p \in alone' \ faulted' /\ Active(p)' /\ previous'[p] # None => Recoverable(p)'
    BY <1>20 DEF ContainersBack, Remove, SwapBack, NotYet, Undisturbed, Recoverable
  <2>4. QED
    BY <2>1, <2>2, <2>3
<1>21. CASE ManifestBack(p)
  <2>1. NotYet(p)' /\ Finishing(p)'
    BY <1>21 DEF ManifestBack, NotYet, Finishing
  <2>2. p \in alone' /\ Active(p)' => Undisturbed(p)'
    BY <1>21 DEF ManifestBack, NotYet, Undisturbed
  <2>3. p \in alone' \ faulted' /\ Active(p)' /\ previous'[p] # None => Recoverable(p)'
    BY <1>21 DEF ManifestBack, NotYet, Undisturbed, Recoverable
  <2>4. QED
    BY <2>1, <2>2, <2>3
<1>22. QED
  BY <1>1, <1>2, <1>3, <1>4, <1>5, <1>6, <1>7, <1>8, <1>9, <1>10,
     <1>11, <1>12, <1>13, <1>14, <1>15, <1>16, <1>17, <1>18, <1>19, <1>20,
     <1>21 DEF Resume

\* Every step keeps SwapInv.
LEMMA SwapStep == TypeOK /\ SwapInv /\ [Next]_vars => SwapInv'
<1> SUFFICES ASSUME TypeOK, SwapInv, [Next]_vars PROVE SwapInv'
  OBVIOUS
<1>1. ASSUME NEW p \in Resumes, Resume(p) PROVE SwapInv'
  BY <1>1, OwnStep, OtherStep DEF SwapInv
<1>2. ASSUME NEW p \in Resumes, CliKilled(p) PROVE SwapInv'
  <2> SUFFICES ASSUME NEW q \in Resumes PROVE SwapInvOf(q)'
    BY DEF SwapInv
  <2> USE <1>2 DEF CliKilled, Goto, Active, Over, Fresh, Staged, containers, locals, history,
               TypeOK, SwapInv, SwapInvOf
  <2>1. NotYet(q)' /\ Finishing(q)'
    BY DEF NotYet, Finishing
  <2>2. q \in alone => ~Active(q)'
    BY DEF Undisturbed
  <2>3. QED
    BY <2>1, <2>2
<1>3. CASE ContainerRemoved
  <2> SUFFICES ASSUME NEW q \in Resumes PROVE SwapInvOf(q)'
    BY DEF SwapInv
  <2>1. ~Active(q)'
    BY <1>3 DEF ContainerRemoved, Active
  <2>2. NotYet(q)' /\ Finishing(q)'
    BY <1>3, MainIsMain
       DEF ContainerRemoved, locals, history, TypeOK, Containers, NotYet, Finishing,
           SwapInv, SwapInvOf
  <2>3. QED
    BY <2>1, <2>2 DEF SwapInvOf
<1>4. CASE UNCHANGED vars
  BY <1>4 DEF vars, containers, locals, history, SwapInv, SwapInvOf, NotYet, Finishing,
              Undisturbed, Recoverable, Active
<1>5. QED
  BY <1>1, <1>2, <1>3, <1>4 DEF Next

\* No resume is under way at the start.
LEMMA InitSwap == Init => SwapInv
<1> SUFFICES ASSUME Init, NEW p \in Resumes PROVE SwapInvOf(p)
  BY DEF SwapInv
<1>1. pc[p] = "idle" /\ backup = [q \in Resumes |-> None] /\ previous[p] = None
      /\ claim[p] = 0 /\ committed = {Old}
  BY DEF Init
<1>2. name[p] = "none"
  BY ResumeAssumption DEF Init, Containers
<1>3. NotYet(p) /\ Finishing(p)
  BY <1>1, <1>2, ResumeAssumption DEF NotYet, Finishing
<1>4. QED
  BY <1>1, <1>3 DEF SwapInvOf, Active, Over

\* The state invariant of every resume.
LEMMA Invariant == Spec => [](TypeOK /\ ClaimInv /\ SwapInv)
<1>1. Init => TypeOK /\ ClaimInv /\ SwapInv
  BY InitInv, InitSwap
<1>2. TypeOK /\ ClaimInv /\ SwapInv /\ [Next]_vars => (TypeOK /\ ClaimInv /\ SwapInv)'
  BY TypeStep, ClaimStep, SwapStep DEF ClaimInv
<1>3. QED
  BY <1>1, <1>2, PTL DEF Spec

-----------------------------------------------------------------------------
\* While a resume beside no other is under way, only its own steps touch containers and
\* fail it.
LEMMA OnlyItself ==
    ASSUME TypeOK, SwapInv, [Next]_vars, NEW p \in alone, Active(p)
    PROVE  Resume(p) \/ (name' = name /\ pc'[p] # "failed")
<1> USE DEF TypeOK
<1>1. ASSUME NEW q \in Resumes, Resume(q), q # p PROVE name' = name /\ pc'[p] # "failed"
  BY <1>1, Footprint DEF SwapInv, SwapInvOf, Undisturbed, Active, Over
<1>2. ASSUME NEW q \in Resumes, CliKilled(q) PROVE name' = name /\ pc'[p] # "failed"
  BY <1>2 DEF CliKilled, Goto, containers, Active, Over
<1>3. CASE ContainerRemoved
  BY <1>3 DEF ContainerRemoved
<1>4. CASE UNCHANGED vars
  BY <1>4 DEF vars, containers, Active, Over
<1>5. QED
  BY <1>1, <1>2, <1>3, <1>4 DEF Next

\* A resume removes a container with a session's work in its cleanup only.
LEMMA KeptStep ==
    ASSUME TypeOK, SwapInv, NEW p \in Resumes, p \in alone, Active(p), Resume(p),
           NEW c \in committed, name[c] # "none", name'[c] = "none"
    PROVE  p \in committed /\ name[p] = "main"
<1> USE ResumeAssumption, MainIsMain DEF TypeOK, Containers, containers
<1>a. SwapInvOf(p)
  BY DEF SwapInv
<1>1. CASE Cleanup(p)
  BY <1>1, <1>a DEF Cleanup, SwapInvOf, Finishing, Undisturbed
<1>2. CASE ContainersBack(p)
  <2>1. p \notin committed
    BY <1>2, <1>a DEF ContainersBack, SwapInvOf, Finishing
  <2>2. c # p
    BY <2>1
  <2>3. CASE backup[p] # None /\ SwapBack(p)
    BY <1>2, <1>a, <2>2, <2>3 DEF ContainersBack, SwapBack, SwapInvOf, Undisturbed
  <2>4. CASE Remove(p, p) \/ UNCHANGED containers
    BY <2>2, <2>4 DEF Remove
  <2>5. QED
    BY <1>2, <2>3, <2>4 DEF ContainersBack
<1>3. CASE CreateStaging(p) \/ ProvisionFails(p)
  BY <1>3 DEF CreateStaging, ProvisionFails
<1>4. CASE RenamePrevious(p) \/ RenameStaging(p) \/ RenameStagingFails(p)
  BY <1>4 DEF RenamePrevious, RenameStaging, RenameStagingFails
<1>5. CASE name' = name
  BY <1>5
<1>6. QED
  BY <1>1, <1>2, <1>3, <1>4, <1>5
     DEF Resume, Preflight, Confirm, Refuse, StopPrevious, NextSessionNumber, Claim, ClaimTaken,
         Restore, RestoreFails, Discard, RenamePreviousFails, Write, WriteFails, ManifestBack

\* A container whose session has metadata goes only after the resume has put its own in its
\* place and written its metadata, for any number of resumes one after the other.
THEOREM WorkIsKept == Spec => CommittedKept
<1>1. TypeOK /\ SwapInv /\ [Next]_vars =>
        [\A c \in committed, p \in Resumes :
            /\ name[c] # "none" /\ name'[c] = "none"
            /\ Active(p) /\ p \in alone
            => p \in committed /\ name[p] = "main"]_vars
  BY OnlyItself, KeptStep
<1>2. QED
  BY <1>1, Invariant, PTL DEF Spec, CommittedKept

\* The last step of a failed resume: the previous container has its name back and runs,
\* and no claim without metadata is left.
LEMMA RollbackStep ==
    ASSUME TypeOK, SwapInv, NEW p \in Resumes, p \in alone, p \notin faulted',
           Active(p), Resume(p), pc'[p] = "failed"
    PROVE  /\ previous[p] # None =>
                /\ name'[previous[p]] = "main" /\ name'[p] = "none"
                /\ stopped[p] => running'[previous[p]]
           /\ \A n \in Sessions : sess'[n] = "claimed" => claim[p] # n
<1> USE ResumeAssumption, MainIsMain DEF TypeOK, Containers, Goto, containers, locals, history
<1>a. SwapInvOf(p) /\ p \notin faulted
  BY Footprint DEF SwapInv
<1>1. CASE Refuse(p)
  <2>1. previous[p] = None /\ claim[p] = 0
    BY <1>1, <1>a DEF Refuse, SwapInvOf, NotYet
  <2>2. QED
    BY <2>1 DEF Sessions
<1>2. CASE ManifestBack(p)
  <2>1. ASSUME previous[p] # None
        PROVE  /\ name'[previous[p]] = "main" /\ name'[p] = "none"
               /\ stopped[p] => running'[previous[p]]
    <3>1. name[previous[p]] = "main" /\ name[p] = "none"
      BY <1>2, <1>a, <2>1 DEF ManifestBack, SwapInvOf, Recoverable
    <3>2. Main = previous[p] /\ Main # None
      BY <2>1, <3>1
    <3>3. name' = name
      BY <1>2 DEF ManifestBack
    <3>4. stopped[p] => running'[previous[p]] = TRUE
      BY <1>2, <3>2 DEF ManifestBack
    <3>5. stopped[p] => running'[previous[p]]
      BY <3>4, Zenon
    <3>6. name'[previous[p]] = "main" /\ name'[p] = "none"
      BY <3>1, <3>3
    <3>7. QED
      BY <3>5, <3>6
  <2>2. \A n \in Sessions : sess'[n] = "claimed" => claim[p] # n
    BY <1>2 DEF ManifestBack, Sessions
  <2>3. QED
    BY <2>1, <2>2
<1>3. QED
  BY <1>1, <1>2
     DEF Resume, Preflight, Confirm, StopPrevious, CreateStaging, ProvisionFails,
         NextSessionNumber, Claim, ClaimTaken, Restore, RestoreFails, Discard, RenamePrevious,
         RenamePreviousFails, RenameStaging, RenameStagingFails, Write, WriteFails, Cleanup,
         ContainersBack, Active, Over

\* A resume that fails beside no other has rolled back, unless a step of the rollback
\* failed too: for any number of resumes one after the other.
THEOREM FailureRollsBack == Spec => RollsBack
<1>1. TypeOK /\ SwapInv /\ [Next]_vars =>
        [\A p \in alone \ faulted' :
            pc[p] # "failed" /\ pc'[p] = "failed" =>
                /\ previous[p] # None =>
                     /\ name'[previous[p]] = "main" /\ name'[p] = "none"
                     /\ stopped[p] => running'[previous[p]]
                /\ \A n \in Sessions : sess'[n] = "claimed" => claim[p] # n]_vars
  <2>1. ASSUME TypeOK, [Next]_vars, NEW p \in Resumes, pc[p] # "failed", pc'[p] = "failed"
        PROVE  Active(p)
    <3>1. CASE \E q \in Resumes : Resume(q)
      BY <2>1, <3>1, Footprint
    <3>2. CASE \E q \in Resumes : CliKilled(q)
      BY <2>1, <3>2 DEF CliKilled, Goto, TypeOK
    <3>3. CASE ContainerRemoved \/ UNCHANGED vars
      BY <2>1, <3>3 DEF ContainerRemoved, vars
    <3>4. QED
      BY <2>1, <3>1, <3>2, <3>3 DEF Next
  <2>2. QED
    BY <2>1, OnlyItself, RollbackStep DEF TypeOK
<1>2. QED
  BY <1>1, Invariant, PTL DEF Spec, RollsBack

-----------------------------------------------------------------------------
(***************************************************************************)
(* What is restored.                                                        *)
(***************************************************************************)
Unclaimed  == {"idle", "confirm", "stop", "create", "next", "claim"}
Unrestored == {"confirm", "stop", "create", "next", "claim", "restore"}

\* A directory without metadata belongs to a resume that is under way, was killed, or
\* failed to roll back; session 1 has its metadata.
HeldInv ==
    /\ sess[1] = "written"
    /\ \A n \in Sessions : sess[n] = "claimed" =>
          \E q \in Resumes : claim[q] = n /\ (Active(q) \/ pc[q] = "crashed" \/ q \in faulted)
    /\ \A q \in Resumes : pc[q] \in Unclaimed => claim[q] = 0
    /\ \A q \in Resumes : pc[q] \in {"cleanup", "done"} =>
          claim[q] \in Sessions /\ sess[claim[q]] = "written"

\* Until it has restored, a resume that meets no other has checked the latest session with
\* metadata, and goes for the number after the highest directory.
NewestOf(p) ==
    p \in alone /\ pc[p] \in Unrestored =>
        /\ checked[p] \in Sessions /\ sess[checked[p]] = "written"
        /\ \A n \in Sessions : sess[n] = "written" => n <= checked[p]
        /\ pc[p] = "claim" => /\ checked[p] < candidate[p]
                              /\ sess[candidate[p] - 1] # "none"
                              /\ \A n \in Sessions : candidate[p] <= n => sess[n] = "none"
        /\ pc[p] = "restore" => checked[p] < claim[p] /\ sess[claim[p] - 1] # "none"

NewestInv == \A p \in Resumes : NewestOf(p)

\* What a step of a resume does to the session directories: it makes the one it claims,
\* writes metadata in its own, or gives its own back.
LEMMA Directories ==
    ASSUME TypeOK, ClaimHeld, ClaimMade, NEW p \in Resumes, Resume(p)
    PROVE  /\ \A n \in Sessions : sess[n] = "written" => sess'[n] = "written"
           /\ \A n \in Sessions : sess[n] # "claimed" /\ sess'[n] = "claimed" =>
                 claim'[p] = n /\ pc[p] = "claim"
           /\ \A n \in Sessions : claim[p] = n /\ sess'[n] = "claimed" =>
                 \/ claim'[p] = n /\ (Active(p)' \/ p \in faulted')
                 \/ pc[p] \in Unclaimed \cup Over \cup {"cleanup"}
           /\ pc'[p] \in Unclaimed => pc[p] \in Unclaimed /\ claim'[p] = claim[p]
           /\ pc'[p] \in {"cleanup", "done"} =>
                 /\ claim'[p] = claim[p] /\ claim[p] \in Sessions
                 /\ \/ pc[p] = "cleanup" /\ sess' = sess
                    \/ sess'[claim[p]] = "written"
<1> USE ResumeAssumption
    DEF TypeOK, Goto, Active, Over, Unclaimed, Sessions, ClaimHeld, ClaimMade, Claimed,
        containers, locals, history
<1>1. CASE Preflight(p)
  BY <1>1 DEF Preflight
<1>2. CASE Confirm(p) \/ Refuse(p) \/ StopPrevious(p)
  BY <1>2 DEF Confirm, Refuse, StopPrevious
<1>3. CASE CreateStaging(p) \/ ProvisionFails(p)
  BY <1>3 DEF CreateStaging, ProvisionFails
<1>4. CASE NextSessionNumber(p)
  BY <1>4 DEF NextSessionNumber
<1>5. CASE Claim(p)
  BY <1>5 DEF Claim
<1>6. CASE ClaimTaken(p)
  BY <1>6 DEF ClaimTaken
<1>7. CASE Restore(p) \/ RestoreFails(p)
  BY <1>7 DEF Restore, RestoreFails
<1>8. CASE Discard(p)
  BY <1>8 DEF Discard
<1>9. CASE RenamePrevious(p) \/ RenamePreviousFails(p)
  BY <1>9 DEF RenamePrevious, RenamePreviousFails
<1>10. CASE RenameStaging(p) \/ RenameStagingFails(p)
  BY <1>10 DEF RenameStaging, RenameStagingFails
<1>11. CASE Write(p)
  BY <1>11 DEF Write
<1>12. CASE WriteFails(p)
  BY <1>12 DEF WriteFails
<1>13. CASE Cleanup(p)
  BY <1>13 DEF Cleanup, Remove
<1>14. CASE ContainersBack(p)
  BY <1>14 DEF ContainersBack, Remove, SwapBack
<1>15. CASE ManifestBack(p)
  BY <1>15 DEF ManifestBack
<1>16. QED
  BY <1>1, <1>2, <1>3, <1>4, <1>5, <1>6, <1>7, <1>8, <1>9, <1>10, <1>11, <1>12, <1>13, <1>14,
     <1>15 DEF Resume

\* A resume's step keeps an owner for every directory without metadata.
LEMMA HeldOwn ==
    ASSUME TypeOK, ClaimHeld, ClaimMade, HeldInv, NEW p \in Resumes, Resume(p)
    PROVE  HeldInv'
<1> USE Footprint, Directories, ResumeAssumption DEF HeldInv
<1>a. 1 \in Sessions
  BY DEF Sessions
<1>b. Active(p) \/ pc[p] = "idle"
  BY DEF Resume, Preflight, Confirm, Refuse, StopPrevious, CreateStaging, ProvisionFails,
         NextSessionNumber, Claim, ClaimTaken, Restore, RestoreFails, Discard, RenamePrevious,
         RenamePreviousFails, RenameStaging, RenameStagingFails, Write, WriteFails, Cleanup,
         ContainersBack, ManifestBack, Active, Over
<1>1. sess'[1] = "written"
  BY <1>a
<1>2. ASSUME NEW n \in Sessions, sess'[n] = "claimed"
      PROVE  \E q \in Resumes :
                claim'[q] = n /\ (Active(q)' \/ pc'[q] = "crashed" \/ q \in faulted')
  <2>1. CASE sess[n] # "claimed"
    <3>1. claim'[p] = n /\ pc[p] = "claim"
      BY <1>2, <2>1
    <3>2. Active(p)'
      BY <3>1 DEF Resume, Claim, Preflight, Confirm, Refuse, StopPrevious, CreateStaging,
         ProvisionFails, NextSessionNumber, ClaimTaken, Restore, RestoreFails, Discard,
         RenamePrevious, RenamePreviousFails, RenameStaging, RenameStagingFails, Write,
         WriteFails, Cleanup, ContainersBack, ManifestBack, Goto, TypeOK, Active, Over
    <3>3. QED
      BY <3>1, <3>2
  <2>2. CASE sess[n] = "claimed"
    <3>1. PICK q \in Resumes :
             claim[q] = n /\ (Active(q) \/ pc[q] = "crashed" \/ q \in faulted)
      BY <2>2
    <3>2. CASE q # p
      BY <3>1, <3>2 DEF Active
    <3>3. CASE q = p
      <4>1. n # 0
        BY DEF Sessions
      <4>2. pc[p] \notin Unclaimed
        BY <3>1, <3>3, <4>1
      <4>3. pc[p] # "cleanup"
        BY <2>2, <3>1, <3>3
      <4>4. pc[p] \notin Over
        BY <1>b, <4>2 DEF Active, Unclaimed
      <4>5. QED
        BY <1>2, <3>1, <3>3, <4>2, <4>3, <4>4
    <3>4. QED
      BY <3>2, <3>3
  <2>3. QED
    BY <2>1, <2>2
<1>3. ASSUME NEW q \in Resumes, pc'[q] \in Unclaimed PROVE claim'[q] = 0
  BY <1>3
<1>4. ASSUME NEW q \in Resumes, pc'[q] \in {"cleanup", "done"}
      PROVE  claim'[q] \in Sessions /\ sess'[claim'[q]] = "written"
  BY <1>4
<1>5. QED
  BY <1>1, <1>2, <1>3, <1>4

\* Every action keeps an owner for every directory without metadata.
LEMMA HeldStep == TypeOK /\ ClaimInv /\ HeldInv /\ [Next]_vars => HeldInv'
<1> SUFFICES ASSUME TypeOK, ClaimInv, HeldInv, [Next]_vars
             PROVE  HeldInv'
  OBVIOUS
<1>1. ASSUME NEW p \in Resumes, Resume(p) PROVE HeldInv'
  BY <1>1, HeldOwn DEF ClaimInv
<1>2. ASSUME NEW p \in Resumes, CliKilled(p) PROVE HeldInv'
  <2>1. /\ sess' = sess /\ claim' = claim /\ faulted' = faulted
        /\ pc' = [pc EXCEPT ![p] = "crashed"]
    BY <1>2 DEF CliKilled, Goto, locals, history
  <2>2. QED
    BY <2>1 DEF HeldInv, TypeOK, Active, Over, Unclaimed
<1>3. CASE ContainerRemoved \/ UNCHANGED vars
  BY <1>3 DEF ContainerRemoved, vars, locals, history, HeldInv, Active
<1>4. QED
  BY <1>1, <1>2, <1>3 DEF Next

\* HeldInv holds always.
LEMMA Held == Spec => []HeldInv
<1>1. Init => HeldInv
  BY ResumeAssumption DEF Init, HeldInv, Sessions, Unclaimed
<1>2. QED
  BY <1>1, HeldStep, Invariant, PTL DEF Spec

\* The resume's own steps.
LEMMA NewestOwn ==
    ASSUME TypeOK, HeldInv, NEW p \in Resumes, NewestOf(p), Resume(p)
    PROVE  NewestOf(p)'
<1> SUFFICES ASSUME p \in alone', pc'[p] \in Unrestored
             PROVE  /\ checked'[p] \in Sessions /\ sess'[checked'[p]] = "written"
                    /\ \A n \in Sessions : sess'[n] = "written" => n <= checked'[p]
                    /\ pc'[p] = "claim" =>
                          /\ checked'[p] < candidate'[p]
                          /\ sess'[candidate'[p] - 1] # "none"
                          /\ \A n \in Sessions : candidate'[p] <= n => sess'[n] = "none"
                    /\ pc'[p] = "restore" =>
                          checked'[p] < claim'[p] /\ sess'[claim'[p] - 1] # "none"
  BY DEF NewestOf
<1> USE ResumeAssumption DEF TypeOK, Goto, locals, history, Unrestored, Sessions
<1>1. CASE Preflight(p)
  <2>1. PICK n \in 0 .. MaxSession : /\ IsLatest(n, {"written"})
                                     /\ checked' = [checked EXCEPT ![p] = n]
    BY <1>1 DEF Preflight
  <2>2. checked'[p] = n
    BY <2>1
  <2>3. sess' = sess /\ pc'[p] = "confirm"
    BY <1>1 DEF Preflight
  <2>4. n \in Sessions
    BY <2>1 DEF IsLatest, HeldInv
  <2>5. QED
    BY <2>1, <2>2, <2>3, <2>4 DEF IsLatest
<1>2. CASE Confirm(p) \/ StopPrevious(p) \/ CreateStaging(p)
  <2>1. /\ sess' = sess /\ checked' = checked /\ p \in alone /\ pc[p] \in Unrestored
        /\ pc'[p] \notin {"claim", "restore"}
    BY <1>2 DEF Confirm, StopPrevious, CreateStaging
  <2>2. QED
    BY <2>1 DEF NewestOf
<1>3. CASE NextSessionNumber(p)
  <2>1. /\ sess' = sess /\ checked' = checked /\ p \in alone /\ pc[p] \in Unrestored
        /\ pc'[p] = "claim"
    BY <1>3 DEF NextSessionNumber
  <2>2. PICK n \in 0 .. MaxSession : /\ IsLatest(n, {"claimed", "written"})
                                     /\ candidate' = [candidate EXCEPT ![p] = n + 1]
    BY <1>3 DEF NextSessionNumber
  <2>3. candidate'[p] = n + 1
    BY <2>2
  <2>4. checked[p] \in Sessions /\ checked[p] <= n
    BY <2>1, <2>2 DEF NewestOf, IsLatest
  <2>5. sess[n] # "none" /\ \A m \in Sessions : n + 1 <= m => sess[m] = "none"
    BY <2>2, <2>4 DEF IsLatest
  <2>6. checked'[p] < candidate'[p] /\ candidate'[p] - 1 = n
    BY <2>1, <2>3, <2>4
  <2>7. QED
    BY <2>1, <2>3, <2>5, <2>6 DEF NewestOf
<1>4. CASE Claim(p)
  <2>1. /\ checked' = checked /\ p \in alone /\ pc[p] = "claim" /\ pc'[p] = "restore"
        /\ claim'[p] = candidate[p] /\ sess' = [sess EXCEPT ![candidate[p]] = "claimed"]
        /\ sess[candidate[p]] = "none" /\ candidate[p] \in Sessions
    BY <1>4 DEF Claim
  <2>2. \A n \in Sessions : sess'[n] = "written" <=> sess[n] = "written"
    BY <2>1
  <2>3. checked[p] \in Sessions /\ checked[p] < candidate[p] /\ sess[candidate[p] - 1] # "none"
    BY <2>1 DEF NewestOf
  <2>4. candidate[p] - 1 \in Sessions /\ candidate[p] - 1 # candidate[p]
    BY <2>1, <2>3
  <2>5. sess'[candidate[p] - 1] # "none"
    BY <2>1, <2>3, <2>4
  <2>6. QED
    BY <2>1, <2>2, <2>3, <2>5 DEF NewestOf
<1>5. CASE ClaimTaken(p)
  BY <1>5 DEF ClaimTaken, NewestOf
<1>6. QED
  BY <1>1, <1>2, <1>3, <1>4, <1>5
     DEF Resume, Refuse, ProvisionFails, Restore, RestoreFails, Discard, RenamePrevious,
         RenamePreviousFails, RenameStaging, RenameStagingFails, Write, WriteFails, Cleanup,
         ContainersBack, ManifestBack

\* Every action keeps NewestInv.
LEMMA NewestStep == TypeOK /\ SwapInv /\ HeldInv /\ NewestInv /\ [Next]_vars => NewestInv'
<1> SUFFICES ASSUME TypeOK, SwapInv, HeldInv, NewestInv, [Next]_vars, NEW p \in Resumes
             PROVE  NewestOf(p)'
  BY DEF NewestInv
<1>1. CASE Resume(p)
  BY <1>1, NewestOwn DEF NewestInv
<1>2. ASSUME NEW q \in Resumes, q # p, Resume(q)
      PROVE  NewestOf(p)'
  <2>1. pc'[p] = pc[p]
    BY <1>2, Footprint
  <2>2. ASSUME p \in alone', pc[p] \in Unrestored
        PROVE  FALSE
    <3>1. Active(p)
      BY <2>2 DEF Active, Over, Unrestored
    <3>2. p \in alone /\ Active(q)
      BY <1>2, <2>2, <3>1, Footprint
    <3>3. QED
      BY <1>2, <3>1, <3>2 DEF SwapInv, SwapInvOf, Undisturbed
  <2>3. QED
    BY <2>1, <2>2 DEF NewestOf
<1>3. ASSUME NEW q \in Resumes, CliKilled(q)
      PROVE  NewestOf(p)'
  <2>1. sess' = sess /\ UNCHANGED <<locals, alone>>
    BY <1>3 DEF CliKilled, history
  <2>2. pc'[p] = pc[p] \/ pc'[p] = "crashed"
    BY <1>3 DEF CliKilled, Goto, TypeOK
  <2>3. QED
    BY <2>1, <2>2 DEF NewestInv, NewestOf, locals, Unrestored
<1>4. CASE ContainerRemoved \/ UNCHANGED vars
  BY <1>4 DEF ContainerRemoved, vars, locals, history, NewestInv, NewestOf
<1>5. QED
  BY <1>1, <1>2, <1>3, <1>4 DEF Next

\* NewestInv holds always.
LEMMA Newest == Spec => []NewestInv
<1>1. Init => NewestInv
  BY DEF Init, NewestInv, NewestOf, Unrestored
<1>2. QED
  BY <1>1, NewestStep, Invariant, Held, PTL DEF Spec

\* A resume that meets no other starts from the newest session with metadata, or from the
\* directory a killed resume or a failed rollback has left after it: for any number of
\* resumes and sessions.
THEOREM RestoredIsNewest == Spec => RestoresNewest
<1>1. TypeOK /\ SwapInv /\ HeldInv /\ NewestInv /\ [Next]_vars =>
        [\A p \in alone : restored'[p] # restored[p] =>
            \/ restored'[p] = checked[p]
            \/ checked[p] < restored'[p] /\ restored'[p] \in Abandoned]_vars
  <2>1. SUFFICES ASSUME TypeOK, SwapInv, HeldInv, NewestInv, [Next]_vars,
                        NEW p \in alone, restored'[p] # restored[p]
                 PROVE  \/ restored'[p] = checked[p]
                        \/ checked[p] < restored'[p] /\ restored'[p] \in Abandoned
    OBVIOUS
  <2>2. p \in Resumes
    BY <2>1 DEF TypeOK
  <2>3. PICK q \in Resumes : Restore(q)
    BY <2>1 DEF Next, Resume, CliKilled, ContainerRemoved, vars, locals, Preflight, Confirm,
         Refuse, StopPrevious, CreateStaging, ProvisionFails, NextSessionNumber, Claim, ClaimTaken,
         RestoreFails, Discard, RenamePrevious, RenamePreviousFails, RenameStaging,
         RenameStagingFails, Write, WriteFails, Cleanup, ContainersBack, ManifestBack
  <2>4. q = p /\ pc[p] = "restore" /\ restored'[p] = claim[p] - 1
    BY <2>1, <2>2, <2>3 DEF Restore, TypeOK
  <2> DEFINE m == claim[p] - 1
  <2>5. /\ checked[p] \in Sessions /\ sess[checked[p]] = "written"
        /\ \A n \in Sessions : sess[n] = "written" => n <= checked[p]
        /\ checked[p] < claim[p] /\ sess[m] # "none"
    BY <2>1, <2>2, <2>4 DEF NewestInv, NewestOf, Unrestored
  <2>6. claim[p] \in Nat /\ claim[p] <= MaxSession
    BY <2>1, <2>2, ResumeAssumption DEF TypeOK
  <2>7. m \in Sessions /\ checked[p] <= m /\ m # claim[p]
    BY <2>5, <2>6, ResumeAssumption DEF Sessions
  <2>8. CASE sess[m] = "written"
    BY <2>4, <2>5, <2>7, <2>8 DEF Sessions
  <2>9. CASE sess[m] = "claimed"
    <3>1. PICK r \in Resumes :
             claim[r] = m /\ (Active(r) \/ pc[r] = "crashed" \/ r \in faulted)
      BY <2>1, <2>7, <2>9 DEF HeldInv
    <3>2. ~Active(r)
      <4>1. r # p
        BY <2>7, <3>1
      <4>2. Active(p)
        BY <2>4 DEF Active, Over
      <4>3. QED
        BY <2>1, <2>2, <4>1, <4>2 DEF SwapInv, SwapInvOf, Undisturbed
    <3>3. m \in Abandoned
      BY <2>7, <2>9, <3>1, <3>2 DEF Abandoned
    <3>4. checked[p] < m
      BY <2>5, <2>7, <2>9 DEF Sessions
    <3>5. QED
      BY <2>4, <3>3, <3>4
  <2>10. QED
    BY <2>1, <2>5, <2>7, <2>8, <2>9 DEF TypeOK
<1>2. QED
  BY <1>1, Invariant, Held, Newest, PTL DEF Spec, RestoresNewest

-----------------------------------------------------------------------------
(***************************************************************************)
(* The limits a resume carries on (ResourceLimits): for every set of        *)
(* repositories and of written values, and with the real units and caps,    *)
(* repositories only tighten, no default and no fold ends without a cap,    *)
(* and what a session ran under is what the next one runs under.            *)
(***************************************************************************)

\* The well-ordering of the naturals: what a fold that takes the least relies on.
LEMMA LeastNatural ==
  ASSUME NEW S \in SUBSET Nat, S # {}
  PROVE  \E x \in S : \A y \in S : x <= y
<1> DEFINE R == {ss \in Nat \X Nat : ss[1] < ss[2]}
<1>1. IsWellFoundedOn(R, Nat)
  BY ONLY NatLessThanWellFounded DEF OpToRel
<1>2. \E x \in S : \A y \in S : ~(<<y, x>> \in R)
  <2> HIDE DEF R
  <2>1. QED
    BY <1>1, WFMin, Zenon
<1>3. PICK x \in S : \A y \in S : ~(<<y, x>> \in R)
  BY <1>2
<1>4. \A y \in S : x <= y
  <2>1. SUFFICES ASSUME NEW y \in S PROVE x <= y
    OBVIOUS
  <2>2. x \in Nat /\ y \in Nat
    OBVIOUS
  <2>3. ~(y < x)
    BY <1>3, <2>2
  <2>4. QED
    BY <2>2, <2>3
<1>5. QED
  BY <1>4

\* A value that a limit can have: an amount that is not negative.
Values == {v \in Concrete : v \in [n : Nat, unit : Units]}
Marks  == {NotSet, Unlimited, Invalid, NoMetadata, Legacy} \cup Unreadable

\* The marks are pairwise different.
LEMMA MarksDiffer ==
    /\ NotSet # Unlimited /\ NotSet # Invalid /\ NotSet # NoMetadata /\ NotSet # Legacy
    /\ Unlimited # Invalid /\ Unlimited # NoMetadata /\ Unlimited # Legacy
    /\ Invalid # NoMetadata /\ Invalid # Legacy /\ NoMetadata # Legacy
    /\ NotSet \notin Unreadable /\ NotSet.mark = "not set"
BY DEF NotSet, Unlimited, Invalid, NoMetadata, Legacy, Mark, Unreadable

\* No number, parsed or as written, is a mark.
LEMMA RecordsAreNoMarks ==
  ASSUME NEW v \in [n : Int, unit : Units] \cup Raw
  PROVE  v \notin Marks
<1>1. \A m \in Marks : DOMAIN m = {"mark"}
  BY DEF Marks, NotSet, Unlimited, Invalid, NoMetadata, Legacy, Unreadable, Mark
<1>2. DOMAIN v # {"mark"}
  BY DEF Raw
<1>3. QED
  BY <1>1, <1>2

\* The unit of an amount is a positive factor.
LEMMA MultiplierType == Multiplier \in [Units -> Nat \ {0}]
<1>1. Kilo * Kilo \in Nat \ {0}
  BY LimitsAssumption
<1>2. Kilo * Kilo * Kilo \in Nat \ {0}
  <2> DEFINE square == Kilo * Kilo
  <2> HIDE DEF square
  <2>1. square \in Nat \ {0} => square * Kilo \in Nat \ {0}
    BY LimitsAssumption
  <2>2. QED
    BY <1>1, <2>1 DEF square
<1>3. QED
  BY <1>1, <1>2, LimitsAssumption DEF Multiplier, Units

\* An amount is a natural number, and zero only if its number is.
LEMMA AmountType ==
  ASSUME NEW v \in [n : Nat, unit : Units]
  PROVE  Amount(v) \in Nat /\ (Amount(v) = 0 <=> v.n = 0)
<1>1. Multiplier[v.unit] \in Nat \ {0} /\ v.n \in Nat
  BY MultiplierType
<1> DEFINE f == Multiplier[v.unit]
<1>2. \A a \in Nat, b \in Nat \ {0} : a * b \in Nat /\ (a * b = 0 <=> a = 0)
  OBVIOUS
<1>3. QED
  BY <1>1, <1>2 DEF Amount

\* A default is positive on a host of any size.
LEMMA DefaultType ==
  ASSUME NEW f \in Fields, f # "blkio_weight"
  PROVE  Default(f) \in Values /\ Default(f).n > 0
<1>1. f \in {"memory", "cpus", "pids"}
  BY LimitsAssumption
<1>2. ((3 * Memory) \div (4 * Grain)) * Grain \in Int
  <2>1. 3 * Memory \in Int /\ 4 * Grain \in Int /\ 4 * Grain > 0
    BY LimitsAssumption
  <2> DEFINE a == 3 * Memory
  <2> DEFINE b == 4 * Grain
  <2> HIDE DEF a, b
  <2>2. a \in Int /\ b \in Int /\ b > 0 => a \div b \in Int
    OBVIOUS
  <2>3. a \div b \in Int
    BY <2>1, <2>2 DEF a, b
  <2>4. (a \div b) * Grain \in Int
    BY <2>3, LimitsAssumption
  <2>5. QED
    BY <2>4 DEF a, b
<1>3. Larger(Gibibyte, ((3 * Memory) \div (4 * Grain)) * Grain) \in Nat \ {0}
  BY <1>2, LimitsAssumption DEF Larger
<1>4. Larger(1, Cpus - 1) \in Nat \ {0}
  BY LimitsAssumption DEF Larger
<1>5. Default(f).n \in Nat \ {0} /\ Default(f) \in [n : Nat, unit : Units]
  BY <1>1, <1>3, <1>4, LimitsAssumption DEF Default, Units
<1>6. QED
  BY <1>5 DEF Values, Concrete

\* A parser rejects, says unlimited, or yields a number that is not negative.
LEMMA ParseType ==
  ASSUME NEW f \in Fields, NEW raw \in Written
  PROVE  /\ ParseField(f, raw) \in {Invalid, Unlimited} \cup Values
         /\ ParseFlag(f, raw) \in {Invalid, Unlimited} \cup Values
         /\ ParseFlag(f, raw) = Unlimited => f # "blkio_weight"
         /\ ParseField(f, raw) = Unlimited => f # "blkio_weight"
<1>1. raw \in Raw /\ raw.n \in Int /\ f \in {"memory", "cpus", "pids", "blkio_weight"}
  BY LimitsAssumption DEF Raw
<1>2. raw.n \in Nat => Value(raw) \in Values
  BY <1>1 DEF Values, Concrete, Value, Raw
<1>3. MinWeight \in Nat /\ MaxWeight \in Nat /\ MaxPids \in Nat /\ Invalid # Unlimited
  BY LimitsAssumption, MarksDiffer
<1>4. Value(raw) # Unlimited
  BY <1>1, RecordsAreNoMarks DEF Value, Raw, Marks
<1> HIDE DEF Values
<1>5. ParseMemory(raw) \in {Invalid, Unlimited} \cup Values
  BY <1>1, <1>2 DEF ParseMemory
<1>6. ParseCpus(raw) \in {Invalid, Unlimited} \cup Values
  BY <1>1, <1>2 DEF ParseCpus
<1>7. ParsePids(raw) \in {Invalid, Unlimited} \cup Values
  BY <1>1, <1>2, <1>3 DEF ParsePids
<1>8. ParseWeight(raw) \in {Invalid} \cup Values /\ ParseWeight(raw) # Unlimited
  BY <1>1, <1>2, <1>3, <1>4 DEF ParseWeight
<1>9. /\ ParseField(f, raw) \in {Invalid, Unlimited} \cup Values
      /\ ParseField(f, raw) = Unlimited => f # "blkio_weight"
  BY <1>1, <1>5, <1>6, <1>7, <1>8 DEF ParseField
<1>10. ParseFlag(f, raw) \in {Invalid, Unlimited} \cup Values
  BY <1>1, <1>2, <1>3 DEF ParseFlag, Negative
<1>11. ParseFlag(f, raw) = Unlimited => f # "blkio_weight"
  BY <1>1, <1>3, <1>4 DEF ParseFlag, Negative
<1>12. QED
  BY <1>9, <1>10, <1>11

\* What a file or a flag says, once it is parsed.
LEMMA LoadType ==
  ASSUME NEW f \in Fields, NEW file \in Files
  PROVE  Load(f, file) \in {NotSet, Unlimited, Invalid} \cup Values
<1> HIDE DEF Values
<1>1. CASE file \in Written
  BY <1>1, ParseType DEF Load
<1>2. CASE file \notin Written
  BY <1>2 DEF Load, Files
<1>3. QED
  BY <1>1, <1>2

\* A flag that lets the command start sets nothing, unlimited or a value.
LEMMA FlagType ==
  ASSUME field \in Fields, NEW raw \in Flags, Flag(raw) # Invalid
  PROVE  Flag(raw) \in {NotSet, Unlimited} \cup Values
<1> HIDE DEF Values
<1>1. CASE raw = NotSet
  BY <1>1 DEF Flag
<1>2. CASE raw # NotSet
  BY <1>2, ParseType DEF Flag, Flags
<1>3. QED
  BY <1>1, <1>2

\* A value is a number with its unit and none of the marks.
LEMMA ValuesAreNoMarks ==
  ASSUME NEW v \in Values
  PROVE  v \in [n : Nat, unit : Units] /\ v \in Concrete /\ v \notin Marks
BY RecordsAreNoMarks DEF Values

\* The layers: the first of two that is set.
LEMMA FirstOfTwo ==
  ASSUME NEW a, NEW b
  PROVE  First(<<a, b>>) = IF a # NotSet THEN a ELSE b
<1> DEFINE set == {i \in DOMAIN <<a, b>> : <<a, b>>[i] # NotSet}
<1>1. DOMAIN <<a, b>> = {1, 2}
  OBVIOUS
<1>2. CASE a # NotSet
  <2>1. 1 \in set /\ \A j \in set : 1 <= j
    BY <1>1, <1>2
  <2>2. \A i \in set : (\A j \in set : i <= j) => i = 1
    BY <1>1, <2>1
  <2>3. (CHOOSE i \in set : \A j \in set : i <= j) = 1
    BY <2>1, <2>2
  <2>4. QED
    BY <1>2, <2>1, <2>3 DEF First
<1>3. CASE a = NotSet /\ b # NotSet
  <2>1. set = {2}
    BY <1>1, <1>3
  <2>2. (CHOOSE i \in set : \A j \in set : i <= j) = 2
    BY <2>1
  <2>3. QED
    BY <1>3, <2>1, <2>2 DEF First
<1>4. CASE a = NotSet /\ b = NotSet
  <2>1. set = {}
    BY <1>1, <1>4
  <2>2. QED
    BY <1>4, <2>1 DEF First
<1>5. QED
  BY <1>2, <1>3, <1>4

\* The first of three that is set.
LEMMA FirstOfThree ==
  ASSUME NEW a, NEW b, NEW c
  PROVE  First(<<a, b, c>>) = IF a # NotSet THEN a ELSE IF b # NotSet THEN b ELSE c
<1> DEFINE set == {i \in DOMAIN <<a, b, c>> : <<a, b, c>>[i] # NotSet}
<1>1. DOMAIN <<a, b, c>> = {1, 2, 3}
  OBVIOUS
<1>2. CASE a # NotSet
  <2>1. 1 \in set /\ \A j \in set : 1 <= j
    BY <1>1, <1>2
  <2>2. \A i \in set : (\A j \in set : i <= j) => i = 1
    BY <1>1, <2>1
  <2>3. (CHOOSE i \in set : \A j \in set : i <= j) = 1
    BY <2>1, <2>2
  <2>4. QED
    BY <1>2, <2>1, <2>3 DEF First
<1>3. CASE a = NotSet /\ b # NotSet
  <2>1. 2 \in set /\ \A j \in set : 2 <= j
    BY <1>1, <1>3
  <2>2. \A i \in set : (\A j \in set : i <= j) => i = 2
    BY <1>1, <2>1
  <2>3. (CHOOSE i \in set : \A j \in set : i <= j) = 2
    BY <2>1, <2>2
  <2>4. QED
    BY <1>3, <2>1, <2>3 DEF First
<1>4. CASE a = NotSet /\ b = NotSet /\ c # NotSet
  <2>1. set = {3}
    BY <1>1, <1>4
  <2>2. (CHOOSE i \in set : \A j \in set : i <= j) = 3
    BY <2>1
  <2>3. QED
    BY <1>4, <2>1, <2>2 DEF First
<1>5. CASE a = NotSet /\ b = NotSet /\ c = NotSet
  <2>1. set = {}
    BY <1>1, <1>5
  <2>2. QED
    BY <1>5, <2>1 DEF First
<1>6. QED
  BY <1>2, <1>3, <1>4, <1>5

\* The fold's least value is one of the values and no greater than any.
LEMMA LeastOfIsLeast ==
  ASSUME NEW V \in SUBSET Values, V # {}
  PROVE  LeastOf(V) \in V /\ \A w \in V : Amount(LeastOf(V)) <= Amount(w)
<1> HIDE DEF Values
<1> DEFINE amounts == {Amount(v) : v \in V}
<1>1. amounts \in SUBSET Nat /\ amounts # {}
  BY AmountType, ValuesAreNoMarks
<1>2. PICK x \in amounts : \A y \in amounts : x <= y
  <2> HIDE DEF amounts
  <2>1. QED
    BY <1>1, LeastNatural
<1>3. PICK v \in V : Amount(v) = x
  BY <1>2
<1>4. \A w \in V : Amount(v) <= Amount(w)
  BY <1>2, <1>3
<1>5. QED
  BY <1>4, Zenon DEF LeastOf

\* The fold over the repositories S.
LEMMA ComposeType ==
  ASSUME LimitsTypeOK, Loads, NEW S \in SUBSET Repos
  PROVE  /\ Contributors(S) \subseteq {Unlimited} \cup Values
         /\ Contributors(S) = {} => Compose(S) = NotSet
         /\ Contributors(S) = {Unlimited} => Compose(S) = Unlimited
         /\ Contributors(S) \ {Unlimited} # {} =>
               /\ Compose(S) \in Values /\ Compose(S) \in Contributors(S)
               /\ \A w \in Contributors(S) \ {Unlimited} : Amount(Compose(S)) <= Amount(w)
<1> HIDE DEF Values
<1>1. \A r \in S : Load(field, repo_file[r]) \in {NotSet, Unlimited} \cup Values
  BY LoadType DEF LimitsTypeOK, Loads
<1>2. Contributors(S) \subseteq {Unlimited} \cup Values
  BY <1>1 DEF Contributors
<1>3. Contributors(S) = {} => Compose(S) = NotSet
  BY DEF Compose
<1>4. Contributors(S) = {Unlimited} => Compose(S) = Unlimited
  BY DEF Compose
<1>5. ASSUME Contributors(S) \ {Unlimited} # {}
      PROVE  /\ Compose(S) \in Values /\ Compose(S) \in Contributors(S)
             /\ \A w \in Contributors(S) \ {Unlimited} : Amount(Compose(S)) <= Amount(w)
  <2> DEFINE concrete == Contributors(S) \ {Unlimited}
  <2>1. concrete \in SUBSET Values /\ concrete # {}
    BY <1>2, <1>5
  <2>2. Compose(S) = LeastOf(concrete)
    BY <1>5 DEF Compose
  <2>3. LeastOf(concrete) \in concrete /\ \A w \in concrete : Amount(LeastOf(concrete)) <= Amount(w)
    <3> HIDE DEF concrete
    <3>1. QED
      BY <2>1, LeastOfIsLeast
  <2>4. QED
    BY <2>1, <2>2, <2>3
<1>6. QED
  BY <1>2, <1>3, <1>4, <1>5

\* The user's bound is what the user said, or the default.
LEMMA UserBoundType ==
  ASSUME field \in Fields, field # "blkio_weight", NEW user \in {NotSet, Unlimited} \cup Values
  PROVE  /\ UserBound(user) = IF user # NotSet THEN user ELSE Default(field)
         /\ UserBound(user) \in {Unlimited} \cup Values
<1>1. UserBound(user) = IF user # NotSet THEN user ELSE Default(field)
  BY FirstOfTwo DEF UserBound
<1> HIDE DEF Values
<1>2. QED
  BY <1>1, DefaultType

\* The repositories together say nothing, unlimited or a value.
LEMMA ComposeLoaded ==
  ASSUME LimitsTypeOK, Loads, NEW S \in SUBSET Repos
  PROVE  Compose(S) \in {NotSet, Unlimited} \cup Values
<1> HIDE DEF Values
<1>1. \/ Contributors(S) = {} \/ Contributors(S) = {Unlimited}
      \/ Contributors(S) \ {Unlimited} # {}
  OBVIOUS
<1>2. QED
  BY <1>1, ComposeType

\* The user's file, when every file loads.
LEMMA UserLoaded ==
  ASSUME LimitsTypeOK, Loads
  PROVE  Load(field, user_file) \in {NotSet, Unlimited} \cup Values
<1> HIDE DEF Values
<1>1. Load(field, user_file) # Invalid
  BY DEF Loads
<1>2. QED
  BY <1>1, LoadType DEF LimitsTypeOK

\* The files always end in a limit.
LEMMA FromSourceType ==
  ASSUME field \in Fields, field # "blkio_weight",
         NEW user \in {NotSet, Unlimited} \cup Values,
         NEW source \in {NotSet, Unlimited} \cup Values
  PROVE  FromSource(user, source) \in {Unlimited} \cup Values
<1> HIDE DEF Values
<1>1. UserBound(user) \in {Unlimited} \cup Values
  BY UserBoundType
<1>2. QED
  BY <1>1 DEF FromSource, Clamp

Limits == {NotSet, Unlimited} \cup Concrete
Loaded == {NotSet, Unlimited} \cup Values

\* A flag wins, then what a session had, then the files.
LEMMA ResolveType ==
  ASSUME field \in Fields, NEW user \in Loaded, NEW source \in Loaded,
         NEW persisted \in Limits, NEW flag \in Limits
  PROVE  /\ Resolve(user, source, persisted, flag) \in Limits
         /\ flag # NotSet => Resolve(user, source, persisted, flag) = flag
         /\ flag = NotSet /\ persisted # NotSet =>
               Resolve(user, source, persisted, flag) = persisted
<1>1. Loaded \subseteq Limits /\ {Unlimited} \cup Values \subseteq Limits
  BY ValuesAreNoMarks DEF Limits, Loaded
<1>2. CASE field = "blkio_weight"
  <2>1. Resolve(user, source, persisted, flag)
           = IF flag # NotSet THEN flag ELSE IF persisted # NotSet THEN persisted ELSE user
    BY <1>2, FirstOfThree DEF Resolve, ResolveWeight
  <2>2. QED
    BY <1>1, <2>1
<1>3. CASE field # "blkio_weight"
  <2>1. Resolve(user, source, persisted, flag)
           = IF flag # NotSet THEN flag ELSE IF persisted # NotSet THEN persisted
             ELSE FromSource(user, source)
    BY <1>3, FirstOfThree DEF Resolve
  <2>2. QED
    BY <1>1, <1>3, <2>1, FromSourceType DEF Loaded
<1>4. QED
  BY <1>2, <1>3

\* The newest session with metadata, of any sequence of sessions.
WrittenAt(s)   == {i \in DOMAIN s : s[i] # NoMetadata}
NewestIn(s)    == IF WrittenAt(s) = {} THEN 0
                  ELSE CHOOSE i \in WrittenAt(s) : \A j \in WrittenAt(s) : j <= i
PersistedIn(s) == IF NewestIn(s) = 0 THEN NotSet ELSE FromDisk(s[NewestIn(s)])
Entries        == {NoMetadata, Legacy, NotSet, Unlimited} \cup Concrete

\* A sequence with metadata anywhere has a newest one.
LEMMA NewestIsGreatest ==
  ASSUME NEW s \in Seq(Entries), WrittenAt(s) # {}
  PROVE  /\ NewestIn(s) \in WrittenAt(s)
         /\ \A j \in WrittenAt(s) : j <= NewestIn(s)
<1> HIDE DEF Entries
<1>1. Len(s) \in Nat /\ DOMAIN s = 1..Len(s) /\ WrittenAt(s) \subseteq 1..Len(s)
  BY DEF WrittenAt
<1> DEFINE distances == {Len(s) - i : i \in WrittenAt(s)}
<1>2. distances \in SUBSET Nat /\ distances # {}
  BY <1>1
<1>3. PICK x \in distances : \A y \in distances : x <= y
  <2> HIDE DEF distances
  <2>1. QED
    BY <1>2, LeastNatural
<1>4. PICK i \in WrittenAt(s) : x = Len(s) - i
  BY <1>3
<1>5. \A j \in WrittenAt(s) : j <= i
  <2>1. SUFFICES ASSUME NEW j \in WrittenAt(s) PROVE j <= i
    OBVIOUS
  <2>2. Len(s) - i <= Len(s) - j
    BY <1>3, <1>4
  <2>3. QED
    BY <1>1, <2>2
<1>6. QED
  BY <1>5, Zenon DEF NewestIn

\* A session that writes its metadata is the newest from then on.
LEMMA AppendWritten ==
  ASSUME NEW s \in Seq(Entries), NEW e \in Entries, e # NoMetadata
  PROVE  PersistedIn(Append(s, e)) = FromDisk(e)
<1> HIDE DEF Entries
<1> DEFINE t == Append(s, e)
<1>1. t \in Seq(Entries) /\ DOMAIN t = 1..Len(s) + 1 /\ Len(s) \in Nat /\ t[Len(s) + 1] = e
  OBVIOUS
<1>2. Len(s) + 1 \in WrittenAt(t) /\ WrittenAt(t) \subseteq 1..Len(s) + 1
  BY <1>1 DEF WrittenAt
<1>3. NewestIn(t) \in WrittenAt(t) /\ \A j \in WrittenAt(t) : j <= NewestIn(t)
  <2> HIDE DEF t
  <2>1. QED
    BY <1>1, <1>2, NewestIsGreatest
<1>4. NewestIn(t) = Len(s) + 1
  BY <1>1, <1>2, <1>3
<1>5. QED
  BY <1>1, <1>4 DEF PersistedIn

\* A session that died before its metadata changes nothing for the next.
LEMMA AppendClaimed ==
  ASSUME NEW s \in Seq(Entries)
  PROVE  PersistedIn(Append(s, NoMetadata)) = PersistedIn(s)
<1> HIDE DEF Entries
<1> DEFINE t == Append(s, NoMetadata)
<1>1. /\ DOMAIN t = 1..Len(s) + 1 /\ DOMAIN s = 1..Len(s) /\ Len(s) \in Nat
      /\ t[Len(s) + 1] = NoMetadata /\ \A i \in DOMAIN s : t[i] = s[i]
  BY DEF Entries
<1>2. WrittenAt(t) = WrittenAt(s)
  <2> HIDE DEF t
  <2>1. QED
    BY <1>1 DEF WrittenAt
<1>3. NewestIn(t) = NewestIn(s)
  BY <1>2 DEF NewestIn
<1>4. CASE WrittenAt(s) = {}
  BY <1>2, <1>4 DEF PersistedIn, NewestIn
<1>5. CASE WrittenAt(s) # {}
  <2>1. NewestIn(s) \in DOMAIN s
    BY <1>5, NewestIsGreatest DEF WrittenAt
  <2>2. t[NewestIn(s)] = s[NewestIn(s)]
    BY <1>1, <2>1
  <2>3. QED
    BY <1>3, <2>2 DEF PersistedIn
<1>6. QED
  BY <1>4, <1>5

\* What the newest session says is a limit or nothing.
LEMMA PersistedType ==
  ASSUME NEW s \in Seq(Entries)
  PROVE  PersistedIn(s) \in Limits
<1> HIDE DEF Entries
<1>1. CASE WrittenAt(s) = {}
  BY <1>1 DEF PersistedIn, NewestIn, Limits
<1>2. CASE WrittenAt(s) # {}
  <2>1. NewestIn(s) \in DOMAIN s /\ s[NewestIn(s)] # NoMetadata
    BY <1>2, NewestIsGreatest DEF WrittenAt
  <2>2. s[NewestIn(s)] \in Entries
    BY <2>1
  <2>3. FromDisk(s[NewestIn(s)]) \in Limits
    BY <2>1, <2>2 DEF FromDisk, Entries, Limits
  <2>4. QED
    BY <2>3 DEF PersistedIn, Limits
<1>3. QED
  BY <1>1, <1>2

\* A limit is read back as it was written.
LEMMA LimitsAreWritten ==
  ASSUME NEW limit \in Limits
  PROVE  limit \in Entries /\ limit # NoMetadata /\ FromDisk(limit) = limit
<1>1. \A f \in Fields \ {"blkio_weight"} : Default(f) \in [n : Int, unit : Units]
  BY DefaultType DEF Values
<1>2. \A w \in Written : Value(w) \in [n : Int, unit : Units]
  BY LimitsAssumption DEF Value, Raw
<1>3. Concrete \subseteq [n : Int, unit : Units]
  BY <1>1, <1>2 DEF Concrete
<1>4. limit \in {NotSet, Unlimited} \/ limit \in [n : Int, unit : Units]
  BY <1>3 DEF Limits
<1>5. limit # NoMetadata /\ limit # Legacy
  BY <1>4, MarksDiffer, RecordsAreNoMarks DEF Marks
<1>6. QED
  BY <1>5 DEF Limits, Entries, FromDisk

\* The operators above, taken of the sessions, are the module's own.
LEMMA PersistedNow ==
  /\ Persisted = PersistedIn(sessions)
  /\ Persisted' = PersistedIn(sessions')
BY DEF Persisted, NewestWritten, PersistedIn, NewestIn, WrittenAt

\* What a start leaves: the limit it resolved is applied and persisted.
LEMMA StartResolves ==
  ASSUME LimitsTypeOK, NEW raw \in Flags, Start(raw)
  PROVE  \E limit \in Limits :
            /\ applied' = Argv(limit)
            /\ sessions' = Append(sessions, limit)
            /\ Flag(raw) # NotSet => limit = Flag(raw)
            /\ Flag(raw) = NotSet /\ Persisted # NotSet => limit = Persisted
<1> DEFINE limit == Resolve(Load(field, user_file), Compose(Repos), Persisted, Flag(raw))
<1>1. Loads /\ Flag(raw) # Invalid /\ field \in Fields
  BY DEF Start, LimitsTypeOK
<1>2. /\ Load(field, user_file) \in {NotSet, Unlimited} \cup Values
      /\ Compose(Repos) \in {NotSet, Unlimited} \cup Values
  BY <1>1, UserLoaded, ComposeLoaded
<1>3. Flag(raw) \in Limits
  BY <1>1, FlagType, ValuesAreNoMarks DEF Limits
<1>4. Persisted \in Limits
  BY PersistedNow, PersistedType DEF LimitsTypeOK, Entries
<1>5. /\ limit \in Limits
      /\ Flag(raw) # NotSet => limit = Flag(raw)
      /\ Flag(raw) = NotSet /\ Persisted # NotSet => limit = Persisted
  <2>1. Load(field, user_file) \in Loaded /\ Compose(Repos) \in Loaded
    BY <1>2 DEF Loaded
  <2>2. QED
    BY <1>1, <1>3, <1>4, <2>1, ResolveType
<1>6. applied' = Argv(limit) /\ sessions' = Append(sessions, limit)
  BY DEF Start
<1>7. QED
  BY <1>5, <1>6

\* The runtime is told nothing or a number.
LEMMA ArgvType ==
  ASSUME NEW limit \in Limits
  PROVE  Argv(limit) \in {NotSet} \cup Concrete
BY DEF Argv, Limits

\* Every action keeps the types.
LEMMA LimitsTypeStep == LimitsTypeOK /\ [LimitsNext]_limit_vars => LimitsTypeOK'
<1> SUFFICES ASSUME LimitsTypeOK, [LimitsNext]_limit_vars PROVE LimitsTypeOK'
  OBVIOUS
<1>1. sessions \in Seq(Entries) /\ Len(sessions) \in Nat /\ MaxSessions \in Nat
  BY LimitsAssumption DEF LimitsTypeOK, Entries
<1>2. ASSUME NEW file \in Files, Edit(file) PROVE LimitsTypeOK'
  <2>1. user_file' \in Files /\ repo_file' \in [Repos -> Files]
    BY <1>2 DEF Edit, LimitsTypeOK
  <2>2. edits' \in 0..MaxEdits
    BY <1>2, LimitsAssumption DEF Edit, LimitsTypeOK
  <2>3. UNCHANGED <<field, sessions, applied, choice>>
    BY <1>2 DEF Edit
  <2>4. QED
    BY <2>1, <2>2, <2>3 DEF LimitsTypeOK
<1>3. ASSUME NEW raw \in Flags, Start(raw) PROVE LimitsTypeOK'
  <2>1. PICK limit \in Limits : applied' = Argv(limit) /\ sessions' = Append(sessions, limit)
    BY <1>3, StartResolves
  <2>2. applied' \in {NotSet} \cup Concrete
    BY <2>1, ArgvType
  <2>3. sessions' \in Seq(Entries) /\ Len(sessions') = Len(sessions) + 1
    BY <1>1, <2>1, LimitsAreWritten
  <2>4. Len(sessions) < MaxSessions
    BY <1>3 DEF Start
  <2>5. choice' \in {NotSet, Unlimited} \cup Concrete
    BY <1>3, FlagType, ValuesAreNoMarks DEF Start, LimitsTypeOK
  <2>6. UNCHANGED <<field, user_file, repo_file, edits>>
    BY <1>3 DEF Start
  <2>7. QED
    BY <1>1, <2>2, <2>3, <2>4, <2>5, <2>6 DEF LimitsTypeOK, Entries
<1>4. CASE Killed
  <2>1. sessions' = Append(sessions, NoMetadata) /\ Len(sessions) < MaxSessions
    BY <1>4 DEF Killed
  <2>2. sessions' \in Seq(Entries) /\ Len(sessions') = Len(sessions) + 1
    BY <1>1, <2>1 DEF Entries
  <2>3. UNCHANGED <<field, user_file, repo_file, applied, choice, edits>>
    BY <1>4 DEF Killed
  <2>4. QED
    BY <1>1, <2>1, <2>2, <2>3 DEF LimitsTypeOK, Entries
<1>5. CASE UNCHANGED limit_vars
  BY <1>5 DEF limit_vars, LimitsTypeOK
<1>6. QED
  BY <1>2, <1>3, <1>4, <1>5 DEF LimitsNext

\* The types hold for every set of written values, with the real units.
THEOREM LimitsTypeCorrect == LimitsSpec => []LimitsTypeOK
<1>1. LimitsInit => LimitsTypeOK
  <2> SUFFICES ASSUME LimitsInit PROVE LimitsTypeOK
    OBVIOUS
  <2>1. sessions \in Seq(Entries) /\ Len(sessions) <= MaxSessions
    <3>1. Legacy \in Entries /\ MaxSessions \in Nat \ {0}
      BY LimitsAssumption DEF Entries
    <3>2. CASE sessions = <<>>
      BY <3>1, <3>2
    <3>3. CASE sessions = <<Legacy>>
      BY <3>1, <3>3
    <3>4. QED
      BY <3>2, <3>3 DEF LimitsInit
  <2>2. 0 \in 0..MaxEdits
    BY LimitsAssumption
  <2>3. repo_file \in [Repos -> Files] /\ user_file \in Files
    BY DEF LimitsInit, Files
  <2>4. QED
    BY <2>1, <2>2, <2>3 DEF LimitsInit, LimitsTypeOK, Entries
<1>2. QED
  BY <1>1, LimitsTypeStep, PTL DEF LimitsSpec

\* The container runs under what its newest session says, which is the user's last choice.
PersistedInv ==
    /\ Persisted # NotSet => applied = Argv(Persisted)
    /\ choice # NotSet => Persisted = choice

\* Every action keeps what is persisted, applied and chosen in agreement.
LEMMA PersistedStep ==
  LimitsTypeOK /\ PersistedInv /\ [LimitsNext]_limit_vars => PersistedInv'
<1> SUFFICES ASSUME LimitsTypeOK, PersistedInv, [LimitsNext]_limit_vars PROVE PersistedInv'
  OBVIOUS
<1>1. sessions \in Seq(Entries)
  BY DEF LimitsTypeOK, Entries
<1>2. ASSUME NEW file \in Files, Edit(file) PROVE PersistedInv'
  <2>1. UNCHANGED <<field, sessions, applied, choice>>
    BY <1>2 DEF Edit
  <2>2. Persisted' = Persisted
    BY <2>1, PersistedNow
  <2>3. QED
    BY <2>1, <2>2 DEF PersistedInv, Argv
<1>3. ASSUME NEW raw \in Flags, Start(raw) PROVE PersistedInv'
  <2>1. PICK limit \in Limits :
            /\ applied' = Argv(limit)
            /\ sessions' = Append(sessions, limit)
            /\ Flag(raw) # NotSet => limit = Flag(raw)
            /\ Flag(raw) = NotSet /\ Persisted # NotSet => limit = Persisted
    BY <1>3, StartResolves
  <2>2. Persisted' = limit
    BY <1>1, <2>1, PersistedNow, AppendWritten, LimitsAreWritten
  <2>3. choice' = (IF Flag(raw) = NotSet THEN choice ELSE Flag(raw)) /\ field' = field
    BY <1>3 DEF Start
  <2>4. (Persisted # NotSet => applied = Argv(Persisted))'
    BY <2>1, <2>2, <2>3 DEF Argv
  <2>5. (choice # NotSet => Persisted = choice)'
    BY <2>1, <2>2, <2>3 DEF PersistedInv
  <2>6. QED
    BY <2>4, <2>5 DEF PersistedInv
<1>4. CASE Killed
  <2>1. sessions' = Append(sessions, NoMetadata)
    BY <1>4 DEF Killed
  <2>2. Persisted' = Persisted
    BY <1>1, <2>1, PersistedNow, AppendClaimed
  <2>3. UNCHANGED <<field, applied, choice>>
    BY <1>4 DEF Killed
  <2>4. QED
    BY <2>2, <2>3 DEF PersistedInv, Argv
<1>5. CASE UNCHANGED limit_vars
  <2>1. UNCHANGED <<field, sessions, applied, choice>>
    BY <1>5 DEF limit_vars
  <2>2. Persisted' = Persisted
    BY <2>1, PersistedNow
  <2>3. QED
    BY <2>1, <2>2 DEF PersistedInv, Argv
<1>6. QED
  BY <1>2, <1>3, <1>4, <1>5 DEF LimitsNext

\* They agree in every state.
LEMMA PersistedAlways == LimitsSpec => [](LimitsTypeOK /\ PersistedInv)
<1>1. LimitsInit => PersistedInv
  <2> SUFFICES ASSUME LimitsInit PROVE PersistedInv
    OBVIOUS
  <2>1. choice = NotSet /\ (sessions = <<>> \/ sessions = <<Legacy>>)
    BY DEF LimitsInit
  <2>2. Persisted = NotSet
    <3>1. CASE sessions = <<>>
      BY <3>1, PersistedNow DEF PersistedIn, NewestIn, WrittenAt
    <3>2. CASE sessions = <<Legacy>>
      <4>1. FromDisk(Legacy) = NotSet
        BY DEF FromDisk
      <4>2. WrittenAt(<<Legacy>>) = {1}
        <5>1. \A x : DOMAIN <<x>> = {1} /\ <<x>>[1] = x
          OBVIOUS
        <5>2. QED
          BY <5>1, MarksDiffer DEF WrittenAt
      <4>3. NewestIn(<<Legacy>>) = 1
        BY <4>2 DEF NewestIn
      <4>4. QED
        BY <3>2, <4>1, <4>3, PersistedNow DEF PersistedIn
    <3>3. QED
      BY <2>1, <3>1, <3>2
  <2>3. QED
    BY <2>1, <2>2 DEF PersistedInv
<1>2. QED
  BY <1>1, PersistedStep, LimitsTypeCorrect, PTL DEF LimitsSpec

\* A flag's choice stays in force in every later session until another flag replaces it,
\* for any number of sessions, dead ones among them.
THEOREM ChoiceSurvivesCorrect == LimitsSpec => []ChoiceSurvives
<1>1. PersistedInv => ChoiceSurvives
  BY DEF PersistedInv, ChoiceSurvives
<1>2. QED
  BY <1>1, PersistedAlways, PTL

\* No resume without a new choice changes the cap, whatever happened to the files meanwhile
\* and however many sessions died before their metadata.
THEOREM ResumeKeepsTheCapCorrect == LimitsSpec => ResumeKeepsTheCap
<1> DEFINE Keeps == (sessions # <<>> /\ Persisted # NotSet /\ choice' = choice /\ field # "blkio_weight")
                       => Enforced(applied') = Enforced(applied)
<1>1. LimitsTypeOK /\ PersistedInv /\ [LimitsNext]_limit_vars => [Keeps]_limit_vars
  <2> SUFFICES ASSUME LimitsTypeOK, PersistedInv, LimitsNext, Persisted # NotSet, choice' = choice
               PROVE  applied' = applied
    BY DEF limit_vars
  <2>1. ASSUME NEW file \in Files, Edit(file) PROVE applied' = applied
    BY <2>1 DEF Edit
  <2>2. ASSUME NEW raw \in Flags, Start(raw) PROVE applied' = applied
    <3>1. PICK limit \in Limits :
              /\ applied' = Argv(limit)
              /\ Flag(raw) # NotSet => limit = Flag(raw)
              /\ Flag(raw) = NotSet /\ Persisted # NotSet => limit = Persisted
      BY <2>2, StartResolves
    <3>2. Flag(raw) # NotSet => Flag(raw) = choice
      BY <2>2 DEF Start
    <3>3. limit = Persisted
      BY <3>1, <3>2 DEF PersistedInv
    <3>4. QED
      BY <3>1, <3>3 DEF PersistedInv
  <2>3. CASE Killed
    BY <2>3 DEF Killed
  <2>4. QED
    BY <2>1, <2>2, <2>3 DEF LimitsNext
<1>2. LimitsSpec => [][Keeps]_limit_vars
  BY <1>1, PersistedAlways, PTL DEF LimitsSpec
<1>3. QED
  BY <1>2 DEF ResumeKeepsTheCap

-----------------------------------------------------------------------------
\* No file says zero processors in another spelling than a plain zero ("0.0"): the parser of
\* the files would take it for a number and the runtime for no limit.
NoSpelledZero == "cpus" \in Fields => \A w \in Written : w.n = 0 => w.form # "dressed"

Positive == {v \in Values : v.n > 0}

\* Without that spelling a file's value is never zero.
LEMMA LoadPositive ==
  ASSUME NoSpelledZero, NEW f \in Fields, f # "blkio_weight", NEW file \in Files
  PROVE  Load(f, file) \in {NotSet, Unlimited, Invalid} \cup Positive
<1>1. Load(f, file) \in {NotSet, Unlimited, Invalid} \cup Values
  BY LoadType
<1>2. CASE file \in Written
  <2>1. file \in Raw /\ file.n \in Int /\ f \in {"memory", "cpus", "pids"}
    BY <1>2, LimitsAssumption DEF Raw
  <2>2. ParseMemory(file) \in {Unlimited, Invalid} \/ ParseMemory(file).n > 0
    BY <2>1 DEF ParseMemory, Value
  <2>3. "cpus" \in Fields => ParseCpus(file) \in {Unlimited, Invalid} \/ ParseCpus(file).n > 0
    BY <1>2, <2>1 DEF ParseCpus, Value, NoSpelledZero
  <2>4. ParsePids(file) \in {Unlimited, Invalid} \/ ParsePids(file).n > 0
    BY <2>1 DEF ParsePids, Value
  <2>5. ParseField(f, file) \in {Unlimited, Invalid} \/ ParseField(f, file).n > 0
    BY <2>1, <2>2, <2>3, <2>4 DEF ParseField
  <2>6. Load(f, file) \in {NotSet, Unlimited, Invalid} \/ Load(f, file).n > 0
    BY <2>5 DEF Load
  <2> HIDE DEF Values
  <2>7. QED
    BY <1>1, <2>6 DEF Positive
<1>3. CASE file \notin Written
  BY <1>3 DEF Load, Files
<1>4. QED
  BY <1>2, <1>3

\* A positive value is an amount above zero and no mark.
LEMMA PositiveAmount ==
  ASSUME NEW v \in Positive
  PROVE  /\ v \in Values /\ v # Unlimited /\ v # NotSet
         /\ Amount(v) \in Nat /\ Amount(v) > 0
<1>1. v \in Values /\ v.n > 0
  BY DEF Positive
<1>2. v \in [n : Nat, unit : Units] /\ v \notin Marks
  BY <1>1, ValuesAreNoMarks
<1>3. Amount(v) \in Nat /\ (Amount(v) = 0 <=> v.n = 0) /\ v.n \in Nat
  BY <1>2, AmountType
<1>4. QED
  BY <1>1, <1>2, <1>3 DEF Marks

\* The cap the runtime enforces for a limit.
LEMMA CapOf ==
  ASSUME field # "blkio_weight", NEW v \in {Unlimited} \cup Positive
  PROVE  Enforced(Argv(v)) = IF v = Unlimited THEN NoLimit ELSE Amount(v)
<1>1. CASE v = Unlimited
  BY <1>1 DEF Argv, Enforced
<1>2. CASE v \in Positive
  BY <1>2, PositiveAmount DEF Argv, Enforced
<1>3. QED
  BY <1>1, <1>2

\* What a create without flags runs under: the user's bound, tightened by the repositories.
LEMMA CreateCap ==
  ASSUME LimitsTypeOK, Loads, NoSpelledZero, field # "blkio_weight", NEW S \in SUBSET Repos
  PROVE  LET user   == Load(field, user_file)
             source == Compose(S)
         IN  /\ UserBound(user) \in {Unlimited} \cup Positive
             /\ user # Unlimited => UserBound(user) # Unlimited
             /\ source \in {NotSet, Unlimited} \cup Positive
             /\ FromSource(user, source) \in {Unlimited} \cup Positive
             /\ Create(S) = Enforced(Argv(FromSource(user, source)))
<1> DEFINE user == Load(field, user_file)
<1> DEFINE source == Compose(S)
<1>1. field \in Fields /\ user_file \in Files /\ repo_file \in [Repos -> Files]
  BY DEF LimitsTypeOK
<1>2. user \in {NotSet, Unlimited} \cup Positive
  <2>1. user # Invalid
    BY DEF Loads
  <2>2. QED
    BY <1>1, <2>1, LoadPositive
<1>3. Contributors(S) \subseteq {Unlimited} \cup Positive
  <2>1. \A r \in S : Load(field, repo_file[r]) # Invalid
    BY DEF Loads
  <2>2. \A r \in S : Load(field, repo_file[r]) \in {NotSet, Unlimited} \cup Positive
    BY <1>1, <2>1, LoadPositive
  <2>3. QED
    BY <2>2 DEF Contributors
<1>4. source \in {NotSet, Unlimited} \cup Positive
  <2>1. CASE Contributors(S) \ {Unlimited} = {}
    BY <2>1, ComposeType
  <2>2. CASE Contributors(S) \ {Unlimited} # {}
    <3>1. source \in Values /\ source \in Contributors(S)
      BY <2>2, ComposeType
    <3>2. QED
      BY <1>3, <3>1 DEF Positive
  <2>3. QED
    BY <2>1, <2>2
<1>5. Default(field) \in Positive
  BY <1>1, DefaultType DEF Positive
<1> HIDE DEF user, source
<1>6. user \in {NotSet, Unlimited} \cup Values
  BY <1>2, PositiveAmount
<1>7. UserBound(user) = IF user # NotSet THEN user ELSE Default(field)
  BY <1>1, <1>6, UserBoundType
<1>8. /\ UserBound(user) \in {Unlimited} \cup Positive
      /\ user # Unlimited => UserBound(user) # Unlimited
  BY <1>2, <1>5, <1>7, PositiveAmount
<1>9. FromSource(user, source) \in {Unlimited} \cup Positive
  BY <1>4, <1>8 DEF FromSource, Clamp
<1>10. Resolve(user, source, NotSet, NotSet) = FromSource(user, source)
  BY FirstOfThree DEF Resolve
<1>11. Create(S) = Enforced(Argv(FromSource(user, source)))
  BY <1>10 DEF Create, user, source
<1>12. QED
  BY <1>4, <1>8, <1>9, <1>11 DEF user, source

\* More repositories never loosen: each case of the fold against each of the clamp.
LEMMA TightenedByMore ==
  ASSUME LimitsTypeOK, Loads, NoSpelledZero, field # "blkio_weight",
         NEW T \in SUBSET Repos, NEW S \in SUBSET T
  PROVE  AtMost(Create(T), Create(S))
<1> DEFINE B == UserBound(Load(field, user_file))
<1> DEFINE s == Compose(S)
<1> DEFINE t == Compose(T)
<1> DEFINE EffectiveS == FromSource(Load(field, user_file), s)
<1> DEFINE EffectiveT == FromSource(Load(field, user_file), t)
<1>1. S \in SUBSET Repos
  OBVIOUS
<1>2. /\ B \in {Unlimited} \cup Positive
      /\ s \in {NotSet, Unlimited} \cup Positive /\ t \in {NotSet, Unlimited} \cup Positive
      /\ EffectiveS \in {Unlimited} \cup Positive /\ EffectiveT \in {Unlimited} \cup Positive
      /\ Create(S) = Enforced(Argv(EffectiveS)) /\ Create(T) = Enforced(Argv(EffectiveT))
  BY <1>1, CreateCap
<1>3. s \in Positive => t \in Positive /\ Amount(t) <= Amount(s)
  <2> SUFFICES ASSUME s \in Positive PROVE t \in Positive /\ Amount(t) <= Amount(s)
    OBVIOUS
  <2>1. s \in Values /\ s # Unlimited /\ s # NotSet
    BY PositiveAmount
  <2>2. Contributors(S) \ {Unlimited} # {} /\ s \in Contributors(S)
    <3>1. Contributors(S) # {} /\ Contributors(S) # {Unlimited}
      BY <1>1, <2>1, ComposeType
    <3>2. Contributors(S) \ {Unlimited} # {}
      BY <3>1
    <3>3. QED
      BY <1>1, <3>2, ComposeType
  <2>3. Contributors(S) \subseteq Contributors(T)
    BY DEF Contributors
  <2>4. s \in Contributors(T) \ {Unlimited}
    BY <2>1, <2>2, <2>3
  <2>5. t \in Values /\ Amount(t) <= Amount(s)
    BY <2>4, ComposeType
  <2>6. t # Unlimited /\ t # NotSet
    BY <2>5, ValuesAreNoMarks DEF Marks
  <2>7. QED
    BY <1>2, <2>5, <2>6
<1> HIDE DEF s, t
<1>4. EffectiveS = (IF s = NotSet THEN B ELSE Clamp(s, B)) /\ EffectiveT = (IF t = NotSet THEN B ELSE Clamp(t, B))
  BY DEF FromSource
<1> HIDE DEF B, EffectiveS, EffectiveT
<1>5. \A v \in Positive : v # Unlimited /\ v # NotSet /\ Amount(v) \in Nat /\ Amount(v) > 0
  BY PositiveAmount
<1>6. /\ Create(S) = IF EffectiveS = Unlimited THEN NoLimit ELSE Amount(EffectiveS)
      /\ Create(T) = IF EffectiveT = Unlimited THEN NoLimit ELSE Amount(EffectiveT)
  BY <1>2, CapOf
<1>7. CASE s \in Positive
  <2>1. t \in Positive /\ Amount(t) <= Amount(s)
    BY <1>3, <1>7
  <2>2. EffectiveS = Clamp(s, B) /\ EffectiveT = Clamp(t, B)
    BY <1>4, <1>5, <1>7, <2>1
  <2>3. EffectiveT # Unlimited /\ EffectiveS # Unlimited /\ Amount(EffectiveT) <= Amount(EffectiveS)
    BY <1>2, <1>5, <1>7, <2>1, <2>2 DEF Clamp
  <2>4. QED
    BY <1>2, <1>5, <1>6, <2>3 DEF AtMost, NoLimit
<1>8. CASE s \notin Positive
  <2>1. EffectiveS = B
    BY <1>2, <1>4, <1>8 DEF Clamp
  <2>2. CASE B = Unlimited
    BY <1>6, <2>1, <2>2 DEF AtMost
  <2>3. CASE B # Unlimited
    <3>1. EffectiveT # Unlimited /\ Amount(EffectiveT) <= Amount(B)
      BY <1>2, <1>4, <1>5, <2>3 DEF Clamp
    <3>2. QED
      BY <1>2, <1>5, <1>6, <2>1, <2>3, <3>1 DEF AtMost, NoLimit
  <2>4. QED
    BY <2>2, <2>3
<1>9. QED
  BY <1>7, <1>8

\* For any number of repositories and every value they may say, a create that spans more of
\* them never runs under a looser cap.
THEOREM RepositoriesOnlyTightenCorrect ==
  ASSUME NoSpelledZero
  PROVE  LimitsSpec => []RepositoriesOnlyTighten
<1>1. LimitsTypeOK => RepositoriesOnlyTighten
  <2> SUFFICES ASSUME LimitsTypeOK, Loads, NEW T \in SUBSET Repos, NEW S \in SUBSET T
               PROVE  IF field = "blkio_weight" THEN Create(T) = Create(S)
                      ELSE AtMost(Create(T), Create(S))
    BY DEF RepositoriesOnlyTighten
  <2>1. CASE field = "blkio_weight"
    BY <2>1 DEF Create, Resolve, ResolveWeight
  <2>2. CASE field # "blkio_weight"
    BY <2>2, TightenedByMore
  <2>3. QED
    BY <2>1, <2>2
<1>2. QED
  BY <1>1, LimitsTypeCorrect, PTL

\* For a host of any size and any repositories, a create runs under a cap unless the user
\* asked for none.
THEOREM CappedUnlessUnlimitedCorrect ==
  ASSUME NoSpelledZero
  PROVE  LimitsSpec => []CappedUnlessUnlimited
<1>1. LimitsTypeOK => CappedUnlessUnlimited
  <2> SUFFICES ASSUME LimitsTypeOK, Loads, field # "blkio_weight",
                      Load(field, user_file) # Unlimited, NEW S \in SUBSET Repos
               PROVE  Create(S) # NoLimit
    BY DEF CappedUnlessUnlimited
  <2> DEFINE B == UserBound(Load(field, user_file))
  <2> DEFINE effective == FromSource(Load(field, user_file), Compose(S))
  <2>1. /\ B \in Positive
        /\ effective \in {Unlimited} \cup Positive
        /\ Create(S) = Enforced(Argv(effective))
    BY CreateCap
  <2>2. effective # Unlimited
    <3>1. B # Unlimited
      BY <2>1, PositiveAmount
    <3>2. Compose(S) = Unlimited => effective = B
      BY MarksDiffer DEF FromSource, Clamp
    <3>3. QED
      BY <3>1, <3>2 DEF FromSource, Clamp
  <2>3. effective \in Positive
    BY <2>1, <2>2
  <2> HIDE DEF effective
  <2>4. Create(S) = Amount(effective) /\ Amount(effective) > 0 /\ Amount(effective) \in Nat
    BY <2>1, <2>2, <2>3, CapOf, PositiveAmount
  <2>5. QED
    BY <2>4 DEF NoLimit
<1>2. QED
  BY <1>1, LimitsTypeCorrect, PTL
=============================================================================
