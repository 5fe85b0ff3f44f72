---------------------------- MODULE ResumeSandbox ----------------------------
(***************************************************************************)
(* `patchlab resume`: resume_sandbox (src/sandbox/provisioning.ts), the     *)
(* swap of its containers (finalize_resumed_container), the claim of a      *)
(* session directory (src/sandbox/session_archive.ts) and the rollback.     *)
(* Several resumes of one patchlab may run at once; any may be killed.      *)
(*                                                                          *)
(* A container is known by the resume that made it.  All of them share one  *)
(* canonical name; staging and backup names are unique.                     *)
(***************************************************************************)
EXTENDS Naturals

CONSTANTS
    Resumes,        \* the processes, each of which resumes once
    Old,            \* the container of session 1
    None,
    MaxSession      \* bound on the session numbers

ASSUME ResumeAssumption ==
    /\ Old \notin Resumes /\ None \notin Resumes \cup {Old}
    /\ MaxSession \in Nat \ {0}

VARIABLES
    \* the containers: under which name each exists, and whether it runs
    name, running,
    \* sessions/{n}: absent, made by mkdir, or with its metadata.json
    sess,
    \* each resume: where it is; the highest session with metadata at its preflight;
    \* previous_was_stopped, previous_backup_name, the candidate number, the claimed
    \* number, and the session whose state it restored
    pc, checked, stopped, backup, candidate, claim, restored,
    \* history: the container that had the canonical name when the resume was confirmed,
    \* the containers whose session has metadata, the resumes beside which no other ran,
    \* and those whose rollback or cleanup failed in a step
    previous, committed, alone, faulted

containers == <<name, running>>
locals  == <<checked, stopped, backup, candidate, claim, restored, previous>>
history == <<committed, alone, faulted>>
vars == <<containers, sess, pc, locals, history>>

Containers == Resumes \cup {Old}
Sessions   == 1 .. MaxSession
Names      == {"none", "staging", "main", "backup"}
Pcs == {"idle", "confirm", "stop", "create", "next", "claim", "restore", "rename_previous",
        "rename_staging", "write", "cleanup", "discard", "containers_back", "manifest_back",
        "done", "failed", "crashed"}
Over == {"idle", "done", "failed", "crashed"}

Init ==
    /\ \E n \in {"none", "main"} :
          name = [c \in Containers |-> IF c = Old THEN n ELSE "none"]
    /\ \E b \in BOOLEAN :
          running = [c \in Containers |-> c = Old /\ name[Old] = "main" /\ b]
    /\ sess = [n \in Sessions |-> IF n = 1 THEN "written" ELSE "none"]
    /\ pc = [p \in Resumes |-> "idle"]
    /\ checked = [p \in Resumes |-> 0] /\ stopped = [p \in Resumes |-> FALSE]
    /\ backup = [p \in Resumes |-> None] /\ candidate = [p \in Resumes |-> 0]
    /\ claim = [p \in Resumes |-> 0] /\ restored = [p \in Resumes |-> 0]
    /\ previous = [p \in Resumes |-> None]
    /\ committed = {Old} /\ alone = Resumes /\ faulted = {}

\* The container with the canonical name, or None.
Main == IF \E c \in Containers : name[c] = "main"
        THEN CHOOSE c \in Containers : name[c] = "main" ELSE None

Active(p) == pc[p] \notin Over

Goto(p, l) == pc' = [pc EXCEPT ![p] = l]

\* n is the highest session directory of the given kinds, 0 if there is none.
IsLatest(n, kinds) ==
    /\ n \in Sessions => sess[n] \in kinds
    /\ \A m \in Sessions : sess[m] \in kinds => m <= n

-----------------------------------------------------------------------------
(***************************************************************************)
(* Before any change                                                        *)
(***************************************************************************)
\* The repositories, the trust and the artifacts required for a resume of the latest
\* session with metadata.
Preflight(p) ==
    /\ pc[p] = "idle"
    /\ \E n \in 0 .. MaxSession :
          IsLatest(n, {"written"}) /\ checked' = [checked EXCEPT ![p] = n]
    /\ alone' = IF \E q \in Resumes : Active(q)
                THEN alone \ ({p} \cup {q \in Resumes : Active(q)}) ELSE alone
    /\ Goto(p, "confirm")
    /\ UNCHANGED <<containers, sess, stopped, backup, candidate, claim, restored, previous,
                   committed, faulted>>

\* With a container there, the user must agree to replace it.
Confirm(p) ==
    /\ pc[p] = "confirm"
    /\ previous' = [previous EXCEPT ![p] = Main]
    /\ Goto(p, "stop")
    /\ UNCHANGED <<containers, sess, checked, stopped, backup, candidate, claim, restored,
                   history>>

\* A check fails, or the user declines.
Refuse(p) ==
    /\ pc[p] = "confirm"
    /\ Goto(p, "failed")
    /\ UNCHANGED <<containers, sess, locals, history>>

StopPrevious(p) ==
    /\ pc[p] = "stop"
    /\ IF Main = None
       THEN UNCHANGED <<running, stopped>>
       ELSE /\ running' = [running EXCEPT ![Main] = FALSE]
            /\ stopped' = [stopped EXCEPT ![p] = TRUE]
    /\ Goto(p, "create")
    /\ UNCHANGED <<name, sess, checked, backup, candidate, claim, restored, previous, history>>

(***************************************************************************)
(* provision_resumed_sandbox                                                *)
(***************************************************************************)
CreateStaging(p) ==
    /\ pc[p] = "create"
    /\ name' = [name EXCEPT ![p] = "staging"]
    /\ running' = [running EXCEPT ![p] = TRUE]
    /\ Goto(p, "next")
    /\ UNCHANGED <<sess, locals, history>>

\* Anything up to the claim throws: the container may be there or not.
ProvisionFails(p) ==
    /\ pc[p] \in {"stop", "create", "next", "claim"}
    /\ \/ UNCHANGED containers
       \/ /\ pc[p] = "create"
          /\ name' = [name EXCEPT ![p] = "staging"]
          /\ running' \in {running, [running EXCEPT ![p] = TRUE]}
    /\ Goto(p, "containers_back")
    /\ UNCHANGED <<sess, locals, history>>

\* next_session_number: one more than the highest directory.
NextSessionNumber(p) ==
    /\ pc[p] = "next"
    /\ \E n \in 0 .. MaxSession :
          IsLatest(n, {"claimed", "written"}) /\ candidate' = [candidate EXCEPT ![p] = n + 1]
    /\ Goto(p, "claim")
    /\ UNCHANGED <<containers, sess, checked, stopped, backup, claim, restored, previous, history>>

\* Mutant: mkdir accepts a directory that exists.
ClaimAny(p) ==
    /\ pc[p] = "claim" /\ candidate[p] \in Sessions
    /\ sess' = [sess EXCEPT ![candidate[p]] = IF @ = "written" THEN @ ELSE "claimed"]
    /\ claim' = [claim EXCEPT ![p] = candidate[p]]
    /\ Goto(p, "restore")
    /\ UNCHANGED <<containers, checked, stopped, backup, candidate, restored, previous, history>>

Claim(p) ==
    /\ pc[p] = "claim" /\ candidate[p] \in Sessions
    /\ sess[candidate[p]] = "none"
    /\ sess' = [sess EXCEPT ![candidate[p]] = "claimed"]
    /\ claim' = [claim EXCEPT ![p] = candidate[p]]
    /\ Goto(p, "restore")
    /\ UNCHANGED <<containers, checked, stopped, backup, candidate, restored, previous, history>>

\* EEXIST: the next number.
ClaimTaken(p) ==
    /\ pc[p] = "claim" /\ candidate[p] \in Sessions
    /\ sess[candidate[p]] # "none"
    /\ candidate' = [candidate EXCEPT ![p] = @ + 1]
    /\ UNCHANGED <<containers, sess, pc, checked, stopped, backup, claim, restored, previous,
                   history>>

\* The conversation and the workspace copies of the session before the claimed one; the
\* context walks back to the latest session that has any.
Restore(p) ==
    /\ pc[p] = "restore"
    /\ restored' = [restored EXCEPT ![p] = claim[p] - 1]
    /\ Goto(p, "rename_previous")
    /\ UNCHANGED <<containers, sess, checked, stopped, backup, candidate, claim, previous, history>>

RestoreFails(p) ==
    /\ pc[p] = "restore"
    /\ Goto(p, "discard")
    /\ UNCHANGED <<containers, sess, locals, history>>

\* Mutant: the failed provisioning leaves its directory behind.
DiscardKeeps(p) ==
    /\ pc[p] = "discard"
    /\ claim' = [claim EXCEPT ![p] = 0]
    /\ Goto(p, "containers_back")
    /\ UNCHANGED <<containers, sess, checked, stopped, backup, candidate, restored, previous, history>>

\* discard_unwritten_session, in the catch of the provisioning.
Discard(p) ==
    /\ pc[p] = "discard"
    /\ sess' = [sess EXCEPT ![claim[p]] = IF @ = "claimed" THEN "none" ELSE @]
    /\ claim' = [claim EXCEPT ![p] = 0]
    /\ Goto(p, "containers_back")
    /\ UNCHANGED <<containers, checked, stopped, backup, candidate, restored, previous, history>>

(***************************************************************************)
(* finalize_resumed_container and the commit of the resume                  *)
(***************************************************************************)
RenamePrevious(p) ==
    /\ pc[p] = "rename_previous"
    /\ backup' = [backup EXCEPT ![p] = Main]
    /\ name' = IF Main = None THEN name ELSE [name EXCEPT ![Main] = "backup"]
    /\ Goto(p, "rename_staging")
    /\ UNCHANGED <<running, sess, checked, stopped, candidate, claim, restored, previous, history>>

RenamePreviousFails(p) ==
    /\ pc[p] = "rename_previous" /\ Main # None
    /\ Goto(p, "containers_back")
    /\ UNCHANGED <<containers, sess, locals, history>>

\* Mutant: the backup is removed with the swap, before anything is committed.
RenameAndRemove(p) ==
    /\ pc[p] = "rename_staging" /\ Main = None
    /\ name' = [c \in Containers |-> IF c = p THEN "main"
                                     ELSE IF c = backup[p] THEN "none" ELSE name[c]]
    /\ Goto(p, "write")
    /\ UNCHANGED <<running, sess, locals, history>>

\* The name must be free: another resume may have taken it.
RenameStaging(p) ==
    /\ pc[p] = "rename_staging" /\ Main = None
    /\ name' = [name EXCEPT ![p] = "main"]
    /\ Goto(p, "write")
    /\ UNCHANGED <<running, sess, locals, history>>

\* Mutant: the caller is left to undo the rename, with a backup it was never told of.
RenameStagingFailsOnly(p) ==
    /\ pc[p] = "rename_staging"
    /\ backup' = [backup EXCEPT ![p] = None]
    /\ Goto(p, "containers_back")
    /\ UNCHANGED <<containers, sess, checked, stopped, candidate, claim, restored, previous,
                   history>>

\* The backup gets its name back, if that is free and the runtime can; the caller is not
\* told of the backup.
RenameStagingFails(p) ==
    /\ pc[p] = "rename_staging"
    /\ \/ backup[p] = None /\ UNCHANGED <<name, faulted>>
       \/ /\ backup[p] # None /\ Main = None
          /\ name' = [name EXCEPT ![backup[p]] = "main"]
          /\ UNCHANGED faulted
       \/ backup[p] # None /\ faulted' = faulted \cup {p} /\ UNCHANGED name
    /\ backup' = [backup EXCEPT ![p] = None]
    /\ Goto(p, "containers_back")
    /\ UNCHANGED <<running, sess, checked, stopped, candidate, claim, restored, previous,
                   committed, alone>>

\* write_manifest and write_claimed_session_metadata.
Write(p) ==
    /\ pc[p] = "write"
    /\ sess' = [sess EXCEPT ![claim[p]] = "written"]
    /\ committed' = committed \cup {p}
    /\ Goto(p, "cleanup")
    /\ UNCHANGED <<containers, locals, alone, faulted>>

WriteFails(p) ==
    /\ pc[p] = "write"
    /\ Goto(p, "containers_back")
    /\ UNCHANGED <<containers, sess, locals, history>>

\* Stop and remove a container, best effort.
Remove(c, p) ==
    \/ /\ name' = [name EXCEPT ![c] = "none"]
       /\ running' = [running EXCEPT ![c] = FALSE]
       /\ UNCHANGED faulted
    \/ faulted' = faulted \cup {p} /\ UNCHANGED containers

Cleanup(p) ==
    /\ pc[p] = "cleanup"
    /\ IF backup[p] = None THEN UNCHANGED <<containers, faulted>> ELSE Remove(backup[p], p)
    /\ Goto(p, "done")
    /\ UNCHANGED <<sess, locals, committed, alone>>

(***************************************************************************)
(* The catch of resume_sandbox                                              *)
(***************************************************************************)
\* With a backup: whatever has the canonical name goes and the backup gets it back.
SwapBack(p) ==
    \/ /\ name' = [c \in Containers |-> IF c = backup[p] THEN "main"
                                        ELSE IF c = Main THEN "none" ELSE name[c]]
       /\ running' = [c \in Containers |-> running[c] /\ c # Main]
       /\ UNCHANGED faulted
    \/ /\ faulted' = faulted \cup {p}
       /\ \/ UNCHANGED containers
          \/ /\ name' = [c \in Containers |-> IF c = Main THEN "none" ELSE name[c]]
             /\ running' = [c \in Containers |-> running[c] /\ c # Main]

\* Without one, what still has the staging name goes.
ContainersBack(p) ==
    /\ pc[p] = "containers_back"
    /\ IF backup[p] # None /\ name[backup[p]] = "backup" THEN SwapBack(p)
       ELSE IF name[p] = "staging" THEN Remove(p, p)
       ELSE UNCHANGED <<containers, faulted>>
    /\ Goto(p, "manifest_back")
    /\ UNCHANGED <<sess, locals, committed, alone>>

\* The previous manifest is written again, which may throw and end the rollback; then an
\* unwritten claim is discarded and what has the canonical name is started.
ManifestBack(p) ==
    /\ pc[p] = "manifest_back"
    /\ Goto(p, "failed")
    /\ \/ faulted' = faulted \cup {p} /\ UNCHANGED <<running, sess, claim>>
       \/ /\ IF claim[p] # 0 /\ sess[claim[p]] = "claimed"
             THEN sess' = [sess EXCEPT ![claim[p]] = "none"] /\ claim' = [claim EXCEPT ![p] = 0]
             ELSE UNCHANGED <<sess, claim>>
          /\ IF stopped[p] /\ Main # None
             THEN \/ running' = [running EXCEPT ![Main] = TRUE] /\ UNCHANGED faulted
                  \/ faulted' = faulted \cup {p} /\ UNCHANGED running
             ELSE UNCHANGED <<running, faulted>>
    /\ UNCHANGED <<name, checked, stopped, backup, candidate, restored, previous, committed, alone>>

(***************************************************************************)
(* Everything beside the resumes                                            *)
(***************************************************************************)
CliKilled(p) ==
    /\ Active(p)
    /\ Goto(p, "crashed")
    /\ UNCHANGED <<containers, sess, locals, history>>

\* The user removes the container between two resumes.
ContainerRemoved ==
    /\ \A p \in Resumes : ~Active(p)
    /\ Main # None
    /\ name' = [name EXCEPT ![Main] = "none"]
    /\ running' = [running EXCEPT ![Main] = FALSE]
    /\ UNCHANGED <<sess, pc, locals, history>>

-----------------------------------------------------------------------------
Resume(p) ==
    \/ Preflight(p) \/ Confirm(p) \/ Refuse(p) \/ StopPrevious(p)
    \/ CreateStaging(p) \/ ProvisionFails(p)
    \/ NextSessionNumber(p) \/ Claim(p) \/ ClaimTaken(p)
    \/ Restore(p) \/ RestoreFails(p) \/ Discard(p)
    \/ RenamePrevious(p) \/ RenamePreviousFails(p)
    \/ RenameStaging(p) \/ RenameStagingFails(p)
    \/ Write(p) \/ WriteFails(p) \/ Cleanup(p)
    \/ ContainersBack(p) \/ ManifestBack(p)

Next ==
    \/ \E p \in Resumes : Resume(p) \/ CliKilled(p)
    \/ ContainerRemoved

Spec == Init /\ [][Next]_vars

-----------------------------------------------------------------------------
\* The types of the variables; one container at most has the canonical name.
TypeOK ==
    /\ name \in [Containers -> Names] /\ running \in [Containers -> BOOLEAN]
    /\ \A c, d \in Containers : name[c] = "main" /\ name[d] = "main" => c = d
    /\ sess \in [Sessions -> {"none", "claimed", "written"}]
    /\ pc \in [Resumes -> Pcs]
    /\ checked \in [Resumes -> 0 .. MaxSession] /\ stopped \in [Resumes -> BOOLEAN]
    /\ backup \in [Resumes -> Containers \cup {None}]
    /\ candidate \in [Resumes -> 0 .. MaxSession + 1]
    /\ claim \in [Resumes -> 0 .. MaxSession]
    /\ restored \in [Resumes -> 0 .. MaxSession]
    /\ previous \in [Resumes -> Containers \cup {None}]
    /\ committed \subseteq Containers /\ alone \subseteq Resumes /\ faulted \subseteq Resumes

\* No two resumes ever have the same session directory, however their reads of the next
\* number, their mkdirs and their rollbacks interleave.
ClaimsAreUnique ==
    \A p, q \in Resumes : claim[p] # 0 /\ claim[p] = claim[q] => p = q

\* A resume that fails beside no other leaves the container it was to replace under its
\* name and running, removes its own, and gives its session number back; unless a step of
\* the rollback failed too.  With no previous container nothing is said of its own: one
\* whose metadata could not be written stays under the canonical name, since the catch
\* removes the staging name only (provisioning.ts:1268-1270).
RollsBack ==
    [][\A p \in alone \ faulted' :
        pc[p] # "failed" /\ pc'[p] = "failed" =>
            /\ previous[p] # None =>
                 /\ name'[previous[p]] = "main" /\ name'[p] = "none"
                 /\ stopped[p] => running'[previous[p]]
            /\ \A n \in Sessions : sess'[n] = "claimed" => claim[p] # n]_vars

\* A container whose session has metadata, with the work in it, is only removed by a
\* resume that has put its own in its place and written its own metadata; unless resumes
\* overlap or the user removes it.
CommittedKept ==
    [][\A c \in committed, p \in Resumes :
        /\ name[c] # "none" /\ name'[c] = "none"
        /\ Active(p) /\ p \in alone
        => p \in committed /\ name[p] = "main"]_vars

\* The directories without metadata that a killed resume, or one whose rollback failed,
\* has left.
Abandoned ==
    {n \in Sessions : \E q \in Resumes :
        claim[q] = n /\ sess[n] = "claimed" /\ (pc[q] = "crashed" \/ q \in faulted)}

\* A resume that meets no other restores the session its preflight checked, the newest one
\* with metadata, although it takes the one before its own number (provisioning.ts:1031):
\* no resume that failed and rolled back, no race of two earlier ones over a number, leaves
\* a directory in between.  Only a killed resume or a failed rollback does.
RestoresNewest ==
    [][\A p \in alone : restored'[p] # restored[p] =>
        \/ restored'[p] = checked[p]
        \/ checked[p] < restored'[p] /\ restored'[p] \in Abandoned]_vars

\* The same without the exception, which is what latest_session_with_metadata's comment
\* asks for (archive.ts:304-309): an empty directory is never mistaken for the previous
\* session.
RestoresChecked ==
    [][\A p \in alone : restored'[p] # restored[p] => restored'[p] = checked[p]]_vars
=============================================================================
