--------------------------- MODULE HostProxyProofs ---------------------------
(***************************************************************************)
(* What holds of the host proxy for any commands, pids and forwards: the   *)
(* types, that patchlab ends nothing but its own daemons, that commands    *)
(* that follow each other leave no daemon nothing names, and that the      *)
(* ports a container was given are served.                                 *)
(***************************************************************************)
EXTENDS HostProxy, TLAPS

-----------------------------------------------------------------------------
(***************************************************************************)
(* Types.                                                                  *)
(***************************************************************************)
\* What the processes are when some have ended.
LEMMA Ending ==
    ASSUME TypeOK, NEW ended, End(ended)
    PROVE  /\ proc' \in [Pids -> Daemon \cup {"free", "stranger"}]
           /\ want' \in [Pids -> SUBSET Targets] /\ bound' \in [Pids -> Ports]
           /\ \A d \in Pids : /\ proc'[d] = IF d \in ended THEN "free" ELSE proc[d]
                              /\ d \notin ended => want'[d] = want[d] /\ bound'[d] = bound[d]
<1>1. \A d \in Pids : proc'[d] = IF d \in ended THEN "free" ELSE proc[d]
  BY DEF End
<1>2. \A d \in Pids : d \notin ended => want'[d] = want[d] /\ bound'[d] = bound[d]
  BY DEF End
<1>3. {} \in Ports /\ {} \in SUBSET Targets
  BY DEF Ports
<1>4. /\ proc' \in [Pids -> Daemon \cup {"free", "stranger"}]
      /\ want' \in [Pids -> SUBSET Targets] /\ bound' \in [Pids -> Ports]
  BY <1>3 DEF End, TypeOK
<1>5. QED
  BY <1>1, <1>2, <1>4

\* The command that steps is at its next step, the others where they were.
LEMMA Going ==
    ASSUME TypeOK, NEW p \in Commands, NEW s \in Pcs, Goto(p, s)
    PROVE  /\ pc' \in [Commands -> Pcs]
           /\ \A q \in Commands : pc'[q] = IF q = p THEN s ELSE pc[q]
BY DEF Goto, TypeOK

\* The file names a daemon only by a record of it.
LEMMA Recorded ==
    ASSUME TypeOK, meta.pid # None
    PROVE  meta \in Record /\ meta.ports \in Ports /\ meta.pid \in Pids
<1>1. meta \notin {NoRecord, Torn}
  BY DEF NoRecord, Torn
<1>2. meta \in Record
  BY <1>1 DEF TypeOK
<1>3. QED
  BY <1>2 DEF Record

\* The ports a daemon listens on are those of its forwards.
LEMMA Listening ==
    ASSUME TypeOK, NEW d \in Pids, NEW ports \in [want[d] -> {None, d}]
    PROVE  /\ {<<t, ports[t]>> : t \in want[d]} \in Ports
           /\ TargetsOf({<<t, ports[t]>> : t \in want[d]}) = want[d]
<1>1. want[d] \subseteq Targets
  BY DEF TypeOK
<1>2. {<<t, ports[t]>> : t \in want[d]} \in Ports
  BY <1>1 DEF Ports
<1>3. TargetsOf({<<t, ports[t]>> : t \in want[d]}) = want[d]
  <2> DEFINE P == {<<t, ports[t]>> : t \in want[d]}
  <2>1. \A x \in P : x[1] \in want[d]
    OBVIOUS
  <2>2. \A t \in want[d] : <<t, ports[t]>> \in P /\ <<t, ports[t]>>[1] = t
    OBVIOUS
  <2> HIDE DEF P
  <2>3. TargetsOf(P) \subseteq want[d]
    BY <2>1 DEF TargetsOf
  <2>4. ASSUME NEW t \in want[d] PROVE t \in TargetsOf(P)
    <3>1. PICK x \in P : x[1] = t
      BY <2>2
    <3>2. QED
      BY <3>1 DEF TargetsOf
  <2>5. QED
    BY <2>3, <2>4 DEF P
<1>4. QED
  BY <1>2, <1>3

\* Before the first command there is neither a daemon nor a file.
LEMMA TypeInit == Init => TypeOK
<1> SUFFICES ASSUME Init PROVE TypeOK
  OBVIOUS
<1>1. {} \in Ports
  BY DEF Ports
<1>2. QED
  BY <1>1 DEF Init, TypeOK, Pcs

\* The two steps of stopping a daemon, the signal and the unlink, keep the types.
LEMMA TypeKill ==
    ASSUME TypeOK, NEW p \in Commands, NEW from, NEW unlink \in Pcs, NEW next \in Pcs,
           {unlink, next} \cap {"wait", "reread"} = {},
           Kill(p, from, unlink, next) \/ Unlink(p, from, next)
    PROVE  TypeOK'
<1> USE DEF files, processes, sandbox, locals, history
<1>1. CASE Kill(p, from, unlink, next)
  <2>1. PICK s \in {unlink, next} : Goto(p, s)
    BY <1>1 DEF Kill
  <2>2. PICK ended : End(ended)
    BY <1>1 DEF Kill
  <2>3. UNCHANGED <<files, sandbox, locals, history>>
    BY <1>1 DEF Kill
  <2>4. /\ pc' \in [Commands -> Pcs]
        /\ \A q \in Commands : pc'[q] \in {"wait", "reread"} => pc[q] \in {"wait", "reread"}
    BY <2>1, Going
  <2>5. /\ proc' \in [Pids -> Daemon \cup {"free", "stranger"}]
        /\ want' \in [Pids -> SUBSET Targets] /\ bound' \in [Pids -> Ports]
    BY <2>2, Ending
  <2>6. QED
    BY <2>3, <2>4, <2>5 DEF TypeOK
<1>2. CASE Unlink(p, from, next)
  <2>1. Goto(p, next) /\ meta' = NoRecord
        /\ UNCHANGED <<dir, processes, sandbox, locals, history>>
    BY <1>2 DEF Unlink
  <2>2. QED
    BY <2>1, Going DEF TypeOK
<1>3. QED
  BY <1>1, <1>2

\* Every step of a command keeps the types.
LEMMA TypeCommand == ASSUME TypeOK, NEW p \in Commands, Command(p) PROVE TypeOK'
<1> USE DEF files, processes, sandbox, locals, history
<1>d. Made \in {"none", "new", "whole"}
  BY DEF Made, TypeOK
<1>1. CASE Begin(p)
  <2>1. PICK k \in {"create", "resume", "destroy"}, r \in Requests :
            /\ kind' = [kind EXCEPT ![p] = k] /\ request' = [request EXCEPT ![p] = r]
            /\ Goto(p, IF k = "destroy" THEN "destroy" ELSE "start")
    BY <1>1 DEF Begin
  <2>2. r \in SUBSET Targets
    BY ProxyAssumption
  <2>3. PICK s \in {"destroy", "start"} : Goto(p, s)
    BY <2>1
  <2>4. /\ pc' \in [Commands -> Pcs]
        /\ \A q \in Commands : pc'[q] \in {"wait", "reread"} => pc[q] \in {"wait", "reread"}
    BY <2>3, Going DEF Pcs
  <2>5. /\ dir' = Made /\ raced' \in BOOLEAN
        /\ UNCHANGED <<meta, processes, sandbox, child, got, died, failed>>
    BY <1>1 DEF Begin
  <2>6. QED
    BY <1>d, <2>1, <2>2, <2>4, <2>5 DEF TypeOK
<1>2. CASE NoForwards(p) \/ Reuse(p) \/ Reread(p)
  <2>1. Goto(p, "provision") /\ UNCHANGED <<files, processes, sandbox, kind, request, child, history>>
    BY <1>2 DEF NoForwards, Reuse, Reread
  <2>2. PICK ports \in Ports : got' = [got EXCEPT ![p] = ports]
    <3>1. {} \in Ports
      BY DEF Ports
    <3>2. Reuse(p) \/ Reread(p) => meta.pid # None
      BY ProxyAssumption DEF Reuse, Reread, Reusable, NamesLive, Named
    <3>3. QED
      BY <1>2, <3>1, <3>2, Recorded DEF NoForwards, Reuse, Reread
  <2>3. QED
    BY <2>1, <2>2, Going DEF TypeOK, Pcs
<1>3. CASE Replace(p) \/ WaitSees(p) \/ Fail(p) \/ CliKilled(p)
  <2>1. PICK s \in {"kill", "reread", "rollback", "crashed"} : Goto(p, s)
    BY <1>3 DEF Replace, WaitSees, Fail, CliKilled
  <2>2. UNCHANGED <<files, processes, sandbox, locals, history>>
    BY <1>3 DEF Replace, WaitSees, Fail, CliKilled
  <2>3. s = "reread" => child[p] \in Pids
    <3>1. WaitSees(p) => child[p] \in Pids
      BY DEF WaitSees, TypeOK
    <3>2. ~WaitSees(p) => pc'[p] # "reread"
      BY <1>3 DEF Replace, Fail, CliKilled, Goto, TypeOK
    <3>3. pc'[p] = s
      BY <2>1 DEF Goto, TypeOK
    <3>4. QED
      BY <3>1, <3>2, <3>3
  <2>4. QED
    BY <2>1, <2>2, <2>3, Going DEF TypeOK, Pcs
<1>4. CASE StopOld(p) \/ RollBack(p) \/ Destroy(p)
  BY <1>4, TypeKill DEF StopOld, RollBack, Destroy, Pcs
<1>5. CASE Spawn(p)
  <2>1. PICK d \in Pids : /\ proc' = [proc EXCEPT ![d] = "starting"]
                          /\ want' = [want EXCEPT ![d] = request[p]]
                          /\ child' = [child EXCEPT ![p] = d]
    BY <1>5 DEF Spawn
  <2>2. /\ Goto(p, "wait") /\ dir' = Made
        /\ UNCHANGED <<meta, bound, sandbox, kind, request, got, history>>
    BY <1>5 DEF Spawn
  <2>3. pc' \in [Commands -> Pcs] /\ \A q \in Commands : q # p => pc'[q] = pc[q]
    BY <2>2, Going DEF Pcs
  <2>4. child' \in [Commands -> Pids \cup {None}] /\ child'[p] = d
        /\ \A q \in Commands : q # p => child'[q] = child[q]
    BY <2>1 DEF TypeOK
  <2>5. proc' \in [Pids -> Daemon \cup {"free", "stranger"}] /\ want' \in [Pids -> SUBSET Targets]
    BY <2>1 DEF TypeOK, Daemon
  <2>6. QED
    BY <1>d, <2>2, <2>3, <2>4, <2>5 DEF TypeOK
<1>6. CASE StartFails(p)
  <2>1. PICK ended : End(ended)
    BY <1>6 DEF StartFails, Terminate
  <2>2. Goto(p, "rollback") /\ UNCHANGED <<files, sandbox, locals, history>>
    BY <1>6 DEF StartFails
  <2>3. QED
    BY <2>1, <2>2, Going, Ending DEF TypeOK, Pcs
<1>7. CASE Succeed(p)
  <2>1. Goto(p, "ended") /\ UNCHANGED <<meta, processes, locals, raced, died>>
    BY <1>7 DEF Succeed
  <2>2. /\ container' = TRUE /\ needs' = request[p] /\ baked' = got[p] /\ failed' = FALSE
        /\ dir' = "whole"
    BY <1>7 DEF Succeed
  <2>3. /\ pc' \in [Commands -> Pcs]
        /\ \A q \in Commands : pc'[q] \in {"wait", "reread"} => pc[q] \in {"wait", "reread"}
    BY <2>1, Going DEF Pcs
  <2>4. request[p] \in SUBSET Targets /\ got[p] \in Ports
    BY DEF TypeOK
  <2>5. QED
    BY <2>1, <2>2, <2>3, <2>4 DEF TypeOK
<1>8. CASE RemoveAll(p)
  <2>1. Goto(p, "ended") /\ UNCHANGED <<processes, locals, raced, died>>
    BY <1>8 DEF RemoveAll
  <2>2. {} \in Ports
    BY DEF Ports
  <2>3. /\ container' \in BOOLEAN /\ needs' \in SUBSET Targets /\ baked' \in Ports
        /\ failed' \in BOOLEAN /\ dir' \in {"none", "new", "whole"}
        /\ meta' \in Record \cup {NoRecord, Torn}
    BY <1>8, <2>2 DEF RemoveAll, TypeOK
  <2>4. QED
    BY <2>1, <2>3, Going DEF TypeOK, Pcs
<1>9. QED
  BY <1>1, <1>2, <1>3, <1>4, <1>5, <1>6, <1>7, <1>8 DEF Command

\* Every step of a process on the host keeps the types.
LEMMA TypeProcess == ASSUME TypeOK, NEW d \in Pids, Process(d) PROVE TypeOK'
<1> USE DEF files, processes, sandbox, locals, history
<1>1. CASE Listen(d)
  <2>1. PICK ports \in [want[d] -> {None, d}] :
            bound' = [bound EXCEPT ![d] = {<<t, ports[t]>> : t \in want[d]}]
    BY <1>1 DEF Listen
  <2>2. bound' \in [Pids -> Ports]
    BY <2>1, Listening DEF TypeOK
  <2>3. proc' \in [Pids -> Daemon \cup {"free", "stranger"}]
    BY <1>1 DEF Listen, TypeOK, Daemon
  <2>4. UNCHANGED <<files, want, sandbox, pc, locals, history>>
    BY <1>1 DEF Listen
  <2>5. QED
    BY <2>2, <2>3, <2>4 DEF TypeOK
<1>2. CASE OpenMetadata(d)
  <2>1. UNCHANGED <<dir, sandbox, pc, locals, history>>
    BY <1>2 DEF OpenMetadata
  <2>2. CASE dir = "none"
    <3>1. End({d}) /\ meta' = meta
      BY <1>2, <2>2 DEF OpenMetadata
    <3>2. QED
      BY <2>1, <3>1, Ending DEF TypeOK
  <2>3. CASE dir # "none"
    <3>1. proc' = [proc EXCEPT ![d] = "writing"] /\ meta' = Torn /\ UNCHANGED <<want, bound>>
      BY <1>2, <2>3 DEF OpenMetadata
    <3>2. proc' \in [Pids -> Daemon \cup {"free", "stranger"}]
      BY <3>1 DEF TypeOK, Daemon
    <3>3. QED
      BY <2>1, <3>1, <3>2 DEF TypeOK
  <2>4. QED
    BY <2>2, <2>3
<1>3. CASE WriteMetadata(d)
  <2>1. UNCHANGED <<dir, want, bound, sandbox, pc, locals, history>>
    BY <1>3 DEF WriteMetadata
  <2>2. proc' \in [Pids -> Daemon \cup {"free", "stranger"}]
    BY <1>3 DEF WriteMetadata, TypeOK, Daemon
  <2>3. bound[d] \in Ports
    BY DEF TypeOK
  <2>4. [pid |-> d, ports |-> bound[d]] \in Record
    BY <2>3 DEF Record
  <2>5. meta' \in Record \cup {NoRecord, Torn}
    BY <1>3, <2>4 DEF WriteMetadata, TypeOK
  <2>6. QED
    BY <2>1, <2>2, <2>5 DEF TypeOK
<1>4. CASE DaemonDies(d)
  <2>1. End({d}) /\ died' = TRUE /\ UNCHANGED <<files, sandbox, pc, locals, raced, failed>>
    BY <1>4 DEF DaemonDies
  <2>2. QED
    BY <2>1, Ending DEF TypeOK
<1>5. CASE Stranger(d)
  <2>1. proc' \in [Pids -> Daemon \cup {"free", "stranger"}]
    BY <1>5 DEF Stranger, TypeOK
  <2>2. UNCHANGED <<files, want, bound, sandbox, pc, locals, history>>
    BY <1>5 DEF Stranger
  <2>3. QED
    BY <2>1, <2>2 DEF TypeOK
<1>6. QED
  BY <1>1, <1>2, <1>3, <1>4, <1>5 DEF Process

\* Every action keeps the types.
LEMMA TypeStep == TypeOK /\ [Next]_vars => TypeOK'
<1> SUFFICES ASSUME TypeOK, [Next]_vars PROVE TypeOK'
  OBVIOUS
<1>1. CASE UNCHANGED vars
  BY <1>1 DEF vars, files, processes, sandbox, locals, history, TypeOK
<1>2. QED
  BY <1>1, TypeCommand, TypeProcess DEF Next

\* The types hold in every state, for any commands, pids and forwards.
THEOREM TypeCorrect == Spec => []TypeOK
<1>1. QED
  BY TypeInit, TypeStep, PTL DEF Spec

-----------------------------------------------------------------------------
(***************************************************************************)
(* Patchlab kills nothing but daemons.                                     *)
(***************************************************************************)
LEMMA CommandSpares ==
    ASSUME TypeOK, NEW p \in Commands, Command(p), NEW d \in Pids, proc[d] = "stranger"
    PROVE  proc'[d] = "stranger"
<1> USE DEF files, processes, sandbox, locals, history
<1>1. CASE StopOld(p) \/ RollBack(p) \/ Destroy(p)
  <2>1. CASE processes' = processes
    BY <2>1
  <2>2. CASE processes' # processes
    <3>1. End({e \in Pids : Named(e) /\ Live(e)})
      BY <1>1, <2>2 DEF StopOld, RollBack, Destroy, Kill, Unlink
    <3>2. QED
      BY <3>1, Ending DEF Live, Daemon
  <2>3. QED
    BY <2>1, <2>2
<1>2. CASE StartFails(p)
  BY <1>2, Ending DEF StartFails, Terminate, Live, Daemon
<1>3. CASE Spawn(p)
  BY <1>3 DEF Spawn, TypeOK
<1>4. CASE Begin(p) \/ NoForwards(p) \/ Reuse(p) \/ Replace(p)
  BY <1>4 DEF Begin, NoForwards, Reuse, Replace
<1>5. CASE WaitSees(p) \/ Reread(p) \/ Succeed(p) \/ Fail(p) \/ RemoveAll(p) \/ CliKilled(p)
  BY <1>5 DEF WaitSees, Reread, Succeed, Fail, RemoveAll, CliKilled
<1>6. QED
  BY <1>1, <1>2, <1>3, <1>4, <1>5 DEF Command

\* A process step that ends a stranger is the stranger's own: the tool's state stays as it is.
LEMMA ProcessSpares ==
    ASSUME TypeOK, NEW e \in Pids, Process(e), NEW d \in Pids, proc[d] = "stranger",
           proc'[d] # "stranger"
    PROVE  UNCHANGED <<files, sandbox, pc>>
<1>1. CASE Stranger(e)
  BY <1>1 DEF Stranger
<1>2. CASE DaemonDies(e)
  BY <1>2, Ending DEF DaemonDies, Live, Daemon
<1>3. CASE OpenMetadata(e)
  <2>1. CASE dir = "none"
    BY <1>3, <2>1, Ending DEF OpenMetadata
  <2>2. CASE dir # "none"
    BY <1>3, <2>2 DEF OpenMetadata, TypeOK
  <2>3. QED
    BY <2>1, <2>2
<1>4. CASE Listen(e) \/ WriteMetadata(e)
  BY <1>4 DEF Listen, WriteMetadata, TypeOK
<1>5. QED
  BY <1>1, <1>2, <1>3, <1>4 DEF Process

\* No command and no daemon ends a process that is not one of patchlab's daemons, whatever
\* pid the file still names.
THEOREM StrangersLiveCorrect == Spec => StrangersLive
<1> DEFINE Spares == \A d \in Pids : proc[d] = "stranger" /\ proc'[d] # "stranger" =>
                        UNCHANGED <<files, sandbox, pc>>
<1>1. TypeOK /\ [Next]_vars => [Spares]_vars
  BY CommandSpares, ProcessSpares DEF Next
<1>2. QED
  BY <1>1, TypeCorrect, PTL DEF Spec, StrangersLive

-----------------------------------------------------------------------------
(***************************************************************************)
(* Nothing is left that nothing names.                                     *)
(***************************************************************************)
\* When commands follow each other, one at a time, there is one daemon at most; before a
\* command decides it is the one the file names, once it has stopped that one there is none,
\* and while the command waits there is its child.
SequentialInv ==
    ~raced =>
        /\ \A p, q \in Commands : Active(p) /\ Active(q) => p = q
        /\ \A d, e \in Pids : Live(d) /\ Live(e) => d = e
        /\ \A d \in Pids : Live(d) => (proc[d] = "up" <=> Named(d))
        /\ \A d \in Pids : proc[d] = "writing" => dir # "none"
        /\ \A p \in Commands :
            /\ pc[p] \in {"start", "kill", "reread", "provision", "rollback", "destroy"} =>
                 \A d \in Pids : Live(d) => Named(d)
            /\ pc[p] \in {"unlink", "spawn", "rollback_unlink", "destroy_unlink", "destroyed"} =>
                 \A d \in Pids : ~Live(d)
            /\ pc[p] = "spawn" => meta.pid = None
            /\ pc[p] = "wait" => \A d \in Pids : Live(d) => d = child[p]

\* There is no daemon at first.
LEMMA SequentialInit == Init => SequentialInv
BY DEF Init, SequentialInv, Active, Live, Daemon

\* Stopping the daemon, wherever a command does it, keeps SequentialInv.
LEMMA SequentialKill ==
    ASSUME TypeOK, SequentialInv, NEW p \in Commands, NEW from, NEW unlink, NEW next,
           Kill(p, from, unlink, next) \/ Unlink(p, from, next),
           \/ from \in {"kill", "rollback", "destroy"}
              /\ unlink \in {"unlink", "rollback_unlink", "destroy_unlink"}
              /\ next \in {"spawn", "destroyed"} /\ Kill(p, from, unlink, next)
           \/ from \in {"unlink", "rollback_unlink", "destroy_unlink"}
              /\ next \in {"spawn", "destroyed"} /\ Unlink(p, from, next)
    PROVE  SequentialInv'
<1> SUFFICES ASSUME ~raced' PROVE SequentialInv'
  BY DEF SequentialInv
<1> USE DEF files, processes, sandbox, locals, history
<1>0. None \notin Pids
  BY ProxyAssumption
<1>1. CASE Kill(p, from, unlink, next) /\ from \in {"kill", "rollback", "destroy"}
           /\ unlink \in {"unlink", "rollback_unlink", "destroy_unlink"}
           /\ next \in {"spawn", "destroyed"}
  <2>1. /\ pc[p] = from /\ UNCHANGED <<files, sandbox, locals, history>>
        /\ End({d \in Pids : Named(d) /\ Live(d)})
    BY <1>1 DEF Kill
  <2>2. ~raced /\ Active(p) /\ \A d \in Pids : Live(d) => Named(d)
    BY <1>1, <2>1 DEF SequentialInv, Active
  <2>3. \A d \in Pids : ~Live(d)'
    BY <2>1, <2>2, Ending DEF Live, Daemon
  <2>4. PICK s \in {unlink, next} : Goto(p, s) /\ (s = next => meta.pid = None \/ unlink = next)
    BY <1>1 DEF Kill
  <2>5. \A q \in Commands : pc'[q] = IF q = p THEN s ELSE pc[q]
    BY <1>1, <2>4, Going DEF Pcs
  <2>6. QED
    BY <1>1, <2>1, <2>2, <2>3, <2>4, <2>5 DEF SequentialInv, Active, Live, Daemon
<1>2. CASE Unlink(p, from, next) /\ from \in {"unlink", "rollback_unlink", "destroy_unlink"}
           /\ next \in {"spawn", "destroyed"}
  <2>1. /\ pc[p] = from /\ meta' = NoRecord /\ Goto(p, next)
        /\ UNCHANGED <<dir, processes, sandbox, locals, history>>
    BY <1>2 DEF Unlink
  <2>2. ~raced /\ Active(p) /\ \A d \in Pids : ~Live(d)
    BY <1>2, <2>1 DEF SequentialInv, Active
  <2>3. \A q \in Commands : pc'[q] = IF q = p THEN next ELSE pc[q]
    BY <1>2, <2>1, Going DEF Pcs
  <2>4. \A d \in Pids : ~Live(d)'
    BY <2>1, <2>2 DEF Live
  <2>5. QED
    BY <1>2, <2>1, <2>2, <2>3, <2>4 DEF SequentialInv, Active, Live, Daemon, NoRecord
<1>3. QED
  BY <1>1, <1>2

\* Every step of a command keeps SequentialInv.
LEMMA SequentialCommand ==
    ASSUME TypeOK, SequentialInv, NEW p \in Commands, Command(p)
    PROVE  SequentialInv'
<1> USE DEF files, processes, sandbox, locals, history
<1>0. None \notin Pids
  BY ProxyAssumption
\* A step of the command alone, which is the only one: what its next step promises is enough.
<1>k. ASSUME NEW s \in Pcs, Goto(p, s), Active(p), ~raced, UNCHANGED <<meta, proc>>,
             dir' # "none" \/ dir' = dir \/ \A d \in Pids : ~Live(d),
             s \in {"start", "kill", "reread", "provision", "rollback", "destroy"} =>
                \A d \in Pids : Live(d) => Named(d),
             s \notin {"unlink", "spawn", "rollback_unlink", "destroy_unlink", "destroyed", "wait"}
      PROVE  SequentialInv'
  <2>1. \A q \in Commands : pc'[q] = IF q = p THEN s ELSE pc[q]
    BY <1>k, Going
  <2>2. \A q \in Commands : q # p => pc[q] \in {"idle", "ended", "crashed"}
    BY <1>k DEF SequentialInv, Active
  <2>3. \A d \in Pids : /\ Live(d)' = Live(d) /\ Named(d)' = Named(d) /\ proc'[d] = proc[d]
                        /\ proc[d] = "writing" => Live(d)
    BY <1>k DEF Live, Named, Daemon
  <2>4. \A q \in Commands : Active(q)' => q = p
    BY <2>1, <2>2 DEF Active
  <2>5. QED
    BY <1>k, <2>1, <2>2, <2>3, <2>4 DEF SequentialInv
<1> SUFFICES ASSUME ~raced' PROVE SequentialInv'
  BY DEF SequentialInv
<1>1. CASE Begin(p)
  <2>1. PICK s \in {"destroy", "start"} : Goto(p, s)
    BY <1>1 DEF Begin
  <2>2. /\ dir' # "none" /\ raced' = (raced \/ (\E q \in Commands : Active(q)) \/ Unnamed)
        /\ UNCHANGED <<meta, processes>>
    BY <1>1 DEF Begin, Made
  <2>3. ~raced /\ (\A q \in Commands : ~Active(q)) /\ \A d \in Pids : Live(d) => Named(d)
    BY <2>2 DEF Unnamed
  <2>4. \A q \in Commands : pc'[q] = IF q = p THEN s ELSE pc[q]
    BY <2>1, Going DEF Pcs
  <2>5. \A q \in Commands : pc[q] \in {"idle", "ended", "crashed"}
    BY <2>3 DEF Active
  <2>6. \A q \in Commands : Active(q)' => q = p
    BY <2>4, <2>5 DEF Active
  <2>7. \A d \in Pids : Live(d)' = Live(d) /\ Named(d)' = Named(d) /\ proc'[d] = proc[d]
    BY <2>2 DEF Live, Named
  <2>8. QED
    BY <2>2, <2>3, <2>4, <2>5, <2>6, <2>7 DEF SequentialInv
<1>2. CASE NoForwards(p) \/ Reuse(p) \/ Reread(p)
  <2>1. Goto(p, "provision") /\ UNCHANGED <<files, processes, history>>
    BY <1>2 DEF NoForwards, Reuse, Reread
  <2>2. pc[p] \in {"start", "reread"}
    BY <1>2 DEF NoForwards, Reuse, Reread
  <2>3. ~raced /\ Active(p) /\ \A d \in Pids : Live(d) => Named(d)
    BY <2>1, <2>2 DEF SequentialInv, Active
  <2>4. QED
    BY <2>1, <2>3, <1>k DEF Pcs
<1>3. CASE Replace(p)
  <2>1. Goto(p, "kill") /\ pc[p] = "start" /\ UNCHANGED <<files, processes, history>>
    BY <1>3 DEF Replace
  <2>2. ~raced /\ Active(p) /\ \A d \in Pids : Live(d) => Named(d)
    BY <2>1 DEF SequentialInv, Active
  <2>3. QED
    BY <2>1, <2>2, <1>k DEF Pcs
<1>4. CASE WaitSees(p)
  <2>1. /\ Goto(p, "reread") /\ pc[p] = "wait" /\ meta.pid = child[p]
        /\ UNCHANGED <<files, processes, history>>
    BY <1>4 DEF WaitSees, OwnMetadata
  <2>2. ~raced /\ Active(p) /\ \A d \in Pids : Live(d) => Named(d)
    BY <2>1 DEF SequentialInv, Active, Named
  <2>3. QED
    BY <2>1, <2>2, <1>k DEF Pcs
<1>5. CASE Fail(p)
  <2>1. /\ Goto(p, "rollback") /\ pc[p] \in {"start", "provision"}
        /\ UNCHANGED <<files, processes, history>>
    BY <1>5 DEF Fail
  <2>2. ~raced /\ Active(p) /\ \A d \in Pids : Live(d) => Named(d)
    BY <2>1 DEF SequentialInv, Active
  <2>3. QED
    BY <2>1, <2>2, <1>k DEF Pcs
<1>6. CASE CliKilled(p) \/ Succeed(p)
  <2>1. UNCHANGED <<meta, processes, raced>> /\ (dir' = dir \/ dir' = "whole")
    BY <1>6 DEF CliKilled, Succeed
  <2>s. PICK s \in {"crashed", "ended"} : Goto(p, s)
    BY <1>6 DEF CliKilled, Succeed
  <2>2. ~raced /\ Active(p)
    BY <1>6, <2>1 DEF CliKilled, Succeed, Active
  <2>3. QED
    BY <2>1, <2>s, <2>2, <1>k DEF Pcs
<1>7. CASE StopOld(p)
  BY <1>7, SequentialKill DEF StopOld
<1>8. CASE RollBack(p)
  BY <1>8, SequentialKill DEF RollBack
<1>9. CASE Destroy(p)
  BY <1>9, SequentialKill DEF Destroy
<1>10. CASE Spawn(p)
  <2>1. PICK d \in Pids : /\ proc[d] = "free" /\ proc' = [proc EXCEPT ![d] = "starting"]
                          /\ child' = [child EXCEPT ![p] = d]
    BY <1>10 DEF Spawn
  <2>2. /\ pc[p] = "spawn" /\ Goto(p, "wait") /\ dir' # "none" /\ UNCHANGED <<meta, history>>
    BY <1>10 DEF Spawn, Made
  <2>3. /\ ~raced /\ Active(p) /\ meta.pid = None
        /\ \A e \in Pids : ~Live(e)
        /\ \A q \in Commands : q # p => pc[q] \in {"idle", "ended", "crashed"}
    BY <2>2 DEF SequentialInv, Active
  <2>4. \A q \in Commands : pc'[q] = IF q = p THEN "wait" ELSE pc[q]
    BY <2>2, Going DEF Pcs
  <2>5. proc'[d] = "starting" /\ \A e \in Pids : e # d => proc'[e] = proc[e]
    BY <2>1 DEF TypeOK
  <2>6. \A e \in Pids : Live(e)' => e = d
    BY <2>3, <2>5 DEF Live
  <2>7. child'[p] = d
    BY <2>1 DEF TypeOK
  <2>8. \A q \in Commands : Active(q)' => q = p
    BY <2>3, <2>4 DEF Active
  <2>9. \A e \in Pids : ~Named(e)' /\ (Live(e)' => proc'[e] = "starting")
    BY <1>0, <2>2, <2>3, <2>5, <2>6 DEF Named
  <2>10. \A e \in Pids : proc'[e] = "writing" => Live(e)'
    BY DEF Live, Daemon
  <2>11. QED
    BY <2>2, <2>3, <2>4, <2>6, <2>7, <2>8, <2>9, <2>10 DEF SequentialInv
<1>11. CASE StartFails(p)
  <2>1. /\ pc[p] = "wait" \/ (pc[p] = "reread" /\ meta.pid = None)
        /\ End({d \in Pids : d = child[p] /\ Live(d)})
        /\ Goto(p, "rollback") /\ UNCHANGED <<files, sandbox, history>>
    BY <1>11 DEF StartFails, Terminate
  <2>2. ~raced /\ Active(p) /\ \A q \in Commands : q # p => pc[q] \in {"idle", "ended", "crashed"}
    BY <2>1 DEF SequentialInv, Active
  <2>3. \A d \in Pids : Live(d) => d = child[p]
    BY <1>0, <2>1, <2>2 DEF SequentialInv, Named
  <2>4. \A d \in Pids : ~Live(d)'
    BY <2>1, <2>3, Ending DEF Live, Daemon
  <2>5. \A q \in Commands : pc'[q] = IF q = p THEN "rollback" ELSE pc[q]
    BY <2>1, Going DEF Pcs
  <2>6. \A q \in Commands : Active(q)' => q = p
    BY <2>2, <2>5 DEF Active
  <2>7. \A d \in Pids : proc'[d] # "writing"
    BY <2>4 DEF Live, Daemon
  <2>8. QED
    BY <2>2, <2>4, <2>5, <2>6, <2>7 DEF SequentialInv
<1>12. CASE RemoveAll(p)
  <2>1. pc[p] = "destroyed" /\ Goto(p, "ended") /\ UNCHANGED <<processes, raced>>
    BY <1>12 DEF RemoveAll
  <2>2. /\ ~raced /\ Active(p) /\ \A d \in Pids : ~Live(d)
        /\ \A q \in Commands : q # p => pc[q] \in {"idle", "ended", "crashed"}
    BY <2>1 DEF SequentialInv, Active
  <2>3. \A d \in Pids : ~Live(d)' /\ proc'[d] # "writing"
    BY <2>1, <2>2 DEF Live, Daemon
  <2>4. \A q \in Commands : pc'[q] \in {"idle", "ended", "crashed"}
    BY <2>1, <2>2, Going DEF Pcs
  <2>5. QED
    BY <2>3, <2>4 DEF SequentialInv, Active
<1>13. QED
  BY <1>1, <1>2, <1>3, <1>4, <1>5, <1>6, <1>7, <1>8, <1>9, <1>10, <1>11, <1>12 DEF Command

\* Every step of a process keeps SequentialInv.
LEMMA SequentialProcess ==
    ASSUME TypeOK, SequentialInv, NEW d \in Pids, Process(d)
    PROVE  SequentialInv'
<1> USE DEF files, processes, sandbox, locals, history
<1>0. None \notin Pids
  BY ProxyAssumption
<1> SUFFICES ASSUME ~raced' PROVE SequentialInv'
  BY DEF SequentialInv
<1>a. ASSUME UNCHANGED <<pc, locals>> PROVE \A q \in Commands : Active(q)' = Active(q)
  BY <1>a DEF Active
\* Processes that end, or that are not daemons.
<1>k. ASSUME UNCHANGED <<files, pc, locals, raced>>,
             \A e \in Pids : proc'[e] \in Daemon => proc'[e] = proc[e]
      PROVE  SequentialInv'
  <2>1. \A e \in Pids : Live(e)' => Live(e) /\ proc'[e] = proc[e] /\ Named(e)' = Named(e)
    BY <1>k DEF Live, Named
  <2>2. \A e \in Pids : proc'[e] = "writing" => proc[e] = "writing"
    BY <1>k DEF Daemon
  <2>3. QED
    BY <1>a, <1>k, <2>1, <2>2 DEF SequentialInv
\* A daemon that is not up is not named: no command has found anything but it.
<1>w. ASSUME Live(d), ~Named(d), ~raced
      PROVE  /\ \A e \in Pids : Live(e) => e = d
             /\ \A q \in Commands : pc[q] \in {"wait", "idle", "ended", "crashed"}
  <2>1. \A q \in Commands : pc[q] \in Pcs
    BY DEF TypeOK
  <2>2. QED
    BY <1>w, <2>1 DEF SequentialInv, Pcs
<1>1. CASE Listen(d)
  <2>1. /\ proc[d] = "starting" /\ proc' = [proc EXCEPT ![d] = "listening"]
        /\ UNCHANGED <<files, pc, locals, raced>>
    BY <1>1 DEF Listen
  <2>2. Live(d) /\ ~Named(d) /\ ~raced
    BY <2>1 DEF SequentialInv, Live, Daemon
  <2>3. proc'[d] = "listening" /\ \A e \in Pids : e # d => proc'[e] = proc[e]
    BY <2>1 DEF TypeOK
  <2>4. \A e \in Pids : (Live(e)' <=> e = d) /\ Named(e)' = Named(e)
    BY <2>1, <2>2, <2>3, <1>w DEF Live, Daemon, Named
  <2>5. \A q \in Commands : pc'[q] \in {"wait", "idle", "ended", "crashed"}
    BY <2>1, <2>2, <1>w
  <2>6. \A e \in Pids : proc'[e] = "writing" => Live(e)'
    BY DEF Live, Daemon
  <2>7. QED
    BY <1>a, <2>1, <2>2, <2>3, <2>4, <2>5, <2>6 DEF SequentialInv
<1>2. CASE OpenMetadata(d)
  <2>1. proc[d] = "listening" /\ UNCHANGED <<dir, pc, locals, raced>>
    BY <1>2 DEF OpenMetadata
  <2>2. Live(d) /\ ~Named(d) /\ ~raced
    BY <2>1 DEF SequentialInv, Live, Daemon
  <2>3. CASE dir = "none"
    <3>1. End({d}) /\ meta' = meta
      BY <1>2, <2>3 DEF OpenMetadata
    <3>2. QED
      BY <2>1, <3>1, <1>k, Ending DEF Daemon
  <2>4. CASE dir # "none"
    <3>1. proc' = [proc EXCEPT ![d] = "writing"] /\ meta' = Torn
      BY <1>2, <2>4 DEF OpenMetadata
    <3>2. proc'[d] = "writing" /\ \A e \in Pids : e # d => proc'[e] = proc[e]
      BY <3>1 DEF TypeOK
    <3>3. \A e \in Pids : (Live(e)' <=> e = d) /\ ~Named(e)'
      BY <1>0, <2>2, <3>1, <3>2, <1>w DEF Live, Daemon, Named, Torn
    <3>4. \A q \in Commands : pc'[q] \in {"wait", "idle", "ended", "crashed"}
      BY <2>1, <2>2, <1>w
    <3>5. QED
      BY <1>a, <2>1, <2>2, <2>4, <3>2, <3>3, <3>4 DEF SequentialInv
  <2>5. QED
    BY <2>3, <2>4
<1>3. CASE WriteMetadata(d)
  <2>1. /\ proc[d] = "writing" /\ proc' = [proc EXCEPT ![d] = "up"]
        /\ UNCHANGED <<dir, pc, locals, raced>>
    BY <1>3 DEF WriteMetadata
  <2>2. Live(d) /\ ~Named(d) /\ ~raced /\ dir # "none"
    BY <2>1 DEF SequentialInv, Live, Daemon
  <2>3. meta'.pid = d
    BY <1>3, <2>2 DEF WriteMetadata
  <2>4. proc'[d] = "up" /\ \A e \in Pids : e # d => proc'[e] = proc[e]
    BY <2>1 DEF TypeOK
  <2>5. \A e \in Pids : (Live(e)' <=> e = d) /\ (Named(e)' <=> e = d)
    BY <2>2, <2>3, <2>4, <1>w DEF Live, Daemon, Named
  <2>6. \A q \in Commands : pc'[q] \in {"wait", "idle", "ended", "crashed"}
    BY <2>1, <2>2, <1>w
  <2>7. \A e \in Pids : proc'[e] # "writing"
    BY <2>4, <2>5 DEF Live, Daemon
  <2>8. QED
    BY <1>a, <2>1, <2>2, <2>4, <2>5, <2>6, <2>7 DEF SequentialInv
<1>4. CASE DaemonDies(d)
  <2>1. End({d}) /\ UNCHANGED <<files, pc, locals, raced>>
    BY <1>4 DEF DaemonDies
  <2>2. QED
    BY <2>1, <1>k, Ending DEF Daemon
<1>5. CASE Stranger(d)
  <2>1. UNCHANGED <<files, pc, locals, raced>>
    BY <1>5 DEF Stranger
  <2>2. \A e \in Pids : proc'[e] \in Daemon => proc'[e] = proc[e]
    BY <1>5 DEF Stranger, Daemon, TypeOK
  <2>3. QED
    BY <2>1, <2>2, <1>k
<1>6. QED
  BY <1>1, <1>2, <1>3, <1>4, <1>5 DEF Process

\* Every action keeps SequentialInv.
LEMMA SequentialStep == TypeOK /\ SequentialInv /\ [Next]_vars => SequentialInv'
<1> SUFFICES ASSUME TypeOK, SequentialInv, [Next]_vars PROVE SequentialInv'
  OBVIOUS
<1>1. CASE UNCHANGED vars
  BY <1>1 DEF vars, files, processes, sandbox, locals, history, SequentialInv, Active, Live, Named
<1>2. QED
  BY <1>1, SequentialCommand, SequentialProcess DEF Next

\* Commands that follow each other leave no daemon that has written its metadata unnamed,
\* however the daemons, the file and the pids behave.
THEOREM NoOrphanCorrect == Spec => []NoOrphan
<1>1. SequentialInv => NoOrphan
  BY DEF SequentialInv, NoOrphan, Live, Daemon
<1>2. TypeOK /\ SequentialInv /\ [Next]_vars => (TypeOK /\ SequentialInv)'
  BY TypeStep, SequentialStep
<1>3. QED
  BY <1>1, <1>2, TypeInit, SequentialInit, PTL DEF Spec

-----------------------------------------------------------------------------
(***************************************************************************)
(* The container's ports are served.                                       *)
(***************************************************************************)
Calm == ~raced /\ ~died /\ \A p \in Commands : pc[p] # "crashed"

Resting == \A p \in Commands : ~Active(p)

\* What a command is about to write into the container's configuration is served.
Promised(p) ==
    /\ TargetsOf(got[p]) = request[p]
    /\ request[p] = {} \/ \E d \in Pids : proc[d] = "up" /\ got[p] \subseteq bound[d]

\* Without races, kills and deaths a command that waits has its daemon, the file tells what
\* that one has bound, and a command that rests leaves what its container needs.
ServedInv ==
    Calm =>
        /\ Resting => \A d \in Pids : Live(d) => Named(d)
        /\ Resting /\ container /\ ~failed => Served
        /\ \A d \in Pids : /\ proc[d] \in {"listening", "writing", "up"} =>
                                TargetsOf(bound[d]) = want[d]
                           /\ Named(d) /\ Live(d) => meta.ports = bound[d]
        /\ \A p \in Commands :
            /\ Active(p) => dir # "none"
            /\ pc[p] \in {"wait", "reread"} => Live(child[p]) /\ want[child[p]] = request[p]
            /\ pc[p] = "reread" => Named(child[p])
            /\ pc[p] = "provision" => Promised(p)

\* No container has been promised a port at first.
LEMMA ServedInit == Init => ServedInv
BY DEF Init, ServedInv, Active, Live, Daemon

\* Every step of a command keeps ServedInv.
LEMMA ServedCommand ==
    ASSUME TypeOK, SequentialInv, ServedInv, NEW p \in Commands, Command(p)
    PROVE  ServedInv'
<1> USE DEF files, processes, sandbox, locals, history
<1>0. None \notin Pids
  BY ProxyAssumption
<1>c. ~Calm' \/ Calm
  <2>1. pc[p] # "crashed"
    BY DEF Command, Begin, NoForwards, Reuse, Replace, StopOld, Spawn, WaitSees, StartFails,
       Reread, Succeed, Fail, RollBack, Destroy, RemoveAll, CliKilled, Kill, Unlink, Active
  <2>2. \A q \in Commands : q # p => pc'[q] = pc[q]
    <3>1. PICK s : Goto(p, s)
      BY DEF Command, Begin, NoForwards, Reuse, Replace, StopOld, Spawn, WaitSees, StartFails,
         Reread, Succeed, Fail, RollBack, Destroy, RemoveAll, CliKilled, Kill, Unlink
    <3>2. QED
      BY <3>1 DEF Goto, TypeOK
  <2>3. died' = died /\ (raced => raced')
    <3>0. CASE Begin(p)
      BY <3>0 DEF Begin
    <3>1. CASE NoForwards(p) \/ Reuse(p) \/ Replace(p) \/ Spawn(p) \/ WaitSees(p)
      BY <3>1 DEF NoForwards, Reuse, Replace, Spawn, WaitSees
    <3>2. CASE StopOld(p) \/ RollBack(p) \/ Destroy(p)
      BY <3>2 DEF StopOld, RollBack, Destroy, Kill, Unlink
    <3>3. CASE StartFails(p) \/ Reread(p) \/ Succeed(p) \/ Fail(p) \/ RemoveAll(p) \/ CliKilled(p)
      BY <3>3 DEF StartFails, Reread, Succeed, Fail, RemoveAll, CliKilled
    <3>4. QED
      BY <3>0, <3>1, <3>2, <3>3 DEF Command
  <2>4. QED
    BY <2>1, <2>2, <2>3 DEF Calm
<1> SUFFICES ASSUME Calm', Calm PROVE ServedInv'
  BY <1>c DEF ServedInv
<1>o. ASSUME Active(p) PROVE \A q \in Commands : q # p => pc[q] \in {"idle", "ended"}
  BY <1>o DEF SequentialInv, Calm, Active
\* The command goes on, and neither waits nor provisions next.
<1>k. ASSUME NEW s \in Pcs, Goto(p, s), s \notin {"idle", "ended", "crashed", "wait", "reread", "provision"},
             \A q \in Commands : q # p => pc[q] \in {"idle", "ended"},
             dir' # "none",
             \A d \in Pids : proc'[d] \in Daemon =>
                proc'[d] = proc[d] /\ bound'[d] = bound[d] /\ want'[d] = want[d],
             meta' = meta \/ meta' = NoRecord
      PROVE  ServedInv'
  <2>1. \A q \in Commands : pc'[q] = IF q = p THEN s ELSE pc[q]
    BY <1>k, Going
  <2>2. ~Resting'
    BY <1>k, <2>1 DEF Resting, Active
  <2>3. \A d \in Pids : Live(d)' => /\ Live(d) /\ proc'[d] = proc[d]
                                    /\ bound'[d] = bound[d] /\ want'[d] = want[d]
    BY <1>k DEF Live
  <2>4. \A d \in Pids : Named(d)' => Named(d) /\ meta' = meta
    BY <1>0, <1>k DEF Named, NoRecord
  <2>5. \A d \in Pids : proc'[d] \in {"listening", "writing", "up"} => Live(d)'
    BY DEF Live, Daemon
  <2>6. QED
    BY <1>k, <2>1, <2>2, <2>3, <2>4, <2>5 DEF ServedInv, Live
\* The command goes on and no process has changed.
<1>n. ASSUME NEW s \in Pcs, Goto(p, s), s \in {"reread", "provision"}, Active(p),
             UNCHANGED <<files, processes, request, child>>,
             s = "reread" => Live(child[p]) /\ want[child[p]] = request[p] /\ Named(child[p]),
             s = "provision" => Promised(p)'
      PROVE  ServedInv'
  <2>1. \A q \in Commands : pc'[q] = IF q = p THEN s ELSE pc[q]
    BY <1>n, Going
  <2>2. ~Resting'
    BY <1>n, <2>1 DEF Resting, Active
  <2>3. \A d : Live(d)' = Live(d) /\ Named(d)' = Named(d)
    BY <1>n DEF Live, Named
  <2>4. \A q \in Commands : q # p => pc'[q] \in {"idle", "ended"}
    BY <1>n, <1>o, <2>1
  <2>5. QED
    BY <1>n, <2>1, <2>2, <2>3, <2>4 DEF ServedInv, Active
<1>1. CASE Begin(p)
  <2>1. PICK s \in {"destroy", "start"} : Goto(p, s)
    BY <1>1 DEF Begin
  <2>2. /\ dir' # "none" /\ UNCHANGED <<meta, processes>>
        /\ raced' = (raced \/ (\E q \in Commands : Active(q)) \/ Unnamed)
    BY <1>1 DEF Begin, Made
  <2>3. \A q \in Commands : pc[q] \in {"idle", "ended"}
    BY <2>2 DEF Calm, Active
  <2>4. QED
    BY <2>1, <2>2, <2>3, <1>k DEF Pcs
<1>2. CASE NoForwards(p)
  <2>1. /\ pc[p] = "start" /\ request[p] = {} /\ got' = [got EXCEPT ![p] = {}]
        /\ Goto(p, "provision") /\ UNCHANGED <<files, processes, request, child>>
    BY <1>2 DEF NoForwards
  <2>2. got'[p] = {} /\ request'[p] = {}
    BY <2>1 DEF TypeOK
  <2>3. Promised(p)'
    BY <2>2 DEF Promised, TargetsOf
  <2>4. QED
    BY <2>1, <2>3, <1>n DEF Pcs, Active
<1>3. CASE Reuse(p)
  <2>1. /\ pc[p] = "start" /\ got' = [got EXCEPT ![p] = meta.ports] /\ Reusable(p)
        /\ Goto(p, "provision") /\ UNCHANGED <<files, processes, request, child>>
    BY <1>3 DEF Reuse
  <2>2. PICK d \in Pids : Named(d) /\ Live(d)
    BY <2>1 DEF Reusable, NamesLive
  <2>3. proc[d] = "up" /\ meta.ports = bound[d]
    BY <2>2 DEF SequentialInv, ServedInv, Calm
  <2>4. got'[p] = meta.ports
    BY <2>1 DEF TypeOK
  <2>5. Promised(p)'
    BY <2>1, <2>3, <2>4 DEF Promised, Reusable, TargetsOf
  <2>6. QED
    BY <2>1, <2>5, <1>n DEF Pcs, Active
<1>4. CASE Replace(p) \/ Fail(p)
  <2>1. PICK s \in {"kill", "rollback"} : Goto(p, s)
    BY <1>4 DEF Replace, Fail
  <2>2. Active(p) /\ UNCHANGED <<files, processes>>
    BY <1>4 DEF Replace, Fail, Active
  <2>3. dir' # "none"
    BY <2>2 DEF ServedInv
  <2>4. QED
    BY <2>1, <2>2, <2>3, <1>o, <1>k DEF Pcs
<1>5. CASE StopOld(p) \/ RollBack(p) \/ Destroy(p)
  <2>1. PICK s \in {"unlink", "rollback_unlink", "destroy_unlink", "spawn", "destroyed"} : Goto(p, s)
    BY <1>5 DEF StopOld, RollBack, Destroy, Kill, Unlink
  <2>2. Active(p) /\ dir' = dir
    BY <1>5 DEF StopOld, RollBack, Destroy, Kill, Unlink, Active
  <2>3. dir' # "none"
    BY <2>2 DEF ServedInv
  <2>4. CASE meta' = meta /\ \E ended : End(ended)
    BY <2>1, <2>2, <2>3, <2>4, <1>o, <1>k, Ending DEF Pcs, Daemon
  <2>5. CASE meta' = NoRecord /\ UNCHANGED processes
    BY <2>1, <2>2, <2>3, <2>5, <1>o, <1>k DEF Pcs
  <2>6. QED
    BY <1>5, <2>4, <2>5 DEF StopOld, RollBack, Destroy, Kill, Unlink
<1>6. CASE Spawn(p)
  <2>1. PICK d \in Pids : /\ proc[d] = "free" /\ proc' = [proc EXCEPT ![d] = "starting"]
                          /\ want' = [want EXCEPT ![d] = request[p]]
                          /\ child' = [child EXCEPT ![p] = d]
    BY <1>6 DEF Spawn
  <2>2. /\ pc[p] = "spawn" /\ Goto(p, "wait") /\ dir' # "none"
        /\ UNCHANGED <<meta, bound, request>>
    BY <1>6 DEF Spawn, Made
  <2>3. \A q \in Commands : q # p => pc'[q] \in {"idle", "ended"}
    BY <2>2, <1>o, Going DEF Active, Pcs
  <2>4. pc'[p] = "wait" /\ child'[p] = d
    BY <2>1, <2>2, Going DEF TypeOK, Pcs
  <2>5. /\ proc'[d] = "starting" /\ want'[d] = request'[p]
        /\ \A e \in Pids : e # d => proc'[e] = proc[e] /\ want'[e] = want[e]
    BY <2>1, <2>2 DEF TypeOK
  <2>6. \A e \in Pids : ~Named(e)'
    BY <1>0, <2>2 DEF SequentialInv, Calm, Named
  <2>7. ~Resting'
    BY <2>4 DEF Resting, Active
  <2>8. Live(d)'
    BY <2>5 DEF Live, Daemon
  <2>9. QED
    BY <2>2, <2>3, <2>4, <2>5, <2>6, <2>7, <2>8 DEF ServedInv, Active, Live
<1>7. CASE WaitSees(p)
  <2>1. /\ pc[p] = "wait" /\ meta.pid = child[p] /\ Goto(p, "reread")
        /\ UNCHANGED <<files, processes, request, child>>
    BY <1>7 DEF WaitSees, OwnMetadata
  <2>2. Live(child[p]) /\ want[child[p]] = request[p] /\ Named(child[p])
    BY <2>1 DEF ServedInv, Named
  <2>3. QED
    BY <2>1, <2>2, <1>n DEF Pcs, Active
<1>8. CASE StartFails(p)
  <2>1. Active(p) /\ Goto(p, "rollback") /\ UNCHANGED files
    BY <1>8 DEF StartFails, Active
  <2>2. dir' # "none"
    BY <2>1 DEF ServedInv
  <2>3. PICK ended : End(ended)
    BY <1>8 DEF StartFails, Terminate
  <2>4. QED
    BY <2>1, <2>2, <2>3, <1>o, <1>k, Ending DEF Pcs, Daemon
<1>9. CASE Reread(p)
  <2>1. /\ pc[p] = "reread" /\ got' = [got EXCEPT ![p] = meta.ports]
        /\ Goto(p, "provision") /\ UNCHANGED <<files, processes, request, child>>
    BY <1>9 DEF Reread
  <2>2. /\ child[p] \in Pids /\ Live(child[p]) /\ Named(child[p])
        /\ want[child[p]] = request[p]
    BY <2>1 DEF ServedInv, TypeOK
  <2>3. proc[child[p]] = "up" /\ meta.ports = bound[child[p]]
    BY <2>2 DEF SequentialInv, ServedInv, Calm
  <2>4. TargetsOf(meta.ports) = request[p]
    BY <2>2, <2>3 DEF ServedInv
  <2>5. got'[p] = meta.ports
    BY <2>1 DEF TypeOK
  <2>6. Promised(p)'
    BY <2>1, <2>2, <2>3, <2>4, <2>5 DEF Promised, TargetsOf
  <2>7. QED
    BY <2>1, <2>6, <1>n DEF Pcs, Active
<1>10. CASE Succeed(p)
  <2>1. /\ pc[p] = "provision" /\ Goto(p, "ended") /\ UNCHANGED <<meta, processes>>
        /\ needs' = request[p] /\ baked' = got[p]
    BY <1>10 DEF Succeed
  <2>2. \A q \in Commands : pc'[q] \in {"idle", "ended"}
    BY <2>1, <1>o, Going DEF Active, Pcs
  <2>3. \A d \in Pids : Live(d)' = Live(d) /\ Named(d)' = Named(d) /\ (Live(d) => Named(d))
    BY <2>1 DEF SequentialInv, Calm, Live, Named
  <2>4. Promised(p)
    BY <2>1 DEF ServedInv
  <2>5. Served'
    BY <2>1, <2>4 DEF Promised, Served, TargetsOf
  <2>6. QED
    BY <2>1, <2>2, <2>3, <2>5 DEF ServedInv, Active
<1>11. CASE RemoveAll(p)
  <2>1. /\ pc[p] = "destroyed" /\ Goto(p, "ended") /\ UNCHANGED processes
        /\ failed' \/ ~container'
    BY <1>11 DEF RemoveAll
  <2>2. \A q \in Commands : pc'[q] \in {"idle", "ended"}
    BY <2>1, <1>o, Going DEF Active, Pcs
  <2>3. \A d \in Pids : ~Live(d)'
    BY <2>1 DEF SequentialInv, Calm, Live
  <2>4. \A d \in Pids : proc'[d] \notin {"listening", "writing", "up"}
    BY <2>3 DEF Live, Daemon
  <2>5. QED
    BY <2>1, <2>2, <2>3, <2>4 DEF ServedInv, Active
<1>12. CASE CliKilled(p)
  BY <1>12, Going DEF CliKilled, Calm, Pcs
<1>13. QED
  BY <1>1, <1>2, <1>3, <1>4, <1>5, <1>6, <1>7, <1>8, <1>9, <1>10, <1>11, <1>12 DEF Command

\* Every step of a process keeps ServedInv.
LEMMA ServedProcess ==
    ASSUME TypeOK, SequentialInv, ServedInv, NEW d \in Pids, Process(d)
    PROVE  ServedInv'
<1> USE DEF files, processes, sandbox, locals, history
<1>0. None \notin Pids
  BY ProxyAssumption
<1>c. UNCHANGED <<dir, container, needs, baked, pc, locals, raced, failed>> /\ (died => died')
  BY DEF Process, Listen, OpenMetadata, WriteMetadata, DaemonDies, Stranger
<1>d. Calm' => Calm
  BY <1>c DEF Calm
<1> SUFFICES ASSUME Calm', Calm PROVE ServedInv'
  BY <1>d DEF ServedInv
<1>a. Resting' = Resting /\ \A q \in Commands : Active(q)' = Active(q)
  BY <1>c DEF Resting, Active
\* A daemon that is not named yet is the child of a command that waits for it.
<1>w. ASSUME Live(d), ~Named(d)
      PROVE  /\ \A e \in Pids : Live(e) => e = d
             /\ \A q \in Commands : pc[q] \in {"wait", "idle", "ended"}
             /\ ~Resting /\ dir # "none"
  <2>1. \A q \in Commands : pc[q] \in Pcs
    BY DEF TypeOK
  <2>2. \A q \in Commands : pc[q] \in {"wait", "idle", "ended"}
    BY <1>w, <2>1 DEF SequentialInv, Calm, Pcs
  <2>3. ~Resting /\ dir # "none"
    BY <1>w DEF ServedInv, Resting
  <2>4. \A e \in Pids : Live(e) => e = d
    BY <1>w DEF SequentialInv, Calm
  <2>5. QED
    BY <2>2, <2>3, <2>4
\* The child takes its next step towards being up.
<1>g. ASSUME Live(d), ~Named(d), proc'[d] \in Daemon, want' = want,
             \A e \in Pids : e # d => proc'[e] = proc[e],
             TargetsOf(bound'[d]) = want[d],
             Named(d)' => meta'.ports = bound'[d]
      PROVE  ServedInv'
  <2>1. \A e \in Pids : Live(e)' <=> e = d
    BY <1>g, <1>w DEF Live
  <2>2. \A e \in Pids : proc'[e] \in {"listening", "writing", "up"} => Live(e)'
    BY DEF Live, Daemon
  <2>3. \A q \in Commands : pc'[q] = "wait" => Live(child[q])' /\ want'[child'[q]] = request'[q]
    <3> SUFFICES ASSUME NEW q \in Commands, pc'[q] = "wait"
                 PROVE  Live(child[q])' /\ want'[child'[q]] = request'[q]
      OBVIOUS
    <3>1. child[q] \in Pids /\ Live(child[q]) /\ want[child[q]] = request[q]
      BY <1>c DEF ServedInv, TypeOK
    <3>2. child[q] = d
      BY <1>g, <3>1, <1>w
    <3>3. child'[q] = d /\ request'[q] = request[q] /\ want'[d] = want[d]
      BY <1>c, <1>g, <3>2
    <3>4. QED
      BY <2>1, <3>1, <3>2, <3>3
  <2>4. QED
    BY <1>a, <1>c, <1>g, <2>1, <2>2, <2>3, <1>w DEF ServedInv
<1>1. CASE Listen(d)
  <2>1. /\ proc[d] = "starting" /\ proc' = [proc EXCEPT ![d] = "listening"]
        /\ UNCHANGED <<meta, want>>
    BY <1>1 DEF Listen
  <2>2. PICK ports \in [want[d] -> {None, d}] :
            bound' = [bound EXCEPT ![d] = {<<t, ports[t]>> : t \in want[d]}]
    BY <1>1 DEF Listen
  <2>3. Live(d) /\ ~Named(d)
    BY <2>1 DEF SequentialInv, Calm, Live, Daemon
  <2>4. proc'[d] = "listening" /\ \A e \in Pids : e # d => proc'[e] = proc[e]
    BY <2>1 DEF TypeOK
  <2>5. TargetsOf(bound'[d]) = want[d]
    BY <2>2, Listening DEF TypeOK
  <2>6. ~Named(d)'
    BY <2>1, <2>3 DEF Named
  <2>7. QED
    BY <2>1, <2>3, <2>4, <2>5, <2>6, <1>g DEF Daemon
<1>2. CASE OpenMetadata(d)
  <2>1. proc[d] = "listening"
    BY <1>2 DEF OpenMetadata
  <2>2. Live(d) /\ ~Named(d)
    BY <2>1 DEF SequentialInv, Calm, Live, Daemon
  <2>3. dir # "none"
    BY <2>2, <1>w
  <2>4. /\ proc' = [proc EXCEPT ![d] = "writing"] /\ meta' = Torn
        /\ UNCHANGED <<want, bound>>
    BY <1>2, <2>3 DEF OpenMetadata
  <2>5. proc'[d] = "writing" /\ \A e \in Pids : e # d => proc'[e] = proc[e]
    BY <2>4 DEF TypeOK
  <2>6. TargetsOf(bound'[d]) = want[d]
    BY <2>1, <2>4 DEF ServedInv
  <2>7. ~Named(d)'
    BY <1>0, <2>4 DEF Named, Torn
  <2>8. QED
    BY <2>2, <2>4, <2>5, <2>6, <2>7, <1>g DEF Daemon
<1>3. CASE WriteMetadata(d)
  <2>1. /\ proc[d] = "writing" /\ proc' = [proc EXCEPT ![d] = "up"]
        /\ UNCHANGED <<want, bound>>
    BY <1>3 DEF WriteMetadata
  <2>2. Live(d) /\ ~Named(d)
    BY <2>1 DEF SequentialInv, Calm, Live, Daemon
  <2>3. meta' = [pid |-> d, ports |-> bound[d]]
    BY <1>3, <2>2, <1>w DEF WriteMetadata
  <2>4. proc'[d] = "up" /\ \A e \in Pids : e # d => proc'[e] = proc[e]
    BY <2>1 DEF TypeOK
  <2>5. TargetsOf(bound'[d]) = want[d]
    BY <2>1 DEF ServedInv
  <2>6. meta'.ports = bound'[d]
    BY <2>1, <2>3
  <2>7. QED
    BY <2>1, <2>2, <2>4, <2>5, <2>6, <1>g DEF Daemon
<1>4. CASE DaemonDies(d)
  BY <1>4 DEF DaemonDies, Calm
<1>5. CASE Stranger(d)
  <2>1. UNCHANGED <<files, want, bound, sandbox, pc, locals, history>>
    BY <1>5 DEF Stranger
  <2>2. \A e \in Pids : Live(e)' = Live(e) /\ Named(e)' = Named(e)
    BY <1>5 DEF Stranger, Live, Daemon, Named, TypeOK
  <2>3. \A e \in Pids : proc[e] \in Daemon \/ proc'[e] \in Daemon => proc'[e] = proc[e]
    BY <1>5 DEF Stranger, Daemon, TypeOK
  <2>4. Served' = Served
    BY <2>1, <2>3 DEF Served, TargetsOf, Daemon
  <2>5. \A q \in Commands : Promised(q) => Promised(q)'
    BY <2>1, <2>3 DEF Promised, TargetsOf, Daemon
  <2>6. \A q \in Commands : pc'[q] \in {"wait", "reread"} => child'[q] = child[q] /\ child[q] \in Pids
    BY <1>c DEF TypeOK
  <2>7. QED
    BY <1>a, <2>1, <2>2, <2>3, <2>4, <2>5, <2>6 DEF ServedInv, Daemon
<1>6. QED
  BY <1>1, <1>2, <1>3, <1>4, <1>5 DEF Process

\* Every action keeps ServedInv.
LEMMA ServedStep == TypeOK /\ SequentialInv /\ ServedInv /\ [Next]_vars => ServedInv'
<1> SUFFICES ASSUME TypeOK, SequentialInv, ServedInv, [Next]_vars PROVE ServedInv'
  OBVIOUS
<1>1. CASE UNCHANGED vars
  BY <1>1 DEF vars, files, processes, sandbox, locals, history, ServedInv, Calm, Resting, Active,
     Live, Named, Served, Promised, TargetsOf
<1>2. QED
  BY <1>1, ServedCommand, ServedProcess DEF Next

\* When no command runs, the container that the last one left has the ports of a daemon that
\* is up, for every forward it needs, whatever was reused, replaced or rolled back before.
THEOREM ContainerIsServedCorrect == Spec => []ContainerIsServed
<1>1. ServedInv => ContainerIsServed
  BY DEF ServedInv, ContainerIsServed, Calm, Resting, Quiet
<1>2. /\ Init => TypeOK /\ SequentialInv /\ ServedInv
      /\ TypeOK /\ SequentialInv /\ ServedInv /\ [Next]_vars
            => (TypeOK /\ SequentialInv /\ ServedInv)'
  BY TypeInit, TypeStep, SequentialInit, SequentialStep, ServedInit, ServedStep
<1>3. QED
  BY <1>1, <1>2, PTL DEF Spec
=============================================================================
