------------------------------ MODULE HostProxy ------------------------------
(***************************************************************************)
(* The host-side proxy of one patchlab (src/local_model_proxy): a detached  *)
(* daemon that listens for the container and forwards to the user's model   *)
(* servers.  Nothing but host-proxy.json in the archive names it.  Create   *)
(* and resume start or reuse it, every rollback and destroy stop it; each   *)
(* command is a process of its own, and so is the daemon.                   *)
(***************************************************************************)
EXTENDS Naturals, FiniteSets

CONSTANTS Commands,     \* the commands of this patchlab, each run once
          Pids,         \* process ids, used again and again
          Targets,      \* ports of the user's model servers
          Requests,     \* the sets of them a configuration may name
          None          \* no process, no metadata

ASSUME ProxyAssumption == None \notin Pids /\ Requests \subseteq SUBSET Targets

VARIABLES
    \* the archive, "new" until its manifest is written, and host-proxy.json: no record, torn,
    \* or what a daemon wrote
    dir, meta,
    \* the processes of the host: what runs under each pid, and for a daemon the forwards it
    \* was given and the ports it has bound
    proc, want, bound,
    \* the container: whether it is there, the forwards it needs and the ports its
    \* configuration was written with
    container, needs, baked,
    \* the commands: step, kind, forwards requested, spawned child, ports returned
    pc, kind, request, child, got,
    \* history: whether a command met another one or a daemon nothing names; whether a daemon
    \* died by itself; whether the last resume failed
    raced, died, failed

files     == <<dir, meta>>
processes == <<proc, want, bound>>
sandbox   == <<container, needs, baked>>
locals    == <<kind, request, child, got>>
history   == <<raced, died, failed>>
vars == <<files, processes, sandbox, pc, locals, history>>

Pcs       == {"idle", "start", "kill", "unlink", "spawn", "wait", "reread", "provision",
              "rollback", "rollback_unlink", "destroy", "destroy_unlink", "destroyed",
              "ended", "crashed"}
Daemon    == {"starting", "listening", "writing", "up"}
Ports     == SUBSET (Targets \X (Pids \cup {None}))   \* None is the target's own port
Record    == [pid : Pids, ports : Ports]
NoRecord  == [pid |-> None, ports |-> {}]
Torn      == [pid |-> None, ports |-> {<<None, None>>}]

Live(d)    == proc[d] \in Daemon
Active(p)  == pc[p] \notin {"idle", "ended", "crashed"}
TargetsOf(ports) == {x[1] : x \in ports}
Goto(p, s) == pc' = [pc EXCEPT ![p] = s]

\* read_host_proxy_metadata gives null for no file and for one that does not parse.
Named(d)   == meta.pid = d
NamesLive  == \E d \in Pids : Named(d) /\ Live(d)

Init ==
    /\ dir = "none" /\ meta = NoRecord
    /\ proc = [d \in Pids |-> "free"] /\ want = [d \in Pids |-> {}]
    /\ bound = [d \in Pids |-> {}]
    /\ container = FALSE /\ needs = {} /\ baked = {}
    /\ pc = [p \in Commands |-> "idle"] /\ kind = [p \in Commands |-> "create"]
    /\ request = [p \in Commands |-> {}] /\ child = [p \in Commands |-> None]
    /\ got = [p \in Commands |-> {}]
    /\ raced = FALSE /\ died = FALSE /\ failed = FALSE

\* What is left of the processes when some have ended.
End(ended) ==
    /\ proc' = [d \in Pids |-> IF d \in ended THEN "free" ELSE proc[d]]
    /\ want' = [d \in Pids |-> IF d \in ended THEN {} ELSE want[d]]
    /\ bound' = [d \in Pids |-> IF d \in ended THEN {} ELSE bound[d]]

-----------------------------------------------------------------------------
(***************************************************************************)
(* The host's processes                                                     *)
(***************************************************************************)
\* start_proxy_listeners: each forward gets its target's port or, when that is taken, an
\* ephemeral one, on the gateway or on all interfaces.
Listen(d) ==
    /\ proc[d] = "starting"
    /\ proc' = [proc EXCEPT ![d] = "listening"]
    /\ \E ports \in [want[d] -> {None, d}] :
          bound' = [bound EXCEPT ![d] = {<<t, ports[t]>> : t \in want[d]}]
    /\ UNCHANGED <<files, want, sandbox, pc, locals, history>>

\* Opening the file truncates it; without the directory the daemon exits.
OpenMetadata(d) ==
    /\ proc[d] = "listening"
    /\ IF dir = "none"
       THEN End({d}) /\ UNCHANGED meta
       ELSE /\ proc' = [proc EXCEPT ![d] = "writing"]
            /\ meta' = Torn /\ UNCHANGED <<want, bound>>
    /\ UNCHANGED <<dir, sandbox, pc, locals, history>>

WriteMetadata(d) ==
    /\ proc[d] = "writing"
    /\ proc' = [proc EXCEPT ![d] = "up"]
    /\ meta' = IF dir # "none" THEN [pid |-> d, ports |-> bound[d]] ELSE meta
    /\ UNCHANGED <<dir, want, bound, sandbox, pc, locals, history>>

\* A port that cannot be bound, a crash, a restart of the host.
DaemonDies(d) ==
    /\ Live(d) /\ End({d}) /\ died' = TRUE
    /\ UNCHANGED <<files, sandbox, pc, locals, raced, failed>>

\* Another program gets a free pid, or ends.
Stranger(d) ==
    /\ \/ proc[d] = "free" /\ proc' = [proc EXCEPT ![d] = "stranger"]
       \/ proc[d] = "stranger" /\ proc' = [proc EXCEPT ![d] = "free"]
    /\ UNCHANGED <<files, want, bound, sandbox, pc, locals, history>>

(***************************************************************************)
(* stop_host_proxy                                                          *)
(***************************************************************************)
\* Mutant: the pid is killed when it is alive, whosever it is.
KillsAnyPid(p, from, unlink, next) ==
    /\ pc[p] = from
    /\ Goto(p, IF meta.pid = None THEN next ELSE unlink)
    /\ End({d \in Pids : Named(d)})
    /\ UNCHANGED <<files, sandbox, locals, history>>

\* Mutant: the file goes, the daemon stays.
KillsNothing(p, from, unlink, next) ==
    /\ pc[p] = from
    /\ Goto(p, IF meta.pid = None THEN next ELSE unlink)
    /\ UNCHANGED <<files, processes, sandbox, locals, history>>

\* It kills what the metadata names, if that is alive and has the daemon's command line; check
\* and kill are two system calls in a row, and no pid comes round in between.
Kill(p, from, unlink, next) ==
    /\ pc[p] = from
    /\ Goto(p, IF meta.pid = None THEN next ELSE unlink)
    /\ End({d \in Pids : Named(d) /\ Live(d)})
    /\ UNCHANGED <<files, sandbox, locals, history>>

Unlink(p, from, next) ==
    /\ pc[p] = from /\ meta' = NoRecord
    /\ Goto(p, next)
    /\ UNCHANGED <<dir, processes, sandbox, locals, history>>

(***************************************************************************)
(* start_host_proxy                                                         *)
(***************************************************************************)
Made == IF dir = "none" THEN "new" ELSE dir

Unnamed == \E d \in Pids : Live(d) /\ ~Named(d)

\* A command begins: create where there is no archive, resume where there is a manifest.
Begin(p) ==
    /\ pc[p] = "idle"
    /\ \E k \in {"create", "resume", "destroy"}, r \in Requests :
          /\ dir \in CASE k = "create" -> {"none"} [] k = "resume" -> {"whole"}
                        [] k = "destroy" -> {"new", "whole"}
          /\ kind' = [kind EXCEPT ![p] = k] /\ request' = [request EXCEPT ![p] = r]
          /\ Goto(p, IF k = "destroy" THEN "destroy" ELSE "start")
    /\ dir' = Made
    /\ raced' = (raced \/ (\E q \in Commands : Active(q)) \/ Unnamed)
    /\ UNCHANGED <<meta, processes, sandbox, child, got, died, failed>>

\* Mutant: a daemon is used again whatever it forwards.
ReusesAny(p) == NamesLive

\* The daemon the metadata names is alive, is one of this patchlab, and forwards the same.
Reusable(p) == NamesLive /\ TargetsOf(meta.ports) = request[p]

\* Without forwards, or with the proxy turned off, nothing is started and nothing stopped.
NoForwards(p) ==
    /\ pc[p] = "start" /\ request[p] = {}
    /\ got' = [got EXCEPT ![p] = {}]
    /\ Goto(p, "provision")
    /\ UNCHANGED <<files, processes, sandbox, kind, request, child, history>>

Reuse(p) ==
    /\ pc[p] = "start" /\ request[p] # {} /\ Reusable(p)
    /\ got' = [got EXCEPT ![p] = meta.ports]
    /\ Goto(p, "provision")
    /\ UNCHANGED <<files, processes, sandbox, kind, request, child, history>>

Replace(p) ==
    /\ pc[p] = "start" /\ request[p] # {} /\ ~Reusable(p)
    /\ Goto(p, "kill")
    /\ UNCHANGED <<files, processes, sandbox, locals, history>>

StopOld(p) == Kill(p, "kill", "unlink", "spawn") \/ Unlink(p, "unlink", "spawn")

Spawn(p) ==
    /\ pc[p] = "spawn" /\ dir' = Made
    /\ \E d \in Pids :
          /\ proc[d] = "free"
          /\ proc' = [proc EXCEPT ![d] = "starting"]
          /\ want' = [want EXCEPT ![d] = request[p]]
          /\ child' = [child EXCEPT ![p] = d]
    /\ Goto(p, "wait")
    /\ UNCHANGED <<meta, bound, sandbox, kind, request, got, history>>

\* wait_for_proxy_metadata polls for the child's own pid.
OwnMetadata(p) == meta.pid = child[p]

WaitSees(p) ==
    /\ pc[p] = "wait" /\ OwnMetadata(p)
    /\ Goto(p, "reread")
    /\ UNCHANGED <<files, processes, sandbox, locals, history>>

\* terminate_proxy_process: the child is killed; a pid that is no longer the daemon's is left.
Terminate(p) == End({d \in Pids : d = child[p] /\ Live(d)})

\* Five seconds without it, or the file gone when it is read again.
StartFails(p) ==
    /\ pc[p] = "wait" \/ (pc[p] = "reread" /\ meta.pid = None)
    /\ Terminate(p)
    /\ Goto(p, "rollback")
    /\ UNCHANGED <<files, sandbox, locals, history>>

\* Mutant: the file is not looked at again.
RereadsAnything(p) ==
    /\ pc[p] = "reread"
    /\ got' = [got EXCEPT ![p] = meta.ports]
    /\ Goto(p, "provision")
    /\ UNCHANGED <<files, processes, sandbox, kind, request, child, history>>

\* The ports come from the metadata as it is now.
Reread(p) ==
    /\ pc[p] = "reread" /\ meta.pid # None
    /\ got' = [got EXCEPT ![p] = meta.ports]
    /\ Goto(p, "provision")
    /\ UNCHANGED <<files, processes, sandbox, kind, request, child, history>>

(***************************************************************************)
(* Create, resume and destroy around it                                     *)
(***************************************************************************)
\* The new container's configuration has the ports; it takes the previous one's place.
Succeed(p) ==
    /\ pc[p] = "provision"
    /\ container' = TRUE /\ needs' = request[p] /\ baked' = got[p] /\ failed' = FALSE
    /\ dir' = "whole"
    /\ Goto(p, "ended")
    /\ UNCHANGED <<meta, processes, locals, raced, died>>

\* Provisioning fails, before or after the proxy; the container to replace stays.
Fail(p) ==
    /\ pc[p] \in {"start", "provision"}
    /\ Goto(p, "rollback")
    /\ UNCHANGED <<files, processes, sandbox, locals, history>>

\* Every catch stops the proxy; a failed create removes its archive.
RollBack(p) == Kill(p, "rollback", "rollback_unlink", "destroyed")
               \/ Unlink(p, "rollback_unlink", "destroyed")

Destroy(p) == Kill(p, "destroy", "destroy_unlink", "destroyed")
              \/ Unlink(p, "destroy_unlink", "destroyed")

\* The container goes, then the archive; a branch the user keeps keeps the archive.
RemoveAll(p) ==
    /\ pc[p] = "destroyed" /\ Goto(p, "ended")
    /\ IF kind[p] = "resume"
       THEN failed' = TRUE /\ UNCHANGED <<files, sandbox>>
       ELSE /\ container' = FALSE /\ needs' = {} /\ baked' = {} /\ UNCHANGED failed
            /\ \/ dir' = "none" /\ meta' = NoRecord
               \/ kind[p] = "destroy" /\ UNCHANGED files
    /\ UNCHANGED <<processes, locals, raced, died>>

CliKilled(p) ==
    /\ Active(p) /\ Goto(p, "crashed")
    /\ UNCHANGED <<files, processes, sandbox, locals, history>>

-----------------------------------------------------------------------------
Command(p) ==
    \/ Begin(p) \/ NoForwards(p) \/ Reuse(p) \/ Replace(p) \/ StopOld(p) \/ Spawn(p)
    \/ WaitSees(p) \/ StartFails(p) \/ Reread(p)
    \/ Succeed(p) \/ Fail(p) \/ RollBack(p) \/ Destroy(p) \/ RemoveAll(p) \/ CliKilled(p)

Process(d) ==
    Listen(d) \/ OpenMetadata(d) \/ WriteMetadata(d) \/ DaemonDies(d) \/ Stranger(d)

Next == (\E p \in Commands : Command(p)) \/ (\E d \in Pids : Process(d))

Spec == Init /\ [][Next]_vars

-----------------------------------------------------------------------------
TypeOK ==
    /\ dir \in {"none", "new", "whole"} /\ meta \in Record \cup {NoRecord, Torn}
    /\ proc \in [Pids -> Daemon \cup {"free", "stranger"}]
    /\ want \in [Pids -> SUBSET Targets] /\ bound \in [Pids -> Ports]
    /\ container \in BOOLEAN /\ needs \in SUBSET Targets /\ baked \in Ports
    /\ pc \in [Commands -> Pcs] /\ kind \in [Commands -> {"create", "resume", "destroy"}]
    /\ request \in [Commands -> SUBSET Targets]
    /\ child \in [Commands -> Pids \cup {None}] /\ got \in [Commands -> Ports]
    /\ \A p \in Commands : pc[p] \in {"wait", "reread"} => child[p] \in Pids
    /\ raced \in BOOLEAN /\ died \in BOOLEAN /\ failed \in BOOLEAN

\* The container's ports are those of one running daemon, for every forward it needs.
Served ==
    /\ TargetsOf(baked) = needs
    /\ needs = {} \/ \E d \in Pids : proc[d] = "up" /\ baked \subseteq bound[d]

Quiet == ~raced /\ ~died /\ \A p \in Commands : ~Active(p) /\ pc[p] # "crashed"

\* As long as the commands of a patchlab follow each other and none begins while a daemon is
\* still unnamed, every daemon that has written its metadata is the one the file names: the
\* next start, rollback or destroy finds it (manager.ts:159-178, 243).
NoOrphan == ~raced => \A d \in Pids : proc[d] = "up" => Named(d)

\* The ports a container was configured with are those of a running daemon: no start returns
\* ports nobody listens on, and no later start leaves the container behind with a dead one
\* (manager.ts:222-241, 285-295); a resume that failed is left out.
ContainerIsServed ==
    container /\ Quiet /\ ~failed => Served

\* Whatever runs under a pid the metadata still names, patchlab kills nothing but daemons.
StrangersLive ==
    [][\A d \in Pids : proc[d] = "stranger" /\ proc'[d] # "stranger" =>
          UNCHANGED <<files, sandbox, pc>>]_vars
=============================================================================
