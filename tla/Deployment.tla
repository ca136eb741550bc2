----------------------------- MODULE Deployment -----------------------------
(***************************************************************************)
(* Starting and stopping the whole system: run_servers.sh, stop_servers.sh *)
(* and the commands setup-lb and stop-all of registry_ctl that they call.  *)
(* The scripts run one after the other, on top of servers that register    *)
(* in their own time, end when they like and keep no track of the registry *)
(* (ServerProcess), and of a registry that forgets its records when it     *)
(* ends (RegistryHttp).                                                    *)
(*                                                                         *)
(* A process is one incarnation of a server; Proc bounds how many there    *)
(* are.  A Port is free to everybody who binds port 0 unless a running     *)
(* process has bound it: that setup-lb picked it does not count.           *)
(***************************************************************************)
EXTENDS Naturals, Sequences

CONSTANTS
  Services,    \* the services, in the order of the scripts
  Names,       \* the instance names of each mode, "lb" and "solo", in order
  ServiceOf,   \* the service of each instance name
  Proc, NameOf,
  Port,
  None         \* no process, no port, no nginx

RangeOf(seq) == {seq[i] : i \in DOMAIN seq}
Service == RangeOf(Services)
Name == DOMAIN ServiceOf

ASSUME NameAssumption ==
  /\ \A mode \in {"lb", "solo"} : RangeOf(Names[mode]) \subseteq Name
  /\ \A n \in Name : ServiceOf[n] \in Service
  /\ Name \cap Service = {}
  /\ NameOf \in [Proc -> Name]
ASSUME NoneAssumption == None \notin Proc \cup Port

VARIABLES
  up,         \* the registry runs
  instance,   \* its records of instances: the process, by name
  entry,      \* its records of entries: the port, by service
  proc,       \* the state of each process
  port,       \* the port each running process has bound
  pidFile,    \* logs/.pids, by instance name
  nginxs,     \* the configurations of the running nginx processes
  nginxPid,   \* the one nginx.pid names
  script,     \* where the running script is
  mode,       \* USE_LB
  step,       \* how far its loop is
  picked,     \* setup-lb: the ports chosen
  draft,      \* setup-lb: what the configuration will say: listening ports and,
              \* for the addresses behind them, the processes that had them
  listed,     \* stop-all: the records of instances and entries it works through
  left,       \* stop-all: those it has not deregistered yet
  outcome,    \* how the last script ended
  excused     \* history: the processes that may be without a record of their own

registryVars == <<up, instance, entry>>
procVars == <<proc, port>>
nginxVars == <<nginxs, nginxPid>>
setupVars == <<picked, draft>>
stopVars == <<listed, left>>
scriptVars == <<script, mode, step, setupVars, stopVars, outcome>>
vars == <<registryVars, procVars, pidFile, nginxVars, scriptVars, excused>>

NoPorts == [s \in Service |-> None]
NoConf == [listen |-> NoPorts, upstream |-> [s \in Service |-> {}]]
NoRecords == [k \in Name \cup Service |-> None]

Alive(p) == proc[p] \in {"booting", "serving"}
Living == {p \in Proc : Alive(p)}
Bound == {port[p] : p \in Proc} \cup
         {c.listen[s] : c \in nginxs, s \in Service}
Free == Port \ Bound

InstancesOf(s) == {n \in Name : ServiceOf[n] = s /\ instance[n] # None}

-----------------------------------------------------------------------------
Init ==
  /\ up = FALSE
  /\ instance = [n \in Name |-> None]
  /\ entry = NoPorts
  /\ proc = [p \in Proc |-> "off"]
  /\ port = [p \in Proc |-> None]
  /\ pidFile = [n \in Name |-> None]
  /\ nginxs = {}
  /\ nginxPid = None
  /\ script = "idle"
  /\ mode = "lb"
  /\ step = 1
  /\ picked = NoPorts
  /\ draft = NoConf
  /\ listed = NoRecords
  /\ left = {}
  /\ outcome = "none"
  /\ excused = {}

-----------------------------------------------------------------------------
(* The servers *)

\* Bound to a free port and registered, in place of whoever has the name.
\* (A server that cannot register ends: Die.)
Serve(p) ==
  /\ proc[p] = "booting"
  /\ up
  /\ \E a \in Free : port' = [port EXCEPT ![p] = a]
  /\ proc' = [proc EXCEPT ![p] = "serving"]
  /\ instance' = [instance EXCEPT ![NameOf[p]] = p]
  /\ excused' = IF p \in excused THEN excused \cup ({instance[NameOf[p]]} \cap Living) ELSE excused
  /\ UNCHANGED <<up, entry, pidFile, nginxVars, scriptVars>>

Ended(ps) ==
  /\ proc' = [p \in Proc |-> IF p \in ps THEN "ended" ELSE proc[p]]
  /\ port' = [p \in Proc |-> IF p \in ps THEN None ELSE port[p]]

\* A crash: the record stays.
Die(p) ==
  /\ Alive(p)
  /\ Ended({p})
  /\ excused' = excused \ {p}
  /\ UNCHANGED <<registryVars, pidFile, nginxVars, scriptVars>>

\* SIGINT: the server deregisters its name, whoever has it by now.
Close(p) ==
  /\ proc[p] = "serving"
  /\ Ended({p})
  /\ IF up
     THEN /\ instance' = [instance EXCEPT ![NameOf[p]] = None]
          /\ excused' = (excused \cup ({instance[NameOf[p]]} \cap Living)) \ {p}
     ELSE instance' = instance /\ excused' = excused \ {p}
  /\ UNCHANGED <<up, entry, pidFile, nginxVars, scriptVars>>

\* The registry ends, and its records with it.
RegistryEnds ==
  /\ up' = FALSE
  /\ instance' = [n \in Name |-> None]
  /\ entry' = NoPorts
  /\ excused' = excused \cup {p \in Proc : proc[p] = "serving"}

RegistryCrash ==
  /\ up
  /\ RegistryEnds
  /\ UNCHANGED <<procVars, pidFile, nginxVars, scriptVars>>

-----------------------------------------------------------------------------
(* run_servers.sh *)

Goto(place, i) == script' = place /\ step' = i
End(result) ==
  /\ Goto("idle", 1)
  /\ outcome' = result
  /\ mode' = "lb"
  /\ picked' = NoPorts
  /\ draft' = NoConf
  /\ listed' = NoRecords
  /\ left' = {}

\* A registry that runs is kept.
StartRegistry ==
  /\ script = "idle"
  /\ mode' \in {"lb", "solo"}
  /\ up' = TRUE
  /\ Goto("ping", 1)
  /\ outcome' = "none"
  /\ UNCHANGED <<instance, entry, procVars, pidFile, nginxVars, setupVars, stopVars, excused>>

WaitRegistry ==
  /\ script = "ping"
  /\ up
  /\ Goto("launch", 1)
  /\ UNCHANGED <<registryVars, procVars, pidFile, nginxVars, mode, setupVars, stopVars, outcome, excused>>

\* Mutant: start_bg without kill -0.
StartBgAnyway ==
  /\ script = "launch"
  /\ step <= Len(Names[mode])
  /\ \E p \in Proc :
       /\ proc[p] = "off"
       /\ NameOf[p] = Names[mode][step]
       /\ proc' = [proc EXCEPT ![p] = "booting"]
       /\ pidFile' = [pidFile EXCEPT ![NameOf[p]] = p]
  /\ Goto("launch", step + 1)
  /\ UNCHANGED <<registryVars, port, nginxVars, mode, setupVars, stopVars, outcome, excused>>

\* start_bg, once per name of the mode.
StartBg ==
  /\ script = "launch"
  /\ step <= Len(Names[mode])
  /\ LET n == Names[mode][step] IN
     \/ /\ pidFile[n] # None
        /\ Alive(pidFile[n])
        /\ UNCHANGED <<proc, pidFile>>
     \/ /\ pidFile[n] # None => ~Alive(pidFile[n])
        /\ \E p \in Proc :
             /\ proc[p] = "off"
             /\ NameOf[p] = n
             /\ proc' = [proc EXCEPT ![p] = "booting"]
             /\ pidFile' = [pidFile EXCEPT ![n] = p]
  /\ Goto("launch", step + 1)
  /\ UNCHANGED <<registryVars, port, nginxVars, mode, setupVars, stopVars, outcome, excused>>

\* Two seconds for the servers to register, which may be too few.
Settle ==
  /\ script = "launch"
  /\ step > Len(Names[mode])
  /\ mode = "lb"
  /\ Goto("pick", 1)
  /\ UNCHANGED <<registryVars, procVars, pidFile, nginxVars, mode, setupVars, stopVars, outcome, excused>>

StartSolo ==
  /\ script = "launch"
  /\ step > Len(Names[mode])
  /\ mode = "solo"
  /\ End("solo")
  /\ UNCHANGED <<registryVars, procVars, pidFile, nginxVars, excused>>

\* PickDistinctLoopbackPorts binds and closes each port.
PickPorts ==
  /\ script = "pick"
  /\ \E f \in [Service -> Free] :
       /\ \A s, t \in Service : f[s] = f[t] => s = t
       /\ picked' = f
  /\ Goto("register", 1)
  /\ UNCHANGED <<registryVars, procVars, pidFile, nginxVars, mode, draft, stopVars, outcome, excused>>

\* RegisterLb, once per service.
RegisterLb ==
  /\ script = "register"
  /\ step <= Len(Services)
  /\ up
  /\ entry' = [entry EXCEPT ![Services[step]] = picked[Services[step]]]
  /\ Goto("register", step + 1)
  /\ UNCHANGED <<up, instance, procVars, pidFile, nginxVars, mode, setupVars, stopVars, outcome, excused>>

\* WriteNginxConf reads the entries back.
LoadLbPorts ==
  /\ script = "register"
  /\ step > Len(Services)
  /\ up
  /\ \A s \in Service : entry[s] # None
  /\ draft' = [draft EXCEPT !.listen = entry]
  /\ picked' = NoPorts
  /\ Goto("instances", 1)
  /\ UNCHANGED <<registryVars, procVars, pidFile, nginxVars, mode, stopVars, outcome, excused>>

\* ListInstances, once per service.
ListInstances ==
  /\ script = "instances"
  /\ step <= Len(Services)
  /\ up
  /\ LET s == Services[step] IN
       draft' = [draft EXCEPT !.upstream[s] = {instance[n] : n \in InstancesOf(s)}]
  /\ Goto("instances", step + 1)
  /\ UNCHANGED <<registryVars, procVars, pidFile, nginxVars, mode, picked, stopVars, outcome, excused>>

\* Mutant: any configuration is written.
WriteAnyConf ==
  /\ script = "instances"
  /\ step > Len(Services)
  /\ Goto("nginx", 1)
  /\ UNCHANGED <<registryVars, procVars, pidFile, nginxVars, mode, setupVars, stopVars, outcome, excused>>

\* An empty list of instances is an error.
WriteConf ==
  /\ script = "instances"
  /\ step > Len(Services)
  /\ \A s \in Service : draft.upstream[s] # {}
  /\ Goto("nginx", 1)
  /\ UNCHANGED <<registryVars, procVars, pidFile, nginxVars, mode, setupVars, stopVars, outcome, excused>>

\* An nginx that still runs keeps running, but nginx.pid is the new one's.
StartNginx ==
  /\ script = "nginx"
  /\ \A s \in Service : draft.listen[s] \in Free
  /\ nginxs' = nginxs \cup {draft}
  /\ nginxPid' = draft
  /\ End("up")
  /\ UNCHANGED <<registryVars, procVars, pidFile, excused>>

\* nginx detaches itself before it writes nginx.pid: the script looks for the
\* file too early, and gives up with an nginx that runs.
NginxTooSlow ==
  /\ script = "nginx"
  /\ nginxPid = None
  /\ \A s \in Service : draft.listen[s] \in Free
  /\ nginxs' = nginxs \cup {draft}
  /\ nginxPid' = draft
  /\ End("failed")
  /\ UNCHANGED <<registryVars, procVars, pidFile, excused>>

\* set -e: the first command that fails ends the script, as it stands.  What
\* the steps before have registered or launched stays.  Too few ports, or no
\* nginx, are failures that do not show in the state.
Fail ==
  /\ \/ script \in {"ping", "register"} /\ ~up
     \/ script = "instances" /\ step <= Len(Services) /\ ~up
     \/ script = "register" /\ step > Len(Services) /\ \E s \in Service : entry[s] = None
     \/ script = "instances" /\ step > Len(Services) /\ \E s \in Service : draft.upstream[s] = {}
     \/ script \in {"pick", "nginx"}
  /\ End("failed")
  /\ UNCHANGED <<registryVars, procVars, pidFile, nginxVars, excused>>

-----------------------------------------------------------------------------
(* stop_servers.sh *)

\* CmdStopAll lists the records and signals the process of each: the servers
\* have no handler for SIGTERM.
ListAndTerm ==
  /\ script = "idle"
  /\ up
  /\ listed' = [k \in Name \cup Service |-> IF k \in Name THEN instance[k] ELSE entry[k]]
  /\ left' = {k \in DOMAIN listed' : listed'[k] # None}
  /\ Ended({instance[n] : n \in Name} \cap Living)
  /\ excused' = excused \ {instance[n] : n \in Name}
  /\ Goto("forget", 1)
  /\ outcome' = "none"
  /\ UNCHANGED <<registryVars, pidFile, nginxVars, mode, setupVars>>

\* Without a registry there is nobody to ask: `|| true`.
ListNobody ==
  /\ script = "idle"
  /\ ~up
  /\ Goto("forget", 1)
  /\ outcome' = "none"
  /\ UNCHANGED <<registryVars, procVars, pidFile, nginxVars, mode, setupVars, stopVars, excused>>

\* Mutant: the entries, which have no pid, are passed over.
ForgetProcesses(k) ==
  /\ script = "forget"
  /\ k \in left
  /\ left' = left \ {k}
  /\ IF up /\ k \in Name
     THEN /\ instance' = [instance EXCEPT ![k] = None]
          /\ excused' = excused \cup ({instance[k]} \cap Living)
     ELSE UNCHANGED <<instance, excused>>
  /\ UNCHANGED <<up, entry, procVars, pidFile, nginxVars, script, mode, step, setupVars, listed, outcome>>

\* Half a second later each is deregistered by name, and by now the name may
\* be another process's.
Forget(k) ==
  /\ script = "forget"
  /\ k \in left
  /\ left' = left \ {k}
  /\ \/ ~up /\ UNCHANGED <<instance, entry, excused>>
     \/ /\ up /\ k \in Name
        /\ instance' = [instance EXCEPT ![k] = None]
        /\ excused' = excused \cup ({instance[k]} \cap Living)
        /\ UNCHANGED entry
     \/ /\ up /\ k \in Service
        /\ entry' = [entry EXCEPT ![k] = None]
        /\ UNCHANGED <<instance, excused>>
  /\ UNCHANGED <<up, procVars, pidFile, nginxVars, script, mode, step, setupVars, listed, outcome>>

\* Mutant: nginx.pid is left.
QuitKeepsPid ==
  /\ script = "forget"
  /\ left = {}
  /\ nginxs' \in {nginxs, nginxs \ {nginxPid}}
  /\ Goto("registry", 1)
  /\ UNCHANGED <<registryVars, procVars, pidFile, nginxPid, mode, setupVars, stopVars, outcome, excused>>

\* `nginx -s quit` without -c reads another configuration: whether that one
\* names the same nginx.pid depends on how nginx was built.
QuitNginx ==
  /\ script = "forget"
  /\ left = {}
  /\ nginxs' \in {nginxs, nginxs \ {nginxPid}}
  /\ nginxPid' = None
  /\ Goto("registry", 1)
  /\ UNCHANGED <<registryVars, procVars, pidFile, mode, setupVars, stopVars, outcome, excused>>

\* The registry goes last, and every pid file with it.
StopRegistry ==
  /\ script = "registry"
  /\ up' = FALSE
  /\ instance' = [n \in Name |-> None]
  /\ entry' = NoPorts
  /\ excused' = excused \cup Living
  /\ pidFile' = [n \in Name |-> None]
  /\ End("stopped")
  /\ UNCHANGED <<procVars, nginxVars>>

-----------------------------------------------------------------------------
RunNext ==
  \/ StartRegistry
  \/ WaitRegistry
  \/ StartBg
  \/ Settle
  \/ StartSolo
  \/ PickPorts
  \/ RegisterLb
  \/ LoadLbPorts
  \/ ListInstances
  \/ WriteConf
  \/ StartNginx
  \/ NginxTooSlow
  \/ Fail

StopNext ==
  \/ ListAndTerm
  \/ ListNobody
  \/ \E k \in Name \cup Service : Forget(k)
  \/ QuitNginx
  \/ StopRegistry

ServerNext ==
  \E p \in Proc :
    \/ Serve(p)
    \/ Die(p)
    \/ Close(p)

Next ==
  \/ RunNext
  \/ StopNext
  \/ ServerNext
  \/ RegistryCrash

Spec == Init /\ [][Next]_vars

-----------------------------------------------------------------------------
TypeOK ==
  /\ up \in BOOLEAN
  /\ instance \in [Name -> Proc \cup {None}]
  /\ entry \in [Service -> Port \cup {None}]
  /\ proc \in [Proc -> {"off", "booting", "serving", "ended"}]
  /\ port \in [Proc -> Port \cup {None}]
  /\ \A p, q \in Proc : proc[p] = "serving" /\ proc[q] = "serving" /\ port[p] = port[q] => p = q
  /\ pidFile \in [Name -> Proc \cup {None}]
  /\ nginxPid \in nginxs \cup {None}
  /\ script \in {"idle", "ping", "launch", "pick", "register", "instances", "nginx", "forget", "registry"}
  /\ mode \in {"lb", "solo"}
  /\ step \in Nat \ {0}
  /\ picked \in [Service -> Port \cup {None}]
  /\ left \subseteq {k \in Name \cup Service : listed[k] # None}
  /\ outcome \in {"none", "up", "solo", "failed", "stopped"}
  /\ excused \subseteq Living

(***************************************************************************)
(* When run_servers.sh says that the load balancer is up, the entry of     *)
(* every service is a port that nginx listens on, and behind it is an      *)
(* address some instance of that service has registered.  It stays so      *)
(* until the next script, whatever servers and registry do: entries can    *)
(* only be forgotten.                                                      *)
(***************************************************************************)
UpMeansReachable ==
  script = "idle" /\ outcome = "up" =>
    \A s \in Service : entry[s] # None =>
      \E c \in nginxs :
        /\ c.listen[s] = entry[s]
        /\ \E p \in c.upstream[s] : ServiceOf[NameOf[p]] = s

(***************************************************************************)
(* A serving process is in the registry, unless the registry ended, the    *)
(* process was deregistered by name, or it or its successor outlived a     *)
(* stop_servers.sh.  Running the scripts again and again, whatever dies in *)
(* between, never takes the name of a live server (start_bg asks           *)
(* kill -0).                                                               *)
(***************************************************************************)
ServersStayListed ==
  \A p \in Proc : proc[p] = "serving" => instance[NameOf[p]] = p \/ p \in excused

(***************************************************************************)
(* What stop-all has listed is gone once it is through, although servers   *)
(* register, die and close while it works: no record of a process it       *)
(* signalled and no entry is left.                                         *)
(***************************************************************************)
StoppedAreForgotten ==
  script = "registry" =>
    /\ \A n \in Name : listed[n] # None => proc[listed[n]] = "ended" /\ instance[n] # listed[n]
    /\ \A s \in Service : entry[s] = None \/ listed[s] = None

(***************************************************************************)
(* stop_servers.sh:52 prints that all services are stopped.                *)
(***************************************************************************)
AllStopped ==
  script = "idle" /\ outcome = "stopped" => \A p \in Proc : proc[p] # "serving"

(***************************************************************************)
(* run_servers.sh:139 prints that clients resolve instances and that there *)
(* is no nginx: the registry prefers an entry if it has one.               *)
(***************************************************************************)
SoloResolvesInstances ==
  script = "idle" /\ outcome = "solo" => \A s \in Service : entry[s] = None
=============================================================================
