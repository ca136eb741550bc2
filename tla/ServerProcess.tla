--------------------------- MODULE ServerProcess ---------------------------
(***************************************************************************)
(* The life of the server processes: ranking_main.cpp with RankingServer,  *)
(* and video_main.cpp and browse_main.cpp, which run the same code.  Each  *)
(* process has a main thread (Run) and a control thread (signals, Reload,  *)
(* Shutdown) that share mu_; ServerRegistration calls the registry at the  *)
(* address of the configuration snapshot current at the call, and mu_ is   *)
(* held until the reply is in.  A process of this module is one            *)
(* incarnation: a restarted server is another one, possibly with the same  *)
(* instance name (RE_INSTANCE_NAME).                                       *)
(*                                                                         *)
(* Faults names what the environment may do besides starting processes and *)
(* sending SIGINT and SIGHUP: "term" and "kill" end a process (no handler  *)
(* runs in either case), "edit" rewrites the configuration file, "lose"    *)
(* breaks a connection to a registry, "restart" crashes a registry, which  *)
(* keeps its records in memory only, and "bind" finds no port to bind.     *)
(***************************************************************************)
EXTENDS Naturals, FiniteSets

CONSTANTS
  Proc,        \* process incarnations
  Name,        \* instance names
  NameOf,      \* the instance name each process runs under
  Registry,    \* addresses where a registry may run
  Faults,
  Nobody,      \* no record under a name
  Missing,     \* a configuration without registry_address
  Unreadable   \* a configuration file that cannot be opened

ASSUME NameAssumption == NameOf \in [Proc -> Name]
ASSUME NullAssumption ==
  /\ Nobody \notin Proc
  /\ {Missing, Unreadable} \cap Registry = {}
  /\ Missing # Unreadable

Conf == Registry \cup {Missing, Unreadable}
Snapshot == Registry \cup {Missing}

VARIABLES
  conf,      \* registry_address in the configuration file
  up,        \* the registries that run
  store,     \* the process whose record a registry holds, by name
  main,      \* where the main thread is
  ctl,       \* where the control thread is
  mu,        \* the thread of a process that holds mu_
  gShutdown, gReload, shutdownRequested, registered,
  server,    \* the state of the gRPC server
  snapshot,  \* registry_address in the snapshot
  call,      \* the HTTP call to a registry under way
  home,      \* history: where the process last registered
  cause,     \* history: what went wrong for the record of a process
  alone      \* history: no other process used its name at the same time

processVars == <<main, ctl, mu, gShutdown, gReload, shutdownRequested, registered,
                 server, snapshot>>
vars == <<conf, up, store, processVars, call, home, cause, alone>>

NoCall == [op |-> "none"]
Call == [op : {"register", "deregister"}, at : Registry,
         phase : {"sent", "applied", "failed"}]
Sent(op, a) == [op |-> op, at |-> a, phase |-> "sent"]
Pending(p, op, phase) == call[p] # NoCall /\ call[p].op = op /\ call[p].phase = phase

Alive(p) == main[p] \notin {"down", "exited", "killed"}

\* The other processes of the same name that run, or left a request on its way.
Sharing(p) == {q \in Proc \ {p} : NameOf[q] = NameOf[p] /\ (Alive(q) \/ call[q] # NoCall)}

-----------------------------------------------------------------------------
Init ==
  /\ conf \in Registry
  /\ up = Registry
  /\ store = [a \in Registry |-> [n \in Name |-> Nobody]]
  /\ main = [p \in Proc |-> "down"]
  /\ ctl = [p \in Proc |-> "down"]
  /\ mu = [p \in Proc |-> "free"]
  /\ gShutdown = [p \in Proc |-> FALSE]
  /\ gReload = [p \in Proc |-> FALSE]
  /\ shutdownRequested = [p \in Proc |-> FALSE]
  /\ registered = [p \in Proc |-> FALSE]
  /\ server = [p \in Proc |-> "none"]
  /\ snapshot = [p \in Proc |-> Missing]
  /\ call = [p \in Proc |-> NoCall]
  /\ home = [p \in Proc |-> Missing]
  /\ cause = [p \in Proc |-> {}]
  /\ alone = [p \in Proc |-> TRUE]

-----------------------------------------------------------------------------
(* main() and RankingServer::Run *)

\* main up to the start of the control thread: the handlers are installed.
Boot(p) ==
  /\ main[p] = "down"
  /\ conf # Unreadable
  /\ main' = [main EXCEPT ![p] = "boot"]
  /\ ctl' = [ctl EXCEPT ![p] = "test"]
  /\ snapshot' = [snapshot EXCEPT ![p] = conf]
  /\ alone' = [q \in Proc |-> /\ alone[q]
                              /\ IF q = p THEN Sharing(p) = {} ELSE q \notin Sharing(p)]
  /\ UNCHANGED <<conf, up, store, mu, gShutdown, gReload, shutdownRequested, registered,
                 server, call, home, cause>>

\* No log, no file to read, or, for ranking, no recommend_count in it: main returns
\* before there is a server.
BootFails(p) ==
  /\ main[p] = "down"
  /\ main' = [main EXCEPT ![p] = "exited"]
  /\ UNCHANGED <<conf, up, store, ctl, mu, gShutdown, gReload, shutdownRequested, registered,
                 server, snapshot, call, home, cause, alone>>

\* Run forgets whatever was requested before it.
RunBegins(p) ==
  /\ main[p] = "boot"
  /\ mu[p] = "free"
  /\ shutdownRequested' = [shutdownRequested EXCEPT ![p] = FALSE]
  /\ main' = [main EXCEPT ![p] = "listen"]
  /\ UNCHANGED <<conf, up, store, ctl, mu, gShutdown, gReload, registered, server,
                 snapshot, call, home, cause, alone>>

\* StartListening gives up: Run returns FALSE and main sets g_shutdown.
StartFails(p) ==
  /\ main[p] = "listen"
  /\ mu[p] = "free"
  /\ shutdownRequested[p] \/ snapshot[p] = Missing \/ "bind" \in Faults
  /\ main' = [main EXCEPT ![p] = "join"]
  /\ gShutdown' = [gShutdown EXCEPT ![p] = TRUE]
  /\ UNCHANGED <<conf, up, store, ctl, mu, gReload, shutdownRequested, registered,
                 server, snapshot, call, home, cause, alone>>

\* The port is bound, the server serves and the register request is sent.
BindAndRegister(p) ==
  /\ main[p] = "listen"
  /\ mu[p] = "free"
  /\ ~shutdownRequested[p]
  /\ snapshot[p] \in Registry
  /\ server' = [server EXCEPT ![p] = "serving"]
  /\ call' = [call EXCEPT ![p] = Sent("register", snapshot[p])]
  /\ mu' = [mu EXCEPT ![p] = "main"]
  /\ main' = [main EXCEPT ![p] = "register"]
  /\ UNCHANGED <<conf, up, store, ctl, gShutdown, gReload, shutdownRequested, registered,
                 snapshot, home, cause, alone>>

\* The registry said that it listed the instance.
RegisterOk(p) ==
  /\ main[p] = "register"
  /\ Pending(p, "register", "applied")
  /\ registered' = [registered EXCEPT ![p] = TRUE]
  /\ home' = [home EXCEPT ![p] = call[p].at]
  /\ call' = [call EXCEPT ![p] = NoCall]
  /\ mu' = [mu EXCEPT ![p] = "free"]
  /\ main' = [main EXCEPT ![p] = "listening"]
  /\ UNCHANGED <<conf, up, store, ctl, gShutdown, gReload, shutdownRequested, server,
                 snapshot, cause, alone>>

\* Whatever the registry did with the request, the server is given up.
RegisterFails(p) ==
  /\ main[p] = "register"
  /\ Pending(p, "register", "failed")
  /\ server' = [server EXCEPT ![p] = "none"]
  /\ call' = [call EXCEPT ![p] = NoCall]
  /\ mu' = [mu EXCEPT ![p] = "free"]
  /\ main' = [main EXCEPT ![p] = "join"]
  /\ gShutdown' = [gShutdown EXCEPT ![p] = TRUE]
  /\ UNCHANGED <<conf, up, store, ctl, gReload, shutdownRequested, registered, snapshot,
                 home, cause, alone>>

\* server_.get() under mu_, then Wait.
FetchServer(p) ==
  /\ main[p] = "listening"
  /\ mu[p] = "free"
  /\ main' = [main EXCEPT ![p] = "wait"]
  /\ UNCHANGED <<conf, up, store, ctl, mu, gShutdown, gReload, shutdownRequested,
                 registered, server, snapshot, call, home, cause, alone>>

\* Wait returns once the server is shut down; the stop block of Run follows.  Its
\* Deregister has something to do only if no Shutdown came first.
StopListening(p) ==
  /\ main[p] = "wait"
  /\ server[p] = "stopped"
  /\ mu[p] = "free"
  /\ call' = IF registered[p] /\ snapshot[p] \in Registry
             THEN [call EXCEPT ![p] = Sent("deregister", snapshot[p])] ELSE call
  /\ registered' = [registered EXCEPT ![p] = FALSE]
  /\ server' = [server EXCEPT ![p] = "none"]
  /\ main' = [main EXCEPT ![p] = "join"]
  /\ gShutdown' = [gShutdown EXCEPT ![p] = TRUE]
  /\ UNCHANGED <<conf, up, store, ctl, mu, gReload, shutdownRequested, snapshot, home, cause,
                 alone>>

\* control_thread.join().  The destructor's Shutdown finds nothing left to do.
Exit(p) ==
  /\ main[p] = "join"
  /\ ctl[p] = "done"
  /\ main' = [main EXCEPT ![p] = "exited"]
  /\ UNCHANGED <<conf, up, store, ctl, mu, gShutdown, gReload, shutdownRequested,
                 registered, server, snapshot, call, home, cause, alone>>

-----------------------------------------------------------------------------
(* The control thread *)

\* The loop condition is tested once a round: a reload may follow a SIGINT.
TestShutdown(p) ==
  /\ ctl[p] = "test"
  /\ ctl' = [ctl EXCEPT ![p] = IF gShutdown[p] THEN "shutdown" ELSE "poll"]
  /\ UNCHANGED <<conf, up, store, main, mu, gShutdown, gReload, shutdownRequested,
                 registered, server, snapshot, call, home, cause, alone>>

\* Mutant of PollReload: a file that cannot be read replaces the snapshot, too.
PollAnyFile(p) ==
  /\ ctl[p] = "poll"
  /\ gReload' = [gReload EXCEPT ![p] = FALSE]
  /\ snapshot' = IF gReload[p] THEN [snapshot EXCEPT ![p] = conf] ELSE snapshot
  /\ ctl' = [ctl EXCEPT ![p] = "test"]
  /\ UNCHANGED <<conf, up, store, main, mu, gShutdown, shutdownRequested, registered,
                 server, call, home, cause, alone>>

\* The snapshot is swapped whenever the file can be read, and without mu_.
PollReload(p) ==
  /\ ctl[p] = "poll"
  /\ gReload' = [gReload EXCEPT ![p] = FALSE]
  /\ snapshot' = IF gReload[p] /\ conf # Unreadable
                 THEN [snapshot EXCEPT ![p] = conf] ELSE snapshot
  /\ ctl' = [ctl EXCEPT ![p] = "test"]
  /\ UNCHANGED <<conf, up, store, main, mu, gShutdown, shutdownRequested, registered,
                 server, call, home, cause, alone>>

\* Mutant of BeginDrain: the gRPC server is not shut down.
SkipDrain(p) ==
  /\ ctl' = [ctl EXCEPT ![p] = "done"]
  /\ mu' = [mu EXCEPT ![p] = "free"]
  /\ UNCHANGED server

\* What Shutdown does once nothing is left to deregister.
BeginDrain(p) ==
  LET draining == server[p] = "serving" IN
  /\ server' = IF draining THEN [server EXCEPT ![p] = "draining"] ELSE server
  /\ ctl' = [ctl EXCEPT ![p] = IF draining THEN "drain" ELSE "done"]
  /\ mu' = [mu EXCEPT ![p] = IF draining THEN "ctl" ELSE "free"]

\* Mutant of Shutdown: it drains without deregistering.
DrainOnly(p) ==
  /\ ctl[p] = "shutdown"
  /\ mu[p] = "free"
  /\ shutdownRequested' = [shutdownRequested EXCEPT ![p] = TRUE]
  /\ BeginDrain(p)
  /\ UNCHANGED <<conf, up, store, main, gShutdown, gReload, registered, snapshot, call, home,
                 cause, alone>>

\* RankingServer::Shutdown: the request goes to the registry of the snapshot.
Shutdown(p) ==
  /\ ctl[p] = "shutdown"
  /\ mu[p] = "free"
  /\ shutdownRequested' = [shutdownRequested EXCEPT ![p] = TRUE]
  /\ cause' = IF registered[p] /\ snapshot[p] # home[p]
              THEN [cause EXCEPT ![p] = @ \cup {"moved"}] ELSE cause
  /\ IF registered[p] /\ snapshot[p] \in Registry
     THEN /\ call' = [call EXCEPT ![p] = Sent("deregister", snapshot[p])]
          /\ ctl' = [ctl EXCEPT ![p] = "deregister"]
          /\ mu' = [mu EXCEPT ![p] = "ctl"]
          /\ UNCHANGED <<registered, server>>
     ELSE /\ registered' = [registered EXCEPT ![p] = FALSE]
          /\ BeginDrain(p)
          /\ UNCHANGED call
  /\ UNCHANGED <<conf, up, store, main, gShutdown, gReload, snapshot, home, alone>>

\* Answered or not, the process counts as deregistered.
DeregisterReturns(p) ==
  /\ ctl[p] = "deregister"
  /\ Pending(p, "deregister", "applied") \/ Pending(p, "deregister", "failed")
  /\ registered' = [registered EXCEPT ![p] = FALSE]
  /\ call' = [call EXCEPT ![p] = NoCall]
  /\ BeginDrain(p)
  /\ UNCHANGED <<conf, up, store, main, gShutdown, gReload, shutdownRequested, snapshot,
                 home, cause, alone>>

\* server_->Shutdown() returns when the calls in flight have finished.
Drained(p) ==
  /\ ctl[p] = "drain"
  /\ server' = [server EXCEPT ![p] = "stopped"]
  /\ mu' = [mu EXCEPT ![p] = "free"]
  /\ ctl' = [ctl EXCEPT ![p] = "done"]
  /\ UNCHANGED <<conf, up, store, main, gShutdown, gReload, shutdownRequested, registered,
                 snapshot, call, home, cause, alone>>

-----------------------------------------------------------------------------
(* The registries, as far as these calls reach them *)

\* Mutant of RegistryServes: a record that is there already is kept (emplace).
KeepsRecord(p) ==
  /\ Pending(p, "register", "sent") \/ Pending(p, "deregister", "sent")
  /\ call[p].at \in up
  /\ store' = [store EXCEPT ![call[p].at][NameOf[p]] =
                 IF call[p].op = "deregister" THEN Nobody ELSE IF @ = Nobody THEN p ELSE @]
  /\ call' = [call EXCEPT ![p] = IF Alive(p) THEN [@ EXCEPT !.phase = "applied"] ELSE NoCall]
  /\ UNCHANGED <<conf, up, processVars, home, cause, alone>>

\* A request is served, even one whose sender is gone by then.
RegistryServes(p) ==
  /\ Pending(p, "register", "sent") \/ Pending(p, "deregister", "sent")
  /\ call[p].at \in up
  /\ store' = [store EXCEPT ![call[p].at][NameOf[p]] =
                 IF call[p].op = "register" THEN p ELSE Nobody]
  /\ call' = [call EXCEPT ![p] = IF Alive(p) THEN [@ EXCEPT !.phase = "applied"] ELSE NoCall]
  /\ UNCHANGED <<conf, up, processVars, home, cause, alone>>

\* No registry is there, or the request does not get through to it.
RequestLost(p) ==
  /\ Pending(p, "register", "sent") \/ Pending(p, "deregister", "sent")
  /\ call[p].at \notin up \/ "lose" \in Faults
  /\ call' = [call EXCEPT ![p] = IF Alive(p) THEN [@ EXCEPT !.phase = "failed"] ELSE NoCall]
  /\ cause' = IF call[p].op = "deregister" /\ call[p].at \in up
              THEN [cause EXCEPT ![p] = @ \cup {"deregister lost"}] ELSE cause
  /\ UNCHANGED <<conf, up, store, processVars, home, alone>>

\* The registry did what was asked, the process does not learn it.
ReplyLost(p) ==
  /\ Pending(p, "register", "applied") \/ Pending(p, "deregister", "applied")
  /\ call[p].at \notin up \/ "lose" \in Faults
  /\ call' = [call EXCEPT ![p].phase = "failed"]
  /\ cause' = IF call[p].op = "register" /\ call[p].at \in up
              THEN [cause EXCEPT ![p] = @ \cup {"register reply lost"}] ELSE cause
  /\ UNCHANGED <<conf, up, store, processVars, home, alone>>

\* A crash of the registry breaks its connections and loses its records.
RegistryCrash(a) ==
  /\ "restart" \in Faults
  /\ a \in up
  /\ up' = up \ {a}
  /\ store' = [store EXCEPT ![a] = [n \in Name |-> Nobody]]
  /\ UNCHANGED <<conf, processVars, call, home, cause, alone>>

\* It comes back once the broken connections are noticed.
RegistryRestart(a) ==
  /\ a \notin up
  /\ \A p \in Proc : call[p] # NoCall /\ call[p].at = a => call[p].phase = "failed"
  /\ up' = up \cup {a}
  /\ UNCHANGED <<conf, store, processVars, call, home, cause, alone>>

-----------------------------------------------------------------------------
(* Signals and faults *)

SigInt(p) ==
  /\ Alive(p)
  /\ ~gShutdown[p]
  /\ gShutdown' = [gShutdown EXCEPT ![p] = TRUE]
  /\ UNCHANGED <<conf, up, store, main, ctl, mu, gReload, shutdownRequested, registered,
                 server, snapshot, call, home, cause, alone>>

SigHup(p) ==
  /\ Alive(p)
  /\ ~gReload[p]
  /\ gReload' = [gReload EXCEPT ![p] = TRUE]
  /\ UNCHANGED <<conf, up, store, main, ctl, mu, gShutdown, shutdownRequested, registered,
                 server, snapshot, call, home, cause, alone>>

\* SIGKILL, and SIGTERM, for which no handler is installed.  What the process
\* sent may still reach the registry.
Die(p, how) ==
  /\ how \in Faults \cap {"kill", "term"}
  /\ Alive(p)
  /\ main' = [main EXCEPT ![p] = "killed"]
  /\ ctl' = [ctl EXCEPT ![p] = "killed"]
  /\ mu' = [mu EXCEPT ![p] = "free"]
  /\ server' = [server EXCEPT ![p] = "none"]
  /\ registered' = [registered EXCEPT ![p] = FALSE]
  /\ call' = [call EXCEPT ![p] =
                IF Pending(p, "register", "sent") \/ Pending(p, "deregister", "sent")
                THEN @ ELSE NoCall]
  /\ cause' = [cause EXCEPT ![p] = @ \cup {how}]
  /\ UNCHANGED <<conf, up, store, gShutdown, gReload, shutdownRequested, snapshot, home,
                 alone>>

EditConf ==
  /\ "edit" \in Faults
  /\ conf' \in Conf \ {conf}
  /\ UNCHANGED <<up, store, processVars, call, home, cause, alone>>

-----------------------------------------------------------------------------
MainNext(p) ==
  \/ Boot(p) \/ BootFails(p) \/ RunBegins(p) \/ StartFails(p) \/ BindAndRegister(p)
  \/ RegisterOk(p) \/ RegisterFails(p) \/ FetchServer(p) \/ StopListening(p) \/ Exit(p)

CtlNext(p) ==
  TestShutdown(p) \/ PollReload(p) \/ Shutdown(p) \/ DeregisterReturns(p) \/ Drained(p)

NetworkNext(p) == RegistryServes(p) \/ RequestLost(p) \/ ReplyLost(p)

SignalNext(p) == SigInt(p) \/ SigHup(p) \/ \E how \in {"kill", "term"} : Die(p, how)

Next ==
  \/ \E p \in Proc : MainNext(p) \/ CtlNext(p) \/ NetworkNext(p) \/ SignalNext(p)
  \/ \E a \in Registry : RegistryCrash(a) \/ RegistryRestart(a)
  \/ EditConf

Spec == Init /\ [][Next]_vars

\* The threads are scheduled, calls in flight finish, and a registry answers or
\* refuses a request: without the last, Shutdown may hang as HttpRequest has no
\* timeout.
Fairness ==
  \A p \in Proc : /\ WF_vars(MainNext(p) /\ main[p] # "down")
                  /\ WF_vars(CtlNext(p))
                  /\ WF_vars(NetworkNext(p))

FairSpec == Spec /\ Fairness

-----------------------------------------------------------------------------
MainPc == {"down", "boot", "listen", "register", "listening", "wait", "join", "exited", "killed"}
CtlPc == {"down", "test", "poll", "shutdown", "deregister", "drain", "done", "killed"}
Causes == {"moved", "deregister lost", "register reply lost", "kill", "term"}

TypeOK ==
  /\ conf \in Conf
  /\ up \subseteq Registry
  /\ store \in [Registry -> [Name -> Proc \cup {Nobody}]]
  /\ main \in [Proc -> MainPc]
  /\ ctl \in [Proc -> CtlPc]
  /\ mu \in [Proc -> {"free", "main", "ctl"}]
  /\ gShutdown \in [Proc -> BOOLEAN]
  /\ gReload \in [Proc -> BOOLEAN]
  /\ shutdownRequested \in [Proc -> BOOLEAN]
  /\ registered \in [Proc -> BOOLEAN]
  /\ server \in [Proc -> {"none", "serving", "draining", "stopped"}]
  /\ snapshot \in [Proc -> Snapshot]
  /\ call \in [Proc -> Call \cup {NoCall}]
  /\ home \in [Proc -> Snapshot]
  /\ alone \in [Proc -> BOOLEAN]
  /\ cause \in [Proc -> SUBSET Causes]

\* A record leads to a server that accepts calls, unless something is known to
\* have gone wrong with the process: it was killed, the reply to its register
\* request or its deregister request was lost, or its configuration moved to
\* another registry (ranking_server.cpp:16-48 and 91-98 order bind, register,
\* deregister and drain).
RecordsLeadToServers ==
  \A a \in Registry, n \in Name, p \in Proc :
    store[a][n] = p /\ cause[p] = {} => server[p] = "serving"

\* registered_ tells the truth (server_registration.cpp:53 and 76): while it is
\* set and no deregister request is out, some registry holds the record, unless a
\* registry crashed or another process used the name at the same time.  Earlier
\* incarnations, however they ended, and later ones do not disturb it.
RegisteredIsListed ==
  \A p \in Proc :
    registered[p] /\ ctl[p] # "deregister" /\ alone[p] /\ "restart" \notin Faults
    => \E a \in Registry : store[a][NameOf[p]] = p

\* The stop block of Run never has anything to deregister (ranking_server.cpp:73
\* repeats the Deregister of :94): Shutdown did it before Wait could return.
StopFindsDeregistered ==
  \A p \in Proc : main[p] = "wait" /\ server[p] = "stopped" => ~registered[p]

\* A SIGINT that the control thread sees after Run began ends the process
\* (ranking_main.cpp:57-86), also when it interrupts a registration.
ShutdownCompletes ==
  \A p \in Proc :
    (gShutdown[p] /\ ctl[p] \in {"test", "poll"} /\ main[p] # "boot")
      ~> main[p] \in {"exited", "killed"}

-----------------------------------------------------------------------------
(* What the documentation says and the code does not do *)

\* "Shutdown deregisters" (server_registration.h:10): a process whose Shutdown
\* is done is not registered.
ShutdownDeregisters == \A p \in Proc : ctl[p] = "done" => ~registered[p]

\* Closing deregisters (readme.md:41): a process that exited by itself has no
\* record left.
ExitLeavesNoRecord ==
  \A a \in Registry, n \in Name, p \in Proc : store[a][n] = p => main[p] # "exited"
=============================================================================
