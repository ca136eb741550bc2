------------------------ MODULE ServerProcessProofs ------------------------
(***************************************************************************)
(* For any number of processes, names and registries and any faults, a     *)
(* record leads to a serving process or to one with a known cause, the     *)
(* stop block of Run finds the process deregistered, and registered_ means *)
(* that a registry has the record.                                         *)
(***************************************************************************)
EXTENDS ServerProcess, TLAPS

Running(p) == main[p] \in {"listening", "wait"}

\* Where the threads of one process may be together.  mu_ is held exactly during
\* a call to the registry and during the drain.
Threads(p) ==
  /\ mu[p] = "main" <=> main[p] = "register"
  /\ mu[p] = "ctl" <=> ctl[p] \in {"deregister", "drain"}
  /\ main[p] = "down" => ctl[p] = "down"
  /\ main[p] = "killed" => cause[p] # {}
  /\ main[p] = "killed" <=> ctl[p] = "killed"
  /\ ctl[p] \in {"deregister", "drain"} => Running(p)

\* The server exists from the bind to the end of Wait and is drained only after
\* registered_ was reset.
ServerPhase(p) ==
  /\ main[p] = "register" => server[p] = "serving" /\ ~registered[p]
  /\ main[p] \notin {"register", "listening", "wait"} => server[p] = "none"
  /\ Running(p) => server[p] # "none"
  /\ registered[p] => Running(p) /\ server[p] = "serving" /\ home[p] \in Registry
  /\ ctl[p] = "deregister" => registered[p]
  /\ ctl[p] = "drain" => ~registered[p]

\* A live process has a call under way only while it holds mu_ for it; without a
\* cause, a deregister request goes where the process registered.
CallPhase(p) ==
  /\ Alive(p) /\ call[p] # NoCall =>
       \/ main[p] = "register" /\ call[p].op = "register"
       \/ ctl[p] = "deregister" /\ call[p].op = "deregister"
  /\ main[p] = "register" => call[p] # NoCall
  /\ ctl[p] = "deregister" =>
       call[p] # NoCall /\ (cause[p] = {} => call[p].at = home[p])
  /\ main[p] \in {"down", "exited"} => call[p] = NoCall

\* Where the record of a process without a cause is.
RecordPlace(a, n, p) ==
  store[a][n] = p /\ cause[p] = {} =>
    /\ n = NameOf[p]
    /\ a \in up
    /\ \/ main[p] = "register" /\ call[p].at = a /\ call[p].phase = "applied"
       \/ /\ registered[p] /\ home[p] = a
          /\ ctl[p] = "deregister" => call[p].phase = "sent"

IInv ==
  /\ TypeOK
  /\ \A p \in Proc : Threads(p) /\ ServerPhase(p) /\ CallPhase(p)
  /\ \A a \in Registry, n \in Name, p \in Proc : RecordPlace(a, n, p)

-----------------------------------------------------------------------------
LEMMA TypeStep ==
  ASSUME TypeOK, [Next]_vars
  PROVE  TypeOK'
<1> USE NameAssumption, NullAssumption
    DEF TypeOK, MainPc, CtlPc, Conf, Snapshot, Causes, Call, NoCall, Sent, Pending, processVars
<1>1. ASSUME NEW p \in Proc, Boot(p) PROVE TypeOK'
  <2>1. conf \in Snapshot
    BY <1>1 DEF Boot
  <2>2. snapshot' \in [Proc -> Snapshot]
    BY <1>1, <2>1 DEF Boot
  <2>3. main' \in [Proc -> MainPc] /\ ctl' \in [Proc -> CtlPc]
    BY <1>1 DEF Boot
  <2>4. alone' \in [Proc -> BOOLEAN]
    <3>1. \A q \in Proc : (alone[q] /\ IF q = p THEN Sharing(p) = {} ELSE q \notin Sharing(p))
                            \in BOOLEAN
      OBVIOUS
    <3> HIDE DEF TypeOK
    <3> QED
      BY <1>1, <3>1 DEF Boot
  <2> QED
    BY <1>1, <2>2, <2>3, <2>4 DEF Boot
<1>24. ASSUME NEW p \in Proc, BootFails(p) PROVE TypeOK'
  BY <1>24 DEF BootFails
<1>2. ASSUME NEW p \in Proc, RunBegins(p) PROVE TypeOK'
  BY <1>2 DEF RunBegins
<1>3. ASSUME NEW p \in Proc, StartFails(p) PROVE TypeOK'
  BY <1>3 DEF StartFails
<1>4. ASSUME NEW p \in Proc, BindAndRegister(p) PROVE TypeOK'
  BY <1>4 DEF BindAndRegister
<1>5. ASSUME NEW p \in Proc, RegisterOk(p) PROVE TypeOK'
  BY <1>5 DEF RegisterOk
<1>6. ASSUME NEW p \in Proc, RegisterFails(p) PROVE TypeOK'
  BY <1>6 DEF RegisterFails
<1>7. ASSUME NEW p \in Proc, FetchServer(p) PROVE TypeOK'
  BY <1>7 DEF FetchServer
<1>8. ASSUME NEW p \in Proc, StopListening(p) PROVE TypeOK'
  BY <1>8 DEF StopListening
<1>9. ASSUME NEW p \in Proc, Exit(p) PROVE TypeOK'
  BY <1>9 DEF Exit
<1>10. ASSUME NEW p \in Proc, TestShutdown(p) PROVE TypeOK'
  BY <1>10 DEF TestShutdown
<1>11. ASSUME NEW p \in Proc, PollReload(p) PROVE TypeOK'
  BY <1>11 DEF PollReload
<1>12. ASSUME NEW p \in Proc, Shutdown(p) PROVE TypeOK'
  <2>1. cause' \in [Proc -> SUBSET Causes]
    BY <1>12 DEF Shutdown
  <2>2. shutdownRequested' \in [Proc -> BOOLEAN]
    BY <1>12 DEF Shutdown
  <2>3. CASE registered[p] /\ snapshot[p] \in Registry
    <3>1. /\ call' = [call EXCEPT ![p] = Sent("deregister", snapshot[p])]
          /\ ctl' = [ctl EXCEPT ![p] = "deregister"]
          /\ mu' = [mu EXCEPT ![p] = "ctl"]
      BY <1>12, <2>3 DEF Shutdown
    <3>4. Sent("deregister", snapshot[p]) \in Call
      BY <2>3
    <3>2. UNCHANGED <<registered, server>>
      BY <1>12, <2>3 DEF Shutdown
    <3>3. UNCHANGED <<conf, up, store, main, gShutdown, gReload, snapshot, home, alone>>
      BY <1>12 DEF Shutdown
    <3> QED
      BY <2>1, <2>2, <3>1, <3>2, <3>3, <3>4
  <2>4. CASE ~(registered[p] /\ snapshot[p] \in Registry)
    <3>3. BeginDrain(p)
      BY <1>12, <2>4 DEF Shutdown
    <3>1. /\ ctl' \in [Proc -> CtlPc]
          /\ mu' \in [Proc -> {"free", "main", "ctl"}]
          /\ server' \in [Proc -> {"none", "serving", "draining", "stopped"}]
      BY <3>3 DEF BeginDrain
    <3>2. registered' \in [Proc -> BOOLEAN] /\ call' = call
      BY <1>12, <2>4 DEF Shutdown
    <3> QED
      BY <1>12, <2>1, <2>2, <3>1, <3>2 DEF Shutdown
  <2> QED
    BY <2>3, <2>4
<1>13. ASSUME NEW p \in Proc, DeregisterReturns(p) PROVE TypeOK'
  BY <1>13 DEF DeregisterReturns, BeginDrain
<1>14. ASSUME NEW p \in Proc, Drained(p) PROVE TypeOK'
  BY <1>14 DEF Drained
<1>15. ASSUME NEW p \in Proc, RegistryServes(p) PROVE TypeOK'
  <2>1. call[p] \in Call
    BY <1>15 DEF RegistryServes
  <2>2. store' \in [Registry -> [Name -> Proc \cup {Nobody}]]
    BY <1>15, <2>1 DEF RegistryServes
  <2>3. [call[p] EXCEPT !.phase = "applied"] \in Call
    BY <2>1
  <2>4. call' \in [Proc -> Call \cup {NoCall}]
    BY <1>15, <2>3 DEF RegistryServes
  <2>5. UNCHANGED <<conf, up, home, cause, alone>>
    BY <1>15 DEF RegistryServes
  <2>6. UNCHANGED <<main, ctl, mu, gShutdown, gReload, shutdownRequested, registered, server,
                    snapshot>>
    BY <1>15 DEF RegistryServes, processVars
  <2> HIDE DEF Call, NoCall, Sent, Pending, Conf, Snapshot, Causes, MainPc, CtlPc
  <2> QED
    BY <2>2, <2>4, <2>5, <2>6
<1>16. ASSUME NEW p \in Proc, RequestLost(p) PROVE TypeOK'
  BY <1>16 DEF RequestLost, Alive
<1>17. ASSUME NEW p \in Proc, ReplyLost(p) PROVE TypeOK'
  <2>1. call[p] \in Call
    BY <1>17 DEF ReplyLost
  <2>2. [call[p] EXCEPT !.phase = "failed"] \in Call
    BY <2>1
  <2>3. call' = [call EXCEPT ![p] = [call[p] EXCEPT !.phase = "failed"]]
    BY <1>17 DEF ReplyLost
  <2>4. call' \in [Proc -> Call \cup {NoCall}]
    BY <2>2, <2>3
  <2> QED
    BY <1>17, <2>4 DEF ReplyLost
<1>18. ASSUME NEW p \in Proc, SigInt(p) PROVE TypeOK'
  BY <1>18 DEF SigInt
<1>19. ASSUME NEW p \in Proc, SigHup(p) PROVE TypeOK'
  BY <1>19 DEF SigHup
<1>20. ASSUME NEW p \in Proc, NEW how \in {"kill", "term"}, Die(p, how) PROVE TypeOK'
  BY <1>20 DEF Die
<1>21. ASSUME NEW a \in Registry, RegistryCrash(a) \/ RegistryRestart(a) PROVE TypeOK'
  <2>1. CASE RegistryCrash(a)
    BY <2>1 DEF RegistryCrash
  <2>2. CASE RegistryRestart(a)
    BY <2>2 DEF RegistryRestart
  <2> QED
    BY <1>21, <2>1, <2>2
<1>22. CASE EditConf
  BY <1>22 DEF EditConf
<1>23. CASE UNCHANGED vars
  BY <1>23 DEF vars
<1> HIDE DEF TypeOK
<1> QED
  BY <1>1, <1>2, <1>3, <1>4, <1>5, <1>6, <1>7, <1>8, <1>9, <1>10, <1>11, <1>12, <1>13, <1>14, <1>15, <1>16, <1>17, <1>18, <1>19, <1>20, <1>21, <1>22, <1>23, <1>24 DEF Next, MainNext, CtlNext, NetworkNext, SignalNext

-----------------------------------------------------------------------------
\* An answer changes the phase of a call and nothing else.
LEMMA CallAdvances ==
  ASSUME NEW c \in Call
  PROVE  LET d == [c EXCEPT !.phase = "failed"]
         IN d.op = c.op /\ d.at = c.at /\ d # NoCall
BY DEF Call, NoCall

LEMMA CallTyped ==
  ASSUME TypeOK, NEW p \in Proc, NEW op, NEW phase, Pending(p, op, phase)
  PROVE  call[p] \in Call /\ call[p].at \in Registry
BY DEF TypeOK, Pending, Call

LEMMA CallAt ==
  ASSUME TypeOK, NEW p \in Proc, call[p] # NoCall
  PROVE  call[p].at \in Registry
BY DEF TypeOK, Call

-----------------------------------------------------------------------------
\* mu_ and the program counters stay together.
LEMMA ThreadsStep ==
  ASSUME TypeOK, NEW q \in Proc, Threads(q), ServerPhase(q), CallPhase(q), [Next]_vars
  PROVE  Threads(q)'
<1> USE NameAssumption, NullAssumption
    DEF TypeOK, processVars, NoCall, Sent, Pending, Alive, Threads, ServerPhase, Running
<1>1. ASSUME NEW p \in Proc, Boot(p) PROVE Threads(q)'
  BY <1>1 DEF Boot
<1>24. ASSUME NEW p \in Proc, BootFails(p) PROVE Threads(q)'
  BY <1>24 DEF BootFails
<1>2. ASSUME NEW p \in Proc, RunBegins(p) PROVE Threads(q)'
  BY <1>2 DEF RunBegins
<1>3. ASSUME NEW p \in Proc, StartFails(p) PROVE Threads(q)'
  BY <1>3 DEF StartFails
<1>4. ASSUME NEW p \in Proc, BindAndRegister(p) PROVE Threads(q)'
  BY <1>4 DEF BindAndRegister
<1>5. ASSUME NEW p \in Proc, RegisterOk(p) PROVE Threads(q)'
  BY <1>5 DEF RegisterOk
<1>6. ASSUME NEW p \in Proc, RegisterFails(p) PROVE Threads(q)'
  BY <1>6 DEF RegisterFails
<1>7. ASSUME NEW p \in Proc, FetchServer(p) PROVE Threads(q)'
  BY <1>7 DEF FetchServer
<1>8. ASSUME NEW p \in Proc, StopListening(p) PROVE Threads(q)'
  BY <1>8 DEF StopListening
<1>9. ASSUME NEW p \in Proc, Exit(p) PROVE Threads(q)'
  BY <1>9 DEF Exit
<1>10. ASSUME NEW p \in Proc, TestShutdown(p) PROVE Threads(q)'
  BY <1>10 DEF TestShutdown
<1>11. ASSUME NEW p \in Proc, PollReload(p) PROVE Threads(q)'
  BY <1>11 DEF PollReload
<1>12. ASSUME NEW p \in Proc, Shutdown(p) PROVE Threads(q)'
  BY <1>12 DEF Shutdown, BeginDrain
<1>13. ASSUME NEW p \in Proc, DeregisterReturns(p) PROVE Threads(q)'
  BY <1>13 DEF DeregisterReturns, BeginDrain
<1>14. ASSUME NEW p \in Proc, Drained(p) PROVE Threads(q)'
  BY <1>14 DEF Drained
<1>15. ASSUME NEW p \in Proc, RegistryServes(p) PROVE Threads(q)'
  BY <1>15 DEF RegistryServes
<1>16. ASSUME NEW p \in Proc, RequestLost(p) PROVE Threads(q)'
  BY <1>16 DEF RequestLost
<1>17. ASSUME NEW p \in Proc, ReplyLost(p) PROVE Threads(q)'
  BY <1>17 DEF ReplyLost
<1>18. ASSUME NEW p \in Proc, SigInt(p) PROVE Threads(q)'
  BY <1>18 DEF SigInt
<1>19. ASSUME NEW p \in Proc, SigHup(p) PROVE Threads(q)'
  BY <1>19 DEF SigHup
<1>20. ASSUME NEW p \in Proc, NEW how \in {"kill", "term"}, Die(p, how) PROVE Threads(q)'
  BY <1>20 DEF Die
<1>21. ASSUME NEW r \in Registry, RegistryCrash(r) \/ RegistryRestart(r) PROVE Threads(q)'
  BY <1>21 DEF RegistryCrash, RegistryRestart
<1>22. CASE EditConf
  BY <1>22 DEF EditConf
<1>23. CASE UNCHANGED vars
  BY <1>23 DEF vars
<1> HIDE DEF TypeOK
<1> QED
  BY <1>1, <1>2, <1>3, <1>4, <1>5, <1>6, <1>7, <1>8, <1>9, <1>10, <1>11, <1>12, <1>13, <1>14, <1>15, <1>16, <1>17, <1>18, <1>19, <1>20, <1>21, <1>22, <1>23, <1>24 DEF Next, MainNext, CtlNext, NetworkNext, SignalNext

-----------------------------------------------------------------------------
\* The server is up while registered_ is set and gone outside Run.
LEMMA ServerStep ==
  ASSUME TypeOK, NEW q \in Proc, Threads(q), ServerPhase(q), CallPhase(q), [Next]_vars
  PROVE  ServerPhase(q)'
<1> USE NameAssumption, NullAssumption
    DEF TypeOK, processVars, NoCall, Sent, Pending, Alive, Threads, ServerPhase, Running, Snapshot
<1>1. ASSUME NEW p \in Proc, Boot(p) PROVE ServerPhase(q)'
  BY <1>1 DEF Boot
<1>24. ASSUME NEW p \in Proc, BootFails(p) PROVE ServerPhase(q)'
  BY <1>24 DEF BootFails
<1>2. ASSUME NEW p \in Proc, RunBegins(p) PROVE ServerPhase(q)'
  BY <1>2 DEF RunBegins
<1>3. ASSUME NEW p \in Proc, StartFails(p) PROVE ServerPhase(q)'
  BY <1>3 DEF StartFails
<1>4. ASSUME NEW p \in Proc, BindAndRegister(p) PROVE ServerPhase(q)'
  BY <1>4 DEF BindAndRegister
<1>5. ASSUME NEW p \in Proc, RegisterOk(p) PROVE ServerPhase(q)'
  BY <1>5, CallTyped DEF RegisterOk
<1>6. ASSUME NEW p \in Proc, RegisterFails(p) PROVE ServerPhase(q)'
  BY <1>6 DEF RegisterFails
<1>7. ASSUME NEW p \in Proc, FetchServer(p) PROVE ServerPhase(q)'
  BY <1>7 DEF FetchServer
<1>8. ASSUME NEW p \in Proc, StopListening(p) PROVE ServerPhase(q)'
  BY <1>8 DEF StopListening
<1>9. ASSUME NEW p \in Proc, Exit(p) PROVE ServerPhase(q)'
  BY <1>9 DEF Exit
<1>10. ASSUME NEW p \in Proc, TestShutdown(p) PROVE ServerPhase(q)'
  BY <1>10 DEF TestShutdown
<1>11. ASSUME NEW p \in Proc, PollReload(p) PROVE ServerPhase(q)'
  BY <1>11 DEF PollReload
<1>12. ASSUME NEW p \in Proc, Shutdown(p) PROVE ServerPhase(q)'
  BY <1>12 DEF Shutdown, BeginDrain
<1>13. ASSUME NEW p \in Proc, DeregisterReturns(p) PROVE ServerPhase(q)'
  BY <1>13 DEF DeregisterReturns, BeginDrain
<1>14. ASSUME NEW p \in Proc, Drained(p) PROVE ServerPhase(q)'
  BY <1>14 DEF Drained
<1>15. ASSUME NEW p \in Proc, RegistryServes(p) PROVE ServerPhase(q)'
  BY <1>15 DEF RegistryServes
<1>16. ASSUME NEW p \in Proc, RequestLost(p) PROVE ServerPhase(q)'
  BY <1>16 DEF RequestLost
<1>17. ASSUME NEW p \in Proc, ReplyLost(p) PROVE ServerPhase(q)'
  BY <1>17 DEF ReplyLost
<1>18. ASSUME NEW p \in Proc, SigInt(p) PROVE ServerPhase(q)'
  BY <1>18 DEF SigInt
<1>19. ASSUME NEW p \in Proc, SigHup(p) PROVE ServerPhase(q)'
  BY <1>19 DEF SigHup
<1>20. ASSUME NEW p \in Proc, NEW how \in {"kill", "term"}, Die(p, how) PROVE ServerPhase(q)'
  BY <1>20 DEF Die
<1>21. ASSUME NEW r \in Registry, RegistryCrash(r) \/ RegistryRestart(r) PROVE ServerPhase(q)'
  BY <1>21 DEF RegistryCrash, RegistryRestart
<1>22. CASE EditConf
  BY <1>22 DEF EditConf
<1>23. CASE UNCHANGED vars
  BY <1>23 DEF vars
<1> HIDE DEF TypeOK
<1> QED
  BY <1>1, <1>2, <1>3, <1>4, <1>5, <1>6, <1>7, <1>8, <1>9, <1>10, <1>11, <1>12, <1>13, <1>14, <1>15, <1>16, <1>17, <1>18, <1>19, <1>20, <1>21, <1>22, <1>23, <1>24 DEF Next, MainNext, CtlNext, NetworkNext, SignalNext

-----------------------------------------------------------------------------
\* Calls belong to the holder of mu_ and go where they should.
LEMMA CallStep ==
  ASSUME TypeOK, NEW q \in Proc, Threads(q), ServerPhase(q), CallPhase(q), [Next]_vars
  PROVE  CallPhase(q)'
<1> USE NameAssumption, NullAssumption
    DEF TypeOK, processVars, NoCall, Sent, Pending, Alive, Threads, ServerPhase, CallPhase, Running
<1>1. ASSUME NEW p \in Proc, Boot(p) PROVE CallPhase(q)'
  BY <1>1 DEF Boot
<1>24. ASSUME NEW p \in Proc, BootFails(p) PROVE CallPhase(q)'
  BY <1>24 DEF BootFails
<1>2. ASSUME NEW p \in Proc, RunBegins(p) PROVE CallPhase(q)'
  BY <1>2 DEF RunBegins
<1>3. ASSUME NEW p \in Proc, StartFails(p) PROVE CallPhase(q)'
  BY <1>3 DEF StartFails
<1>4. ASSUME NEW p \in Proc, BindAndRegister(p) PROVE CallPhase(q)'
  BY <1>4 DEF BindAndRegister
<1>5. ASSUME NEW p \in Proc, RegisterOk(p) PROVE CallPhase(q)'
  BY <1>5 DEF RegisterOk
<1>6. ASSUME NEW p \in Proc, RegisterFails(p) PROVE CallPhase(q)'
  BY <1>6 DEF RegisterFails
<1>7. ASSUME NEW p \in Proc, FetchServer(p) PROVE CallPhase(q)'
  BY <1>7 DEF FetchServer
<1>8. ASSUME NEW p \in Proc, StopListening(p) PROVE CallPhase(q)'
  BY <1>8 DEF StopListening
<1>9. ASSUME NEW p \in Proc, Exit(p) PROVE CallPhase(q)'
  BY <1>9 DEF Exit
<1>10. ASSUME NEW p \in Proc, TestShutdown(p) PROVE CallPhase(q)'
  BY <1>10 DEF TestShutdown
<1>11. ASSUME NEW p \in Proc, PollReload(p) PROVE CallPhase(q)'
  BY <1>11 DEF PollReload
<1>12. ASSUME NEW p \in Proc, Shutdown(p) PROVE CallPhase(q)'
  <2>1. CASE registered[p] /\ snapshot[p] \in Registry
    <3>1. /\ call' = [call EXCEPT ![p] = Sent("deregister", snapshot[p])]
          /\ ctl' = [ctl EXCEPT ![p] = "deregister"]
          /\ cause' = IF snapshot[p] # home[p] THEN [cause EXCEPT ![p] = @ \cup {"moved"}] ELSE cause
          /\ UNCHANGED <<main, home>>
      BY <1>12, <2>1 DEF Shutdown
    <3>2. Sent("deregister", snapshot[p]) # NoCall
      OBVIOUS
    <3>3. CASE q = p
      <4>1. /\ call'[p] # NoCall
            /\ call'[p].op = "deregister"
            /\ call'[p].at = snapshot[p]
        BY <3>1, <3>2
      <4>2. cause'[p] = {} => snapshot[p] = home[p]
        BY <3>1
      <4>3. main'[p] \notin {"register", "down", "exited"}
        BY <2>1, <3>1, <3>3
      <4> QED
        BY <3>1, <3>3, <4>1, <4>2, <4>3
    <3>4. CASE q # p
      BY <3>1, <3>4
    <3> QED
      BY <3>3, <3>4
  <2>2. CASE ~(registered[p] /\ snapshot[p] \in Registry)
    BY <1>12, <2>2 DEF Shutdown, BeginDrain
  <2> QED
    BY <2>1, <2>2
<1>13. ASSUME NEW p \in Proc, DeregisterReturns(p) PROVE CallPhase(q)'
  BY <1>13 DEF DeregisterReturns, BeginDrain
<1>14. ASSUME NEW p \in Proc, Drained(p) PROVE CallPhase(q)'
  BY <1>14 DEF Drained
<1>15. ASSUME NEW p \in Proc, RegistryServes(p) PROVE CallPhase(q)'
  BY <1>15 DEF RegistryServes
<1>16. ASSUME NEW p \in Proc, RequestLost(p) PROVE CallPhase(q)'
  <2>1. call[p] \in Call
    BY <1>16, CallTyped DEF RequestLost
  <2>2. Alive(p) => call'[p] = [call[p] EXCEPT !.phase = "failed"]
    BY <1>16 DEF RequestLost
  <2>3. Alive(p) => call'[p].op = call[p].op /\ call'[p].at = call[p].at /\ call'[p] # NoCall
    <3> HIDE DEF TypeOK, NoCall, Threads, ServerPhase, CallPhase
    <3> QED
      BY <2>1, <2>2, CallAdvances
  <2>4. CASE q = p
    BY <1>16, <2>3, <2>4 DEF RequestLost
  <2>5. CASE q # p
    BY <1>16, <2>5 DEF RequestLost
  <2> QED
    BY <2>4, <2>5
<1>17. ASSUME NEW p \in Proc, ReplyLost(p) PROVE CallPhase(q)'
  <2>1. call[p] \in Call
    BY <1>17, CallTyped DEF ReplyLost
  <2>2. call'[p] = [call[p] EXCEPT !.phase = "failed"]
    BY <1>17 DEF ReplyLost
  <2>3. call'[p].op = call[p].op /\ call'[p].at = call[p].at /\ call'[p] # NoCall
    <3> HIDE DEF TypeOK, NoCall, Threads, ServerPhase, CallPhase
    <3> QED
      BY <2>1, <2>2, CallAdvances
  <2>4. CASE q = p
    BY <1>17, <2>3, <2>4 DEF ReplyLost
  <2>5. CASE q # p
    BY <1>17, <2>5 DEF ReplyLost
  <2> QED
    BY <2>4, <2>5
<1>18. ASSUME NEW p \in Proc, SigInt(p) PROVE CallPhase(q)'
  BY <1>18 DEF SigInt
<1>19. ASSUME NEW p \in Proc, SigHup(p) PROVE CallPhase(q)'
  BY <1>19 DEF SigHup
<1>20. ASSUME NEW p \in Proc, NEW how \in {"kill", "term"}, Die(p, how) PROVE CallPhase(q)'
  BY <1>20 DEF Die
<1>21. ASSUME NEW r \in Registry, RegistryCrash(r) \/ RegistryRestart(r) PROVE CallPhase(q)'
  BY <1>21 DEF RegistryCrash, RegistryRestart
<1>22. CASE EditConf
  BY <1>22 DEF EditConf
<1>23. CASE UNCHANGED vars
  BY <1>23 DEF vars
<1> HIDE DEF TypeOK
<1> QED
  BY <1>1, <1>2, <1>3, <1>4, <1>5, <1>6, <1>7, <1>8, <1>9, <1>10, <1>11, <1>12, <1>13, <1>14, <1>15, <1>16, <1>17, <1>18, <1>19, <1>20, <1>21, <1>22, <1>23, <1>24 DEF Next, MainNext, CtlNext, NetworkNext, SignalNext

-----------------------------------------------------------------------------
\* A record without a cause is where its process believes it to be.
LEMMA RecordStep ==
  ASSUME TypeOK, NEW q \in Proc, NEW a \in Registry, NEW n \in Name,
         Threads(q), ServerPhase(q), CallPhase(q), RecordPlace(a, n, q), [Next]_vars
  PROVE  RecordPlace(a, n, q)'
<1> USE NameAssumption, NullAssumption
    DEF TypeOK, processVars, NoCall, Sent, Pending, Alive, Threads, ServerPhase, CallPhase, Running, RecordPlace
<1>1. ASSUME NEW p \in Proc, Boot(p) PROVE RecordPlace(a, n, q)'
  BY <1>1 DEF Boot
<1>24. ASSUME NEW p \in Proc, BootFails(p) PROVE RecordPlace(a, n, q)'
  BY <1>24 DEF BootFails
<1>2. ASSUME NEW p \in Proc, RunBegins(p) PROVE RecordPlace(a, n, q)'
  BY <1>2 DEF RunBegins
<1>3. ASSUME NEW p \in Proc, StartFails(p) PROVE RecordPlace(a, n, q)'
  BY <1>3 DEF StartFails
<1>4. ASSUME NEW p \in Proc, BindAndRegister(p) PROVE RecordPlace(a, n, q)'
  BY <1>4 DEF BindAndRegister
<1>5. ASSUME NEW p \in Proc, RegisterOk(p) PROVE RecordPlace(a, n, q)'
  BY <1>5 DEF RegisterOk
<1>6. ASSUME NEW p \in Proc, RegisterFails(p) PROVE RecordPlace(a, n, q)'
  BY <1>6 DEF RegisterFails
<1>7. ASSUME NEW p \in Proc, FetchServer(p) PROVE RecordPlace(a, n, q)'
  BY <1>7 DEF FetchServer
<1>8. ASSUME NEW p \in Proc, StopListening(p) PROVE RecordPlace(a, n, q)'
  BY <1>8 DEF StopListening
<1>9. ASSUME NEW p \in Proc, Exit(p) PROVE RecordPlace(a, n, q)'
  BY <1>9 DEF Exit
<1>10. ASSUME NEW p \in Proc, TestShutdown(p) PROVE RecordPlace(a, n, q)'
  BY <1>10 DEF TestShutdown
<1>11. ASSUME NEW p \in Proc, PollReload(p) PROVE RecordPlace(a, n, q)'
  BY <1>11 DEF PollReload
<1>12. ASSUME NEW p \in Proc, Shutdown(p) PROVE RecordPlace(a, n, q)'
  <2>1. UNCHANGED <<store, up, main, home>>
    BY <1>12 DEF Shutdown
  <2>2. CASE q # p
    BY <1>12, <2>1, <2>2 DEF Shutdown, BeginDrain
  <2>3. CASE q = p /\ registered[p] /\ snapshot[p] = home[p]
    BY <1>12, <2>1, <2>3 DEF Shutdown
  <2>4. CASE q = p /\ registered[p] /\ snapshot[p] # home[p]
    <3>1. cause'[p] # {}
      BY <1>12, <2>4 DEF Shutdown
    <3> QED
      BY <2>4, <3>1
  <2>5. CASE q = p /\ ~registered[p]
    BY <1>12, <2>1, <2>5 DEF Shutdown
  <2> QED
    BY <2>2, <2>3, <2>4, <2>5
<1>13. ASSUME NEW p \in Proc, DeregisterReturns(p) PROVE RecordPlace(a, n, q)'
  BY <1>13 DEF DeregisterReturns, BeginDrain
<1>14. ASSUME NEW p \in Proc, Drained(p) PROVE RecordPlace(a, n, q)'
  BY <1>14 DEF Drained
<1>15. ASSUME NEW p \in Proc, RegistryServes(p) PROVE RecordPlace(a, n, q)'
  BY <1>15 DEF RegistryServes
<1>16. ASSUME NEW p \in Proc, RequestLost(p) PROVE RecordPlace(a, n, q)'
  <2>1. UNCHANGED <<store, up, main, ctl, registered, home>>
    BY <1>16 DEF RequestLost
  <2>2. CASE q # p
    BY <1>16, <2>1, <2>2 DEF RequestLost
  <2>3. CASE q = p /\ cause[p] = {}
    <3>1. call[p] \in Call
      BY <1>16, CallTyped DEF RequestLost
    <3>2. cause'[p] = {} => ~(store[a][n] = p)
      <4>1. call[p] # NoCall /\ call[p].phase = "sent"
        BY <1>16 DEF RequestLost
      <4>2. store[a][n] = p => /\ registered[p] /\ home[p] = a /\ a \in up
                               /\ call[p].op = "deregister" /\ call[p].at = a
        BY <2>3, <4>1
      <4>3. call[p].op = "deregister" /\ call[p].at \in up => cause'[p] # {}
        BY <1>16 DEF RequestLost
      <4> QED
        BY <4>2, <4>3
    <3> QED
      BY <2>1, <2>3, <3>2
  <2>4. CASE q = p /\ cause[p] # {}
    BY <1>16, <2>4 DEF RequestLost
  <2> QED
    BY <2>2, <2>3, <2>4
<1>17. ASSUME NEW p \in Proc, ReplyLost(p) PROVE RecordPlace(a, n, q)'
  <2>1. UNCHANGED <<store, up, main, ctl, registered, home>>
    BY <1>17 DEF ReplyLost
  <2>2. CASE q # p
    BY <1>17, <2>1, <2>2 DEF ReplyLost
  <2>3. CASE q = p /\ cause[p] = {}
    <3>1. call[p] \in Call
      BY <1>17, CallTyped DEF ReplyLost
    <3>2. cause'[p] = {} => ~(store[a][n] = p)
      BY <1>17, <2>3, <3>1 DEF ReplyLost
    <3> QED
      BY <2>1, <2>3, <3>2
  <2>4. CASE q = p /\ cause[p] # {}
    BY <1>17, <2>4 DEF ReplyLost
  <2> QED
    BY <2>2, <2>3, <2>4
<1>18. ASSUME NEW p \in Proc, SigInt(p) PROVE RecordPlace(a, n, q)'
  BY <1>18 DEF SigInt
<1>19. ASSUME NEW p \in Proc, SigHup(p) PROVE RecordPlace(a, n, q)'
  BY <1>19 DEF SigHup
<1>20. ASSUME NEW p \in Proc, NEW how \in {"kill", "term"}, Die(p, how) PROVE RecordPlace(a, n, q)'
  BY <1>20 DEF Die
<1>21. ASSUME NEW r \in Registry, RegistryCrash(r) \/ RegistryRestart(r) PROVE RecordPlace(a, n, q)'
  BY <1>21 DEF RegistryCrash, RegistryRestart
<1>22. CASE EditConf
  BY <1>22 DEF EditConf
<1>23. CASE UNCHANGED vars
  BY <1>23 DEF vars
<1> HIDE DEF TypeOK
<1> QED
  BY <1>1, <1>2, <1>3, <1>4, <1>5, <1>6, <1>7, <1>8, <1>9, <1>10, <1>11, <1>12, <1>13, <1>14, <1>15, <1>16, <1>17, <1>18, <1>19, <1>20, <1>21, <1>22, <1>23, <1>24 DEF Next, MainNext, CtlNext, NetworkNext, SignalNext

-----------------------------------------------------------------------------
LEMMA Inductive == Spec => []IInv
<1>1. Init => IInv
  BY NameAssumption, NullAssumption
  DEF Init, IInv, TypeOK, Conf, Snapshot, MainPc, CtlPc, Causes, Threads, ServerPhase,
      CallPhase, RecordPlace, Running, Alive
<1>2. IInv /\ [Next]_vars => IInv'
  <2> SUFFICES ASSUME IInv, [Next]_vars PROVE IInv'
    OBVIOUS
  <2>1. TypeOK'
    BY TypeStep DEF IInv
  <2>2. \A q \in Proc : Threads(q)' /\ ServerPhase(q)' /\ CallPhase(q)'
    BY ThreadsStep, ServerStep, CallStep DEF IInv
  <2>3. \A a \in Registry, n \in Name, q \in Proc : RecordPlace(a, n, q)'
    BY RecordStep DEF IInv
  <2> QED
    BY <2>1, <2>2, <2>3 DEF IInv
<1> QED
  BY <1>1, <1>2, PTL DEF Spec

\* Every variable keeps its type, whatever the faults.
THEOREM TypeCorrect == Spec => []TypeOK
<1>1. IInv => TypeOK
  BY DEF IInv
<1> QED
  BY <1>1, Inductive, PTL

\* A record in any registry leads to a serving process unless the process was
\* killed, a register reply or a deregister request was lost, or its
\* configuration moved (ranking_server.cpp:16-48 and 91-98).
THEOREM RecordsLead == Spec => []RecordsLeadToServers
<1>1. IInv => RecordsLeadToServers
  BY DEF IInv, RecordPlace, ServerPhase, RecordsLeadToServers
<1> QED
  BY <1>1, Inductive, PTL

\* When Wait has returned, the registration is gone: the second Deregister of
\* ranking_server.cpp:46 never sends a request.
THEOREM StopDeregistered == Spec => []StopFindsDeregistered
<1>1. IInv => StopFindsDeregistered
  BY DEF IInv, ServerPhase, StopFindsDeregistered
<1> QED
  BY <1>1, Inductive, PTL

-----------------------------------------------------------------------------
\* No other process of its name runs while a process that is alone does, nor has one
\* left a request on its way to a registry.
Solo(p) ==
  alone[p] /\ Alive(p) =>
    \A q \in Proc \ {p} : NameOf[q] = NameOf[p] => ~Alive(q) /\ call[q] = NoCall

\* From the registry's answer until Shutdown, the record of a process is where it
\* registered, if no other incarnation can overwrite or remove it.
Listed(p) ==
  alone[p] =>
    /\ main[p] = "register" /\ call[p].phase = "applied" =>
         store[call[p].at][NameOf[p]] = p
    /\ registered[p] /\ ctl[p] # "deregister" => store[home[p]][NameOf[p]] = p

\* A process comes alive by Boot, and only a live one makes a call.
LEMMA OnlyBootWakes ==
  ASSUME TypeOK, NEW q \in Proc, Threads(q), ServerPhase(q), [Next]_vars,
         \A p \in Proc : ~Boot(p)
  PROVE  /\ alone' = alone
         /\ Alive(q)' => Alive(q)
         /\ call'[q] # NoCall => call[q] # NoCall \/ Alive(q)
<1> DEFINE Goal == /\ alone' = alone
                   /\ Alive(q)' => Alive(q)
                   /\ call'[q] # NoCall => call[q] # NoCall \/ Alive(q)
<1> USE DEF TypeOK, processVars, Pending, Alive, ServerPhase, Running
<1>1. ASSUME NEW p \in Proc, BootFails(p) PROVE Goal
  BY <1>1 DEF BootFails
<1>2. ASSUME NEW p \in Proc, RunBegins(p) PROVE Goal
  BY <1>2 DEF RunBegins
<1>3. ASSUME NEW p \in Proc, StartFails(p) PROVE Goal
  BY <1>3 DEF StartFails
<1>4. ASSUME NEW p \in Proc, BindAndRegister(p) PROVE Goal
  BY <1>4 DEF BindAndRegister
<1>5. ASSUME NEW p \in Proc, RegisterOk(p) PROVE Goal
  BY <1>5 DEF RegisterOk
<1>6. ASSUME NEW p \in Proc, RegisterFails(p) PROVE Goal
  BY <1>6 DEF RegisterFails
<1>7. ASSUME NEW p \in Proc, FetchServer(p) PROVE Goal
  BY <1>7 DEF FetchServer
<1>8. ASSUME NEW p \in Proc, StopListening(p) PROVE Goal
  BY <1>8 DEF StopListening
<1>9. ASSUME NEW p \in Proc, Exit(p) PROVE Goal
  BY <1>9 DEF Exit
<1>10. ASSUME NEW p \in Proc, TestShutdown(p) PROVE Goal
  BY <1>10 DEF TestShutdown
<1>11. ASSUME NEW p \in Proc, PollReload(p) PROVE Goal
  BY <1>11 DEF PollReload
<1>12. ASSUME NEW p \in Proc, Shutdown(p) PROVE Goal
  <2>1. alone' = alone /\ main' = main
    BY <1>12 DEF Shutdown
  <2>2. call'[q] # NoCall => call[q] # NoCall \/ (q = p /\ registered[p])
    <3>1. CASE registered[p] /\ snapshot[p] \in Registry
      BY <1>12, <3>1 DEF Shutdown
    <3>2. CASE ~(registered[p] /\ snapshot[p] \in Registry)
      BY <1>12, <3>2 DEF Shutdown
    <3> QED
      BY <3>1, <3>2
  <2> QED
    BY <2>1, <2>2
<1>13. ASSUME NEW p \in Proc, DeregisterReturns(p) PROVE Goal
  BY <1>13 DEF DeregisterReturns, BeginDrain
<1>14. ASSUME NEW p \in Proc, Drained(p) PROVE Goal
  BY <1>14 DEF Drained
<1>15. ASSUME NEW p \in Proc, RegistryServes(p) PROVE Goal
  BY <1>15 DEF RegistryServes
<1>16. ASSUME NEW p \in Proc, RequestLost(p) PROVE Goal
  BY <1>16 DEF RequestLost
<1>17. ASSUME NEW p \in Proc, ReplyLost(p) PROVE Goal
  BY <1>17 DEF ReplyLost
<1>18. ASSUME NEW p \in Proc, SigInt(p) PROVE Goal
  BY <1>18 DEF SigInt
<1>19. ASSUME NEW p \in Proc, SigHup(p) PROVE Goal
  BY <1>19 DEF SigHup
<1>20. ASSUME NEW p \in Proc, NEW how \in {"kill", "term"}, Die(p, how) PROVE Goal
  BY <1>20 DEF Die
<1>21. ASSUME NEW r \in Registry, RegistryCrash(r) \/ RegistryRestart(r) PROVE Goal
  BY <1>21 DEF RegistryCrash, RegistryRestart
<1>22. ASSUME EditConf PROVE Goal
  BY <1>22 DEF EditConf
<1>23. ASSUME UNCHANGED vars PROVE Goal
  BY <1>23 DEF vars
<1> HIDE DEF TypeOK, Goal
<1>24. Goal
  BY <1>1, <1>2, <1>3, <1>4, <1>5, <1>6, <1>7, <1>8, <1>9, <1>10, <1>11, <1>12, <1>13, <1>14, <1>15, <1>16, <1>17, <1>18, <1>19, <1>20, <1>21, <1>22, <1>23 DEF Next, MainNext, CtlNext, NetworkNext, SignalNext
<1> QED
  BY <1>24 DEF Goal

\* A process that boots among others of its name, and they, are not alone any more.
LEMMA SoloStep ==
  ASSUME TypeOK, \A p \in Proc : Threads(p) /\ ServerPhase(p) /\ Solo(p), [Next]_vars,
         NEW q \in Proc
  PROVE  Solo(q)'
<1>1. CASE \E b \in Proc : Boot(b)
  <2>1. PICK b \in Proc : Boot(b)
    BY <1>1
  <2>2. SUFFICES ASSUME alone'[q], Alive(q)', NEW r \in Proc \ {q}, NameOf[r] = NameOf[q]
                 PROVE  ~Alive(r)' /\ call'[r] = NoCall
    BY DEF Solo
  <2>3. alone'[q] <=> alone[q] /\ IF q = b THEN Sharing(b) = {} ELSE q \notin Sharing(b)
    BY <2>1 DEF Boot
  <2>4. call' = call /\ \A x \in Proc \ {b} : Alive(x)' <=> Alive(x)
    BY <2>1 DEF Boot, TypeOK, Alive
  <2>5. CASE q = b
    <3>1. ~Alive(r) /\ call[r] = NoCall
      BY <2>2, <2>3, <2>5 DEF Sharing
    <3> QED
      BY <2>4, <2>5, <3>1
  <2>6. CASE q # b
    <3>1. Alive(q) /\ alone[q] /\ q \notin Sharing(b)
      BY <2>2, <2>3, <2>4, <2>6
    <3>2. r # b
      BY <2>2, <2>6, <3>1 DEF Sharing
    <3>3. ~Alive(r) /\ call[r] = NoCall
      BY <2>2, <3>1 DEF Solo
    <3> QED
      BY <2>4, <3>2, <3>3
  <2> QED
    BY <2>5, <2>6
<1>2. CASE ~\E b \in Proc : Boot(b)
  <2>1. /\ alone' = alone
        /\ \A x \in Proc : /\ Alive(x)' => Alive(x)
                           /\ call'[x] # NoCall => call[x] # NoCall \/ Alive(x)
    <3>1. \A p \in Proc : ~Boot(p)
      BY <1>2
    <3> QED
      BY <3>1, OnlyBootWakes DEF Alive
  <2>2. SUFFICES ASSUME alone'[q], Alive(q)', NEW r \in Proc \ {q}, NameOf[r] = NameOf[q]
                 PROVE  ~Alive(r)' /\ call'[r] = NoCall
    BY DEF Solo
  <2>3. alone[q] /\ Alive(q)
    BY <2>1, <2>2 DEF Alive
  <2>4. ~Alive(r) /\ call[r] = NoCall
    BY <2>2, <2>3 DEF Solo
  <2> QED
    BY <2>1, <2>4 DEF Alive
<1> QED
  BY <1>1, <1>2

\* Only a request of the process itself changes its record.
LEMMA ListedStep ==
  ASSUME "restart" \notin Faults, TypeOK, NEW q \in Proc, Threads(q), ServerPhase(q),
         \A p \in Proc : CallPhase(p), Solo(q), Listed(q), [Next]_vars
  PROVE  Listed(q)'
<1> USE NameAssumption, NullAssumption
    DEF TypeOK, processVars, NoCall, Sent, Pending, Alive, Threads, ServerPhase, Running, Listed
<1>1. ASSUME NEW p \in Proc, Boot(p) PROVE Listed(q)'
  BY <1>1 DEF Boot, CallPhase
<1>24. ASSUME NEW p \in Proc, BootFails(p) PROVE Listed(q)'
  BY <1>24 DEF BootFails, CallPhase
<1>2. ASSUME NEW p \in Proc, RunBegins(p) PROVE Listed(q)'
  BY <1>2 DEF RunBegins, CallPhase
<1>3. ASSUME NEW p \in Proc, StartFails(p) PROVE Listed(q)'
  BY <1>3 DEF StartFails, CallPhase
<1>4. ASSUME NEW p \in Proc, BindAndRegister(p) PROVE Listed(q)'
  BY <1>4 DEF BindAndRegister, CallPhase
<1>5. ASSUME NEW p \in Proc, RegisterOk(p) PROVE Listed(q)'
  BY <1>5 DEF RegisterOk, CallPhase
<1>6. ASSUME NEW p \in Proc, RegisterFails(p) PROVE Listed(q)'
  BY <1>6 DEF RegisterFails, CallPhase
<1>7. ASSUME NEW p \in Proc, FetchServer(p) PROVE Listed(q)'
  BY <1>7 DEF FetchServer, CallPhase
<1>8. ASSUME NEW p \in Proc, StopListening(p) PROVE Listed(q)'
  BY <1>8 DEF StopListening, CallPhase
<1>9. ASSUME NEW p \in Proc, Exit(p) PROVE Listed(q)'
  BY <1>9 DEF Exit, CallPhase
<1>10. ASSUME NEW p \in Proc, TestShutdown(p) PROVE Listed(q)'
  BY <1>10 DEF TestShutdown, CallPhase
<1>11. ASSUME NEW p \in Proc, PollReload(p) PROVE Listed(q)'
  BY <1>11 DEF PollReload, CallPhase
<1>12. ASSUME NEW p \in Proc, Shutdown(p) PROVE Listed(q)'
  BY <1>12 DEF Shutdown, CallPhase, BeginDrain
<1>13. ASSUME NEW p \in Proc, DeregisterReturns(p) PROVE Listed(q)'
  BY <1>13 DEF DeregisterReturns, CallPhase, BeginDrain
<1>14. ASSUME NEW p \in Proc, Drained(p) PROVE Listed(q)'
  BY <1>14 DEF Drained, CallPhase
<1>15. ASSUME NEW p \in Proc, RegistryServes(p) PROVE Listed(q)'
  <2>1. UNCHANGED <<main, ctl, registered, home, alone>>
    BY <1>15 DEF RegistryServes
  <2>2. CASE q = p
    BY <1>15, <2>1, <2>2 DEF RegistryServes, CallPhase
  <2>3. CASE q # p
    <3>1. alone[q] /\ (main[q] = "register" \/ registered[q]) => NameOf[p] # NameOf[q]
      BY <1>15, <2>3 DEF RegistryServes, Solo
    <3>2. call'[q] = call[q]
      BY <1>15, <2>3 DEF RegistryServes
    <3>3. NameOf[p] # NameOf[q] => \A a \in Registry : store'[a][NameOf[q]] = store[a][NameOf[q]]
      BY <1>15 DEF RegistryServes
    <3>4. main[q] = "register" /\ call[q].phase = "applied" => call[q].at \in Registry
      BY CallAt DEF CallPhase
    <3>5. registered[q] => home[q] \in Registry
      OBVIOUS
    <3> QED
      BY <2>1, <3>1, <3>2, <3>3, <3>4, <3>5
  <2> QED
    BY <2>2, <2>3
<1>16. ASSUME NEW p \in Proc, RequestLost(p) PROVE Listed(q)'
  <2>1. UNCHANGED <<store, main, ctl, registered, home, alone>>
    BY <1>16 DEF RequestLost
  <2>2. CASE q = p /\ main[p] = "register"
    <3>1. call[p] \in Call
      BY <1>16, CallTyped DEF RequestLost
    <3>2. call'[p] = [call[p] EXCEPT !.phase = "failed"]
      BY <1>16, <2>2 DEF RequestLost
    <3>3. call'[p].phase = "failed"
      BY <3>1, <3>2 DEF Call
    <3> QED
      BY <2>1, <2>2, <3>3
  <2>3. CASE q # p
    BY <1>16, <2>1, <2>3 DEF RequestLost
  <2> QED
    BY <2>1, <2>2, <2>3
<1>17. ASSUME NEW p \in Proc, ReplyLost(p) PROVE Listed(q)'
  <2>1. UNCHANGED <<store, main, ctl, registered, home, alone>>
    BY <1>17 DEF ReplyLost
  <2>2. CASE q = p /\ main[p] = "register"
    <3>1. call[p] \in Call
      BY <1>17, CallTyped DEF ReplyLost
    <3>2. call'[p] = [call[p] EXCEPT !.phase = "failed"]
      BY <1>17, <2>2 DEF ReplyLost
    <3>3. call'[p].phase = "failed"
      BY <3>1, <3>2 DEF Call
    <3> QED
      BY <2>1, <2>2, <3>3
  <2>3. CASE q # p
    BY <1>17, <2>1, <2>3 DEF ReplyLost
  <2> QED
    BY <2>1, <2>2, <2>3
<1>18. ASSUME NEW p \in Proc, SigInt(p) PROVE Listed(q)'
  BY <1>18 DEF SigInt, CallPhase
<1>19. ASSUME NEW p \in Proc, SigHup(p) PROVE Listed(q)'
  BY <1>19 DEF SigHup, CallPhase
<1>20. ASSUME NEW p \in Proc, NEW how \in {"kill", "term"}, Die(p, how) PROVE Listed(q)'
  BY <1>20 DEF Die
<1>21. ASSUME NEW r \in Registry, RegistryCrash(r) \/ RegistryRestart(r) PROVE Listed(q)'
  BY <1>21 DEF RegistryCrash, RegistryRestart
<1>22. CASE EditConf
  BY <1>22 DEF EditConf
<1>23. CASE UNCHANGED vars
  BY <1>23 DEF vars
<1> HIDE DEF TypeOK
<1> QED
  BY <1>1, <1>2, <1>3, <1>4, <1>5, <1>6, <1>7, <1>8, <1>9, <1>10, <1>11, <1>12, <1>13, <1>14, <1>15, <1>16, <1>17, <1>18, <1>19, <1>20, <1>21, <1>22, <1>23, <1>24 DEF Next, MainNext, CtlNext, NetworkNext, SignalNext

\* registered_ tells the truth (server_registration.cpp:53 and 76), for any number
\* of processes, names and registries: while it is set and no deregister request is
\* out, the registry where the process registered has its record, unless a registry
\* crashed or another process used the name at the same time; earlier and later
\* incarnations do not disturb it.
THEOREM RegisteredListed == Spec => []RegisteredIsListed
<1> DEFINE Lists == /\ \A p \in Proc : Solo(p)
                    /\ "restart" \notin Faults => \A p \in Proc : Listed(p)
<1>1. Init => Lists
  BY DEF Init, Solo, Listed, Alive
<1>2. IInv /\ Lists /\ [Next]_vars => Lists'
  BY SoloStep, ListedStep DEF IInv
<1>3. IInv /\ Lists => RegisteredIsListed
  BY DEF IInv, TypeOK, ServerPhase, Listed, RegisteredIsListed
<1> QED
  BY <1>1, <1>2, <1>3, Inductive, PTL DEF Spec
=============================================================================
