-------------------------- MODULE DeploymentProofs --------------------------
(***************************************************************************)
(* What the scripts keep to whatever servers and registry do, for any      *)
(* number of services, names, ports and incarnations.                      *)
(***************************************************************************)
EXTENDS Deployment, TLAPS

\* A record of an instance was written by a server of that name.
RecordsAreOwn ==
  \A n \in Name : instance[n] # None =>
    NameOf[instance[n]] = n /\ proc[instance[n]] \in {"serving", "ended"}

\* The pid files name the living processes, but for those a stop has missed
\* and those the registry has lost.
PidsAreKnown ==
  \A p \in Proc : Alive(p) => p \in excused \/ pidFile[NameOf[p]] = p

Standing == RecordsAreOwn /\ PidsAreKnown /\ ServersStayListed

\* How far stop-all is with its list; there is none but during a stop, and no
\* record without a registry.
Stopping == script \in {"forget", "registry"}
Forgetting ==
  /\ ~Stopping => listed = NoRecords /\ left = {}
  /\ script = "registry" => left = {}
  /\ \A n \in Name : listed[n] # None =>
       /\ listed[n] \in Proc
       /\ proc[listed[n]] = "ended"
       /\ n \in left \/ instance[n] # listed[n]
  /\ \A s \in Service : listed[s] = None \/ entry[s] = None \/ s \in left
  /\ ~up => (\A n \in Name : instance[n] = None) /\ (\A s \in Service : entry[s] = None)

\* What the configuration in the making says is right from the entries on: they
\* can only be forgotten until the script ends.
Drafting ==
  /\ draft \in [listen : [Service -> Port \cup {None}], upstream : [Service -> SUBSET Proc]]
  /\ \A s \in Service : \A p \in draft.upstream[s] : ServiceOf[NameOf[p]] = s
  /\ script \in {"instances", "nginx"} => \A s \in Service : entry[s] \in {draft.listen[s], None}
  /\ script = "nginx" => \A s \in Service : draft.upstream[s] # {}
  /\ UpMeansReachable

IInv == TypeOK /\ Standing /\ Forgetting /\ Drafting

ServerActs(p) == Serve(p) \/ Die(p) \/ Close(p)

-----------------------------------------------------------------------------
\* Type correctness, one action at a time.

LEMMA SetUpTypes ==
  ASSUME TypeOK, RunNext
  PROVE  TypeOK'
<1>1. CASE StartRegistry
  BY <1>1 DEF TypeOK, Living, Alive, StartRegistry, Goto, procVars, nginxVars, setupVars, stopVars
<1>2. CASE WaitRegistry
  BY <1>2 DEF TypeOK, Living, Alive, WaitRegistry, Goto, registryVars, procVars, nginxVars, setupVars, stopVars
<1>3. CASE StartBg
  <2>1. UNCHANGED <<up, instance, entry, port, nginxs, nginxPid, mode, picked, listed, left, outcome, excused>>
    BY <1>3 DEF StartBg, registryVars, nginxVars, setupVars, stopVars
  <2>2. script' = "launch" /\ step' = step + 1
    BY <1>3 DEF StartBg, Goto
  <2>3. \/ UNCHANGED <<proc, pidFile>>
        \/ \E p \in Proc : /\ proc[p] = "off"
                           /\ proc' = [proc EXCEPT ![p] = "booting"]
                           /\ pidFile' = [pidFile EXCEPT ![NameOf[p]] = p]
    BY <1>3 DEF StartBg
  <2>4. CASE UNCHANGED <<proc, pidFile>>
    BY <2>1, <2>2, <2>4 DEF TypeOK, Living, Alive
  <2>5. ASSUME NEW p \in Proc, proc[p] = "off", proc' = [proc EXCEPT ![p] = "booting"],
               pidFile' = [pidFile EXCEPT ![NameOf[p]] = p]
        PROVE  TypeOK'
    <3>1. proc' \in [Proc -> {"off", "booting", "serving", "ended"}]
      BY <2>5 DEF TypeOK
    <3>2. pidFile' \in [Name -> Proc \cup {None}]
      BY <2>5 DEF TypeOK
    <3>3. (excused \subseteq Living)'
      BY <2>1, <2>5 DEF TypeOK, Living, Alive
    <3>4. (\A r, q \in Proc : proc[r] = "serving" /\ proc[q] = "serving" /\ port[r] = port[q] => r = q)'
      BY <2>1, <2>5 DEF TypeOK
    <3> QED
      BY <2>1, <2>2, <3>1, <3>2, <3>3, <3>4 DEF TypeOK
  <2> QED
    BY <2>3, <2>4, <2>5
<1>4. CASE Settle
  BY <1>4 DEF TypeOK, Living, Alive, Settle, Goto, registryVars, procVars, nginxVars, setupVars, stopVars
<1>5. CASE StartSolo \/ Fail
  BY <1>5 DEF TypeOK, Living, Alive, StartSolo, Fail, End, Goto, registryVars, procVars, nginxVars, NoPorts, NoRecords
<1>6. CASE PickPorts
  BY <1>6 DEF TypeOK, Living, Alive, PickPorts, Goto, Free, registryVars, procVars, nginxVars, stopVars
<1>7. CASE RegisterLb
  <2>1. Services[step] \in Service
    BY <1>7 DEF RegisterLb, TypeOK, Service, RangeOf
  <2> QED
    BY <1>7, <2>1 DEF TypeOK, Living, Alive, RegisterLb, Goto, procVars, nginxVars, setupVars, stopVars
<1>8. CASE LoadLbPorts
  BY <1>8 DEF TypeOK, Living, Alive, LoadLbPorts, Goto, NoPorts, registryVars, procVars, nginxVars, stopVars
<1>9. CASE ListInstances
  BY <1>9 DEF TypeOK, Living, Alive, ListInstances, Goto, registryVars, procVars, nginxVars, stopVars
<1>10. CASE WriteConf
  BY <1>10 DEF TypeOK, Living, Alive, WriteConf, Goto, registryVars, procVars, nginxVars, setupVars, stopVars
<1>11. CASE StartNginx \/ NginxTooSlow
  BY <1>11 DEF TypeOK, Living, Alive, StartNginx, NginxTooSlow, End, Goto, registryVars, procVars, NoPorts, NoRecords
<1> QED
  BY <1>1, <1>2, <1>3, <1>4, <1>5, <1>6, <1>7, <1>8, <1>9, <1>10, <1>11 DEF RunNext

LEMMA StopTypes ==
  ASSUME TypeOK, Forgetting, StopNext
  PROVE  TypeOK'
<1>1. CASE ListAndTerm
  <2>1. Ended({instance[n] : n \in Name} \cap Living) /\ excused' = excused \ {instance[n] : n \in Name}
    BY <1>1 DEF ListAndTerm
  <2>2. UNCHANGED <<up, instance, entry, pidFile, nginxs, nginxPid, mode, picked>>
    BY <1>1 DEF ListAndTerm, registryVars, nginxVars, setupVars
  <2>3. script' = "forget" /\ step' = 1 /\ outcome' = "none"
    BY <1>1 DEF ListAndTerm, Goto
  <2>4. /\ listed' = [k \in Name \cup Service |-> IF k \in Name THEN instance[k] ELSE entry[k]]
        /\ left' = {k \in DOMAIN listed' : listed'[k] # None}
    BY <1>1 DEF ListAndTerm
  <2>5. proc' \in [Proc -> {"off", "booting", "serving", "ended"}] /\ port' \in [Proc -> Port \cup {None}]
    BY <2>1 DEF TypeOK, Ended
  <2>6. (\A r, q \in Proc : proc[r] = "serving" /\ proc[q] = "serving" /\ port[r] = port[q] => r = q)'
    BY <2>1 DEF TypeOK, Ended
  <2>7. (excused \subseteq Living)'
    BY <2>1 DEF TypeOK, Ended, Living, Alive
  <2>8. (left \subseteq {k \in Name \cup Service : listed[k] # None})'
    BY <2>4
  <2> QED
    BY <2>2, <2>3, <2>5, <2>6, <2>7, <2>8 DEF TypeOK
<1>2. CASE ListNobody
  BY <1>2 DEF TypeOK, Living, Alive, ListNobody, Goto, registryVars, procVars, nginxVars, setupVars, stopVars
<1>3. ASSUME NEW k \in Name \cup Service, Forget(k) PROVE TypeOK'
  BY <1>3 DEF TypeOK, Living, Alive, Forget, procVars, nginxVars, setupVars
<1>4. CASE QuitNginx
  BY <1>4 DEF TypeOK, Living, Alive, QuitNginx, Goto, registryVars, procVars, setupVars, stopVars
<1>5. CASE StopRegistry
  <2>1. /\ UNCHANGED <<proc, port, nginxs, nginxPid>>
        /\ up' = FALSE /\ script' = "idle" /\ step' = 1 /\ outcome' = "stopped" /\ mode' = "lb"
        /\ left' = {} /\ picked' = NoPorts
        /\ excused' = excused \cup Living
    BY <1>5 DEF StopRegistry, End, Goto, procVars, nginxVars
  <2>2. /\ instance' = [n \in Name |-> None]
        /\ pidFile' = [n \in Name |-> None]
        /\ entry' = NoPorts
    BY <1>5 DEF StopRegistry
  <2>3. (excused \subseteq Living)'
    BY <2>1 DEF TypeOK, Living, Alive
  <2>4. (left \subseteq {k \in Name \cup Service : listed[k] # None})'
    BY <2>1
  <2>5. (/\ instance \in [Name -> Proc \cup {None}]
         /\ pidFile \in [Name -> Proc \cup {None}]
         /\ entry \in [Service -> Port \cup {None}]
         /\ picked \in [Service -> Port \cup {None}])'
    BY <2>1, <2>2 DEF NoPorts
  <2>6. (up \in BOOLEAN)'
    BY <2>1
  <2>7. (/\ script \in {"idle", "ping", "launch", "pick", "register", "instances", "nginx", "forget", "registry"}
         /\ mode \in {"lb", "solo"}
         /\ step \in Nat \ {0}
         /\ outcome \in {"none", "up", "solo", "failed", "stopped"})'
    BY <2>1
  <2>8. (/\ proc \in [Proc -> {"off", "booting", "serving", "ended"}]
         /\ port \in [Proc -> Port \cup {None}]
         /\ nginxPid \in nginxs \cup {None}
         /\ \A r, q \in Proc : proc[r] = "serving" /\ proc[q] = "serving" /\ port[r] = port[q] => r = q)'
    BY <2>1 DEF TypeOK
  <2> QED
    BY <2>3, <2>4, <2>5, <2>6, <2>7, <2>8 DEF TypeOK
<1> QED
  BY <1>1, <1>2, <1>3, <1>4, <1>5 DEF StopNext

LEMMA ServerTypes ==
  ASSUME TypeOK, NEW p \in Proc, ServerActs(p)
  PROVE  TypeOK'
<1> USE NameAssumption, NoneAssumption
<1>1. CASE Serve(p)
  <2>1. PICK a \in Free : port' = [port EXCEPT ![p] = a]
    BY <1>1 DEF Serve
  <2>2. proc' = [proc EXCEPT ![p] = "serving"] /\ instance' = [instance EXCEPT ![NameOf[p]] = p]
    BY <1>1 DEF Serve
  <2>3. UNCHANGED <<up, entry, pidFile, nginxs, nginxPid, script, mode, step, picked, listed, left, outcome>>
    BY <1>1 DEF Serve, nginxVars, scriptVars, setupVars, stopVars
  <2>4. a \in Port /\ \A q \in Proc : port[q] # a
    BY <2>1 DEF Free, Bound
  <2>5. (\A r, q \in Proc : proc[r] = "serving" /\ proc[q] = "serving" /\ port[r] = port[q] => r = q)'
    BY <2>1, <2>2, <2>4 DEF TypeOK
  <2>6. (excused \subseteq Living)'
    BY <1>1, <2>2 DEF TypeOK, Serve, Living, Alive
  <2>7. (instance \in [Name -> Proc \cup {None}] /\ port \in [Proc -> Port \cup {None}])'
    BY <2>1, <2>2, <2>4 DEF TypeOK
  <2>8. (proc \in [Proc -> {"off", "booting", "serving", "ended"}])'
    BY <2>2 DEF TypeOK
  <2> QED
    BY <2>3, <2>5, <2>6, <2>7, <2>8 DEF TypeOK
<1>2. CASE Die(p)
  BY <1>2 DEF TypeOK, Living, Alive, Die, Ended, registryVars, nginxVars, scriptVars, setupVars, stopVars
<1>3. CASE Close(p)
  BY <1>3 DEF TypeOK, Living, Alive, Close, Ended, nginxVars, scriptVars, setupVars, stopVars
<1> QED
  BY <1>1, <1>2, <1>3 DEF ServerActs

LEMMA TypesKeep ==
  ASSUME TypeOK, Forgetting, Next
  PROVE  TypeOK'
<1>1. CASE RegistryCrash
  BY <1>1 DEF TypeOK, Living, Alive, RegistryCrash, RegistryEnds, NoPorts, procVars, nginxVars, scriptVars,
              setupVars, stopVars
<1> QED
  BY <1>1, SetUpTypes, StopTypes, ServerTypes DEF Next, ServerNext, ServerActs
-----------------------------------------------------------------------------
\* The records and pid files of living servers.

\* What most steps of the scripts leave alone.
LEMMA QuietKeepsStanding ==
  ASSUME Standing, UNCHANGED <<instance, proc, pidFile, excused>>
  PROVE  Standing'
BY DEF Standing, RecordsAreOwn, PidsAreKnown, ServersStayListed, Alive

\* Only a name whose pid file names no living process is started again.
LEMMA StartKeepsStanding ==
  ASSUME TypeOK, Standing, StartBg
  PROVE  Standing'
<1> USE NameAssumption, NoneAssumption
<1>1. CASE UNCHANGED <<proc, pidFile>>
  BY <1>1, QuietKeepsStanding DEF StartBg, registryVars
<1>2. ASSUME NEW p \in Proc, proc[p] = "off",
             pidFile[NameOf[p]] # None => ~Alive(pidFile[NameOf[p]]),
             proc' = [proc EXCEPT ![p] = "booting"],
             pidFile' = [pidFile EXCEPT ![NameOf[p]] = p]
      PROVE  Standing'
  <2>1. UNCHANGED <<instance, excused>>
    BY DEF StartBg, registryVars
  <2>2. RecordsAreOwn'
    BY <1>2, <2>1 DEF Standing, RecordsAreOwn, TypeOK
  <2>3. PidsAreKnown'
    BY <1>2, <2>1 DEF Standing, PidsAreKnown, TypeOK, Alive
  <2>4. ServersStayListed'
    BY <1>2, <2>1 DEF Standing, ServersStayListed, TypeOK
  <2> QED
    BY <2>2, <2>3, <2>4 DEF Standing
<1> QED
  BY <1>1, <1>2 DEF StartBg

\* A server takes over only a name whose owner is excused, or makes it so.
LEMMA ServersKeepStanding ==
  ASSUME TypeOK, Standing, NEW p \in Proc, ServerActs(p)
  PROVE  Standing'
<1> USE NameAssumption, NoneAssumption
<1>1. CASE Serve(p)
  <2>1. /\ proc[p] = "booting"
        /\ proc' = [proc EXCEPT ![p] = "serving"]
        /\ instance' = [instance EXCEPT ![NameOf[p]] = p]
        /\ UNCHANGED pidFile
    BY <1>1 DEF Serve
  <2>2. excused' = IF p \in excused THEN excused \cup ({instance[NameOf[p]]} \cap Living) ELSE excused
    BY <1>1 DEF Serve
  <2>3. RecordsAreOwn'
    BY <2>1 DEF Standing, RecordsAreOwn, TypeOK
  <2>4. PidsAreKnown'
    BY <2>1, <2>2 DEF Standing, PidsAreKnown, TypeOK, Alive
  <2>5. ASSUME NEW q \in Proc, proc'[q] = "serving", q # p, q \notin excused'
        PROVE  instance'[NameOf[q]] = q
    <3>1. proc[q] = "serving" /\ q \notin excused
      BY <2>1, <2>2, <2>5 DEF TypeOK
    <3>2. instance[NameOf[q]] = q /\ pidFile[NameOf[q]] = q
      BY <3>1 DEF Standing, ServersStayListed, PidsAreKnown, Alive
    <3>3. NameOf[q] # NameOf[p]
      BY <2>1, <2>2, <2>5, <3>1, <3>2 DEF Standing, PidsAreKnown, Alive, Living
    <3> QED
      BY <2>1, <3>2, <3>3 DEF TypeOK
  <2>6. ServersStayListed'
    BY <2>1, <2>5 DEF ServersStayListed, TypeOK
  <2> QED
    BY <2>3, <2>4, <2>6 DEF Standing
<1>2. CASE Die(p)
  <2>1. /\ proc' = [q \in Proc |-> IF q = p THEN "ended" ELSE proc[q]]
        /\ excused' = excused \ {p}
        /\ UNCHANGED <<instance, pidFile>>
    BY <1>2 DEF Die, Ended, registryVars
  <2>2. Standing' <=> /\ RecordsAreOwn' /\ PidsAreKnown' /\ ServersStayListed'
    BY DEF Standing
  <2>3. RecordsAreOwn'
    BY <2>1 DEF Standing, RecordsAreOwn, TypeOK
  <2>4. PidsAreKnown' /\ ServersStayListed'
    BY <2>1 DEF Standing, PidsAreKnown, ServersStayListed, TypeOK, Alive
  <2> QED
    BY <2>2, <2>3, <2>4
<1>3. CASE Close(p)
  <2>1. /\ proc' = [q \in Proc |-> IF q = p THEN "ended" ELSE proc[q]]
        /\ UNCHANGED pidFile
        /\ \/ /\ instance' = [instance EXCEPT ![NameOf[p]] = None]
              /\ excused' = (excused \cup ({instance[NameOf[p]]} \cap Living)) \ {p}
           \/ instance' = instance /\ excused' = excused \ {p}
    BY <1>3 DEF Close, Ended
  <2>2. RecordsAreOwn'
    BY <2>1 DEF Standing, RecordsAreOwn, TypeOK
  <2>3. PidsAreKnown'
    BY <2>1 DEF Standing, PidsAreKnown, TypeOK, Alive
  <2>4. ServersStayListed'
    BY <2>1 DEF Standing, ServersStayListed, TypeOK, Alive, Living
  <2> QED
    BY <2>2, <2>3, <2>4 DEF Standing
<1> QED
  BY <1>1, <1>2, <1>3 DEF ServerActs
\* stop-all ends what it has listed, and excuses whom it deregisters unseen.
LEMMA StopKeepsStanding ==
  ASSUME TypeOK, Standing, StopNext
  PROVE  Standing'
<1> USE NameAssumption, NoneAssumption
<1>1. CASE ListAndTerm
  <2>1. /\ proc' = [q \in Proc |-> IF q \in {instance[n] : n \in Name} \cap Living THEN "ended" ELSE proc[q]]
        /\ excused' = excused \ {instance[n] : n \in Name}
        /\ UNCHANGED <<instance, pidFile>>
    BY <1>1 DEF ListAndTerm, Ended, registryVars
  <2>2. RecordsAreOwn'
    BY <2>1 DEF Standing, RecordsAreOwn, TypeOK
  <2>3. PidsAreKnown'
    BY <2>1 DEF Standing, PidsAreKnown, TypeOK, Alive, Living
  <2>4. ServersStayListed'
    BY <2>1 DEF Standing, ServersStayListed, TypeOK, Alive, Living
  <2> QED
    BY <2>2, <2>3, <2>4 DEF Standing
<1>2. CASE ListNobody \/ QuitNginx
  BY <1>2, QuietKeepsStanding DEF ListNobody, QuitNginx, registryVars, procVars
<1>3. ASSUME NEW k \in Name \cup Service, Forget(k) PROVE Standing'
  <2>1. /\ UNCHANGED <<proc, pidFile>>
        /\ \/ UNCHANGED <<instance, excused>>
           \/ /\ k \in Name
              /\ instance' = [instance EXCEPT ![k] = None]
              /\ excused' = excused \cup ({instance[k]} \cap Living)
    BY <1>3 DEF Forget, procVars
  <2>2. RecordsAreOwn'
    BY <2>1 DEF Standing, RecordsAreOwn, TypeOK
  <2>3. PidsAreKnown'
    BY <2>1 DEF Standing, PidsAreKnown, Alive
  <2>4. ServersStayListed'
    BY <2>1 DEF Standing, ServersStayListed, TypeOK, Alive, Living
  <2> QED
    BY <2>2, <2>3, <2>4 DEF Standing
<1>4. CASE StopRegistry
  <2>1. /\ instance' = [n \in Name |-> None]
        /\ excused' = excused \cup Living
        /\ UNCHANGED proc
    BY <1>4 DEF StopRegistry, procVars
  <2> QED
    BY <2>1 DEF Standing, RecordsAreOwn, PidsAreKnown, ServersStayListed, Alive, Living
<1> QED
  BY <1>1, <1>2, <1>3, <1>4 DEF StopNext

LEMMA StandingKeeps ==
  ASSUME TypeOK, Standing, Next
  PROVE  Standing'
<1>1. CASE RegistryCrash
  <2>1. /\ instance' = [n \in Name |-> None]
        /\ excused' = excused \cup {p \in Proc : proc[p] = "serving"}
        /\ UNCHANGED <<proc, pidFile>>
    BY <1>1 DEF RegistryCrash, RegistryEnds, procVars
  <2> QED
    BY <2>1 DEF Standing, RecordsAreOwn, PidsAreKnown, ServersStayListed, Alive
<1>2. ASSUME RunNext, ~StartBg PROVE Standing'
  BY <1>2, QuietKeepsStanding
  DEF RunNext, StartRegistry, WaitRegistry, Settle, StartSolo, PickPorts, RegisterLb, LoadLbPorts,
      ListInstances, WriteConf, StartNginx, NginxTooSlow, Fail, registryVars, procVars
<1> QED
  BY <1>1, <1>2, StartKeepsStanding, ServersKeepStanding, StopKeepsStanding DEF Next, ServerNext, ServerActs

-----------------------------------------------------------------------------
\* The list of stop-all.

LEMMA RunKeepsForgetting ==
  ASSUME TypeOK, Standing, Forgetting, RunNext
  PROVE  Forgetting'
<1>1. ~Stopping /\ ~Stopping'
  BY DEF Stopping, RunNext, StartRegistry, WaitRegistry, StartBg, Settle, StartSolo, PickPorts, RegisterLb,
         LoadLbPorts, ListInstances, WriteConf, StartNginx, NginxTooSlow, Fail, End, Goto
<1>2. listed = NoRecords /\ left = {}
  BY <1>1 DEF Forgetting
<1>3. listed' = NoRecords /\ left' = {}
  BY <1>2 DEF RunNext, StartRegistry, WaitRegistry, StartBg, Settle, StartSolo, PickPorts, RegisterLb,
         LoadLbPorts, ListInstances, WriteConf, StartNginx, NginxTooSlow, Fail, End, Goto, stopVars
<1>4. ~up' => ~up /\ UNCHANGED <<instance, entry>>
  BY DEF RunNext, StartRegistry, WaitRegistry, StartBg, Settle, StartSolo, PickPorts, RegisterLb,
         LoadLbPorts, ListInstances, WriteConf, StartNginx, NginxTooSlow, Fail, registryVars
<1> QED
  BY <1>1, <1>3, <1>4 DEF Forgetting, Stopping, NoRecords

\* A process that ended does not register again.
LEMMA ServersKeepForgetting ==
  ASSUME TypeOK, Forgetting, NEW p \in Proc, ServerActs(p)
  PROVE  Forgetting'
<1> USE NameAssumption, NoneAssumption
<1>1. UNCHANGED <<script, listed, left, entry>>
  BY DEF ServerActs, Serve, Die, Close, registryVars, scriptVars, stopVars
<1>2. \A q \in Proc : proc[q] = "ended" => proc'[q] = "ended"
  BY DEF ServerActs, Serve, Die, Close, Ended, TypeOK
<1>3. \A n \in Name : instance'[n] \in {instance[n], None} \/ (instance'[n] = p /\ proc[p] = "booting")
  <2>1. CASE Serve(p)
    BY <2>1 DEF Serve, TypeOK
  <2>2. CASE Die(p)
    BY <2>2 DEF Die, registryVars
  <2>3. CASE Close(p)
    BY <2>3 DEF Close, TypeOK
  <2> QED
    BY <2>1, <2>2, <2>3 DEF ServerActs
<1>4. up' = up /\ (~up => instance' = instance)
  BY DEF ServerActs, Serve, Die, Close, registryVars
<1> QED
  BY <1>1, <1>2, <1>3, <1>4 DEF Forgetting, Stopping

LEMMA StopKeepsForgetting ==
  ASSUME TypeOK, Standing, Forgetting, StopNext
  PROVE  Forgetting'
<1> USE NameAssumption, NoneAssumption
<1>1. CASE ListAndTerm
  <2>1. /\ listed' = [k \in Name \cup Service |-> IF k \in Name THEN instance[k] ELSE entry[k]]
        /\ left' = {k \in Name \cup Service : listed'[k] # None}
    BY <1>1 DEF ListAndTerm
  <2>2. script' = "forget" /\ UNCHANGED <<up, instance, entry>>
    BY <1>1 DEF ListAndTerm, Goto, registryVars
  <2>3. \A q \in Proc : (\E n \in Name : instance[n] = q) /\ proc[q] \in {"serving", "ended"} => proc'[q] = "ended"
    BY <1>1 DEF ListAndTerm, Ended, Living, Alive
  <2>4. \A n \in Name : listed'[n] # None => listed'[n] \in Proc /\ proc'[listed'[n]] = "ended" /\ n \in left'
    BY <2>1, <2>3 DEF Standing, RecordsAreOwn, TypeOK
  <2>5. \A s \in Service : listed'[s] = None \/ s \in left'
    BY <2>1
  <2> QED
    BY <2>2, <2>4, <2>5 DEF Forgetting, Stopping
<1>2. CASE ListNobody
  <2>1. script = "idle" /\ script' = "forget" /\ UNCHANGED <<up, instance, entry, proc, listed, left>>
    BY <1>2 DEF ListNobody, Goto, registryVars, procVars, stopVars
  <2> QED
    BY <2>1 DEF Forgetting, Stopping
<1>3. ASSUME NEW k \in Name \cup Service, Forget(k) PROVE Forgetting'
  <2>1. /\ script = "forget"
        /\ left' = left \ {k}
        /\ UNCHANGED <<up, script, listed, proc>>
    BY <1>3 DEF Forget, procVars
  <2>2. \A n \in Name : listed[n] # None =>
          n \in left' \/ instance'[n] # listed[n]
    <3> SUFFICES ASSUME NEW n \in Name, listed[n] # None
                 PROVE  n \in left' \/ instance'[n] # listed[n]
      OBVIOUS
    <3>1. CASE up
      BY <1>3, <2>1, <3>1 DEF Forget, Forgetting, TypeOK
    <3>2. CASE ~up
      BY <1>3, <2>1, <3>2 DEF Forget, Forgetting, TypeOK
    <3> QED
      BY <3>1, <3>2
  <2>3. \A s \in Service : listed[s] = None \/ entry'[s] = None \/ s \in left'
    BY <1>3, <2>1 DEF Forget, Forgetting, TypeOK
  <2>4. ~up => UNCHANGED <<instance, entry>>
    BY <1>3 DEF Forget
  <2> QED
    BY <2>1, <2>2, <2>3, <2>4 DEF Forgetting, Stopping
<1>4. CASE QuitNginx
  BY <1>4 DEF QuitNginx, Forgetting, Stopping, Goto, registryVars, procVars, stopVars
<1>5. CASE StopRegistry
  <2>1. /\ script' = "idle" /\ listed' = NoRecords /\ left' = {}
        /\ instance' = [n \in Name |-> None]
        /\ entry' = NoPorts
    BY <1>5 DEF StopRegistry, End, Goto
  <2> QED
    BY <2>1 DEF Forgetting, Stopping, NoRecords, NoPorts
<1> QED
  BY <1>1, <1>2, <1>3, <1>4, <1>5 DEF StopNext

LEMMA ForgettingKeeps ==
  ASSUME TypeOK, Standing, Forgetting, Next
  PROVE  Forgetting'
<1>1. CASE RegistryCrash
  BY <1>1, NoneAssumption DEF RegistryCrash, RegistryEnds, Forgetting, Stopping, NoPorts, procVars, scriptVars, stopVars
<1> QED
  BY <1>1, RunKeepsForgetting, StopKeepsForgetting, ServersKeepForgetting DEF Next, ServerNext, ServerActs

-----------------------------------------------------------------------------
\* The configuration.

\* Nothing happens to it.
LEMMA QuietKeepsDrafting ==
  ASSUME Drafting, UNCHANGED <<script, outcome, draft>>, nginxs \subseteq nginxs',
         \A s \in Service : entry'[s] \in {entry[s], None}
  PROVE  Drafting'
<1>1. UpMeansReachable'
  <2> SUFFICES ASSUME script = "idle", outcome = "up", NEW s \in Service, entry'[s] # None
               PROVE  \E c \in nginxs' : /\ c.listen[s] = entry'[s]
                                         /\ \E p \in c.upstream[s] : ServiceOf[NameOf[p]] = s
    BY DEF UpMeansReachable
  <2>1. entry'[s] = entry[s]
    OBVIOUS
  <2>2. PICK c \in nginxs : /\ c.listen[s] = entry[s]
                            /\ \E p \in c.upstream[s] : ServiceOf[NameOf[p]] = s
    BY <2>1 DEF Drafting, UpMeansReachable
  <2> QED
    BY <2>1, <2>2
<1>2. script \in {"instances", "nginx"} => \A s \in Service : entry'[s] \in {draft.listen[s], None}
  BY DEF Drafting
<1> QED
  BY <1>1, <1>2 DEF Drafting

\* The script ends without nginx.
LEMMA EndKeepsDrafting ==
  ASSUME NEW result \in {"solo", "failed", "stopped"}, End(result)
  PROVE  Drafting'
<1>1. script' = "idle" /\ outcome' = result /\ draft' = NoConf
  BY DEF End, Goto
<1> QED
  BY <1>1 DEF Drafting, UpMeansReachable, NoConf, NoPorts

\* A step to a place before the configuration is complete.
LEMMA MoveKeepsDrafting ==
  ASSUME Drafting, draft' = draft, script' \notin {"idle", "instances", "nginx"}
  PROVE  Drafting'
BY DEF Drafting, UpMeansReachable

LEMMA RunKeepsDrafting ==
  ASSUME TypeOK, Standing, Drafting, RunNext
  PROVE  Drafting'
<1> USE NameAssumption, NoneAssumption
<1>1. CASE StartRegistry \/ WaitRegistry \/ StartBg \/ Settle \/ PickPorts \/ RegisterLb
  BY <1>1, MoveKeepsDrafting
  DEF StartRegistry, WaitRegistry, StartBg, Settle, PickPorts, RegisterLb, Goto, setupVars
<1>2. CASE StartSolo \/ NginxTooSlow \/ Fail
  BY <1>2, EndKeepsDrafting DEF StartSolo, NginxTooSlow, Fail
<1>3. CASE LoadLbPorts
  <2>1. draft' = [draft EXCEPT !.listen = entry] /\ script' = "instances" /\ UNCHANGED entry
    BY <1>3 DEF LoadLbPorts, Goto, registryVars
  <2>2. entry \in [Service -> Port \cup {None}]
    BY DEF TypeOK
  <2>3. draft'.listen = entry /\ draft'.upstream = draft.upstream
    BY <2>1 DEF Drafting
  <2> QED
    BY <2>1, <2>2, <2>3 DEF Drafting, UpMeansReachable
<1>4. CASE ListInstances
  <2> DEFINE s == Services[step]
             ps == {instance[n] : n \in InstancesOf(s)}
  <2>1. draft' = [draft EXCEPT !.upstream[s] = ps] /\ script = "instances" /\ script' = "instances" /\ UNCHANGED entry
    BY <1>4 DEF ListInstances, Goto, registryVars
  <2>2. ps \subseteq Proc /\ \A p \in ps : ServiceOf[NameOf[p]] = s
    BY DEF InstancesOf, Standing, RecordsAreOwn, TypeOK
  <2>3. draft'.listen = draft.listen /\ draft'.upstream = [draft.upstream EXCEPT ![s] = ps]
    BY <2>1 DEF Drafting
  <2> HIDE DEF ps, s
  <2>4. /\ draft' \in [listen : [Service -> Port \cup {None}], upstream : [Service -> SUBSET Proc]]
        /\ \A t \in Service : \A p \in draft'.upstream[t] : ServiceOf[NameOf[p]] = t
    BY <2>1, <2>2, <2>3 DEF Drafting
  <2> QED
    BY <2>1, <2>3, <2>4 DEF Drafting, UpMeansReachable
<1>5. CASE WriteConf
  BY <1>5 DEF WriteConf, Goto, registryVars, setupVars, Drafting, UpMeansReachable
<1>6. CASE StartNginx
  <2>1. script = "nginx" /\ draft \in nginxs' /\ UNCHANGED entry /\ draft' = NoConf /\ script' = "idle"
    BY <1>6 DEF StartNginx, End, Goto, registryVars
  <2>2. \A s \in Service : entry[s] # None =>
          draft.listen[s] = entry[s] /\ \E p \in draft.upstream[s] : ServiceOf[NameOf[p]] = s
    BY <2>1 DEF Drafting
  <2> QED
    BY <2>1, <2>2 DEF Drafting, UpMeansReachable, NoConf, NoPorts
<1> QED
  BY <1>1, <1>2, <1>3, <1>4, <1>5, <1>6 DEF RunNext

LEMMA DraftingKeeps ==
  ASSUME TypeOK, Standing, Drafting, Next
  PROVE  Drafting'
<1>1. CASE RunNext
  BY <1>1, RunKeepsDrafting
<1>2. CASE StopRegistry
  BY <1>2, EndKeepsDrafting DEF StopRegistry
<1>3. CASE StopNext /\ ~StopRegistry
  BY <1>3, MoveKeepsDrafting
  DEF StopNext, ListAndTerm, ListNobody, Forget, QuitNginx, Goto, setupVars
<1>4. CASE RegistryCrash
  <2>1. UNCHANGED <<script, outcome, draft, nginxs>> /\ \A s \in Service : entry'[s] = None
    BY <1>4 DEF RegistryCrash, RegistryEnds, NoPorts, nginxVars, scriptVars, setupVars
  <2> QED
    BY <2>1, QuietKeepsDrafting
<1>5. CASE ServerNext
  <2>1. UNCHANGED <<script, outcome, draft, nginxs, entry>>
    BY <1>5 DEF ServerNext, Serve, Die, Close, registryVars, nginxVars, scriptVars, setupVars
  <2> QED
    BY <2>1, QuietKeepsDrafting
<1> QED
  BY <1>1, <1>2, <1>3, <1>4, <1>5 DEF Next

-----------------------------------------------------------------------------
LEMMA Inductive == Spec => []IInv
<1>1. Init => IInv
  <2> SUFFICES ASSUME Init PROVE IInv
    OBVIOUS
  <2>1. TypeOK
    <3>1. /\ instance \in [Name -> Proc \cup {None}]
          /\ pidFile \in [Name -> Proc \cup {None}]
          /\ entry \in [Service -> Port \cup {None}]
          /\ picked \in [Service -> Port \cup {None}]
          /\ proc \in [Proc -> {"off", "booting", "serving", "ended"}]
          /\ port \in [Proc -> Port \cup {None}]
      BY DEF Init, NoPorts
    <3>2. \A p, q \in Proc : proc[p] = "serving" /\ proc[q] = "serving" /\ port[p] = port[q] => p = q
      BY DEF Init
    <3>3. /\ up \in BOOLEAN
          /\ nginxPid \in nginxs \cup {None}
          /\ left \subseteq {k \in Name \cup Service : listed[k] # None}
          /\ excused \subseteq Living
      BY DEF Init
    <3>4. /\ script \in {"idle", "ping", "launch", "pick", "register", "instances", "nginx", "forget", "registry"}
          /\ mode \in {"lb", "solo"}
          /\ step \in Nat \ {0}
          /\ outcome \in {"none", "up", "solo", "failed", "stopped"}
      BY DEF Init
    <3> QED
      BY <3>1, <3>2, <3>3, <3>4 DEF TypeOK
  <2>2. Standing
    BY DEF Init, Standing, RecordsAreOwn, PidsAreKnown, ServersStayListed, Alive
  <2>3. Forgetting
    BY DEF Init, Forgetting, Stopping, NoPorts, NoRecords
  <2>4. Drafting
    BY DEF Init, Drafting, UpMeansReachable, NoConf, NoPorts
  <2> QED
    BY <2>1, <2>2, <2>3, <2>4 DEF IInv
<1>2. IInv /\ [Next]_vars => IInv'
  <2> SUFFICES ASSUME IInv, [Next]_vars PROVE IInv'
    OBVIOUS
  <2>1. CASE Next
    BY <2>1, TypesKeep, StandingKeeps, ForgettingKeeps, DraftingKeeps DEF IInv
  <2>2. CASE UNCHANGED vars
    BY <2>2 DEF IInv, TypeOK, Standing, RecordsAreOwn, PidsAreKnown, ServersStayListed, Forgetting, Stopping,
                Drafting, UpMeansReachable, Alive, Living, vars, registryVars, procVars, nginxVars, scriptVars, setupVars, stopVars
  <2> QED
    BY <2>1, <2>2
<1> QED
  BY <1>1, <1>2, PTL DEF Spec

\* Type correctness of the scripts and what they start
\* (run_servers.sh, stop_servers.sh, registry_ctl.cpp).
THEOREM TypeCorrect == Spec => []TypeOK
BY Inductive, PTL DEF IInv

\* A serving process keeps its record through any number of starts, unless the
\* registry ended, its name was deregistered or a stop has missed it
\* (start_bg, run_servers.sh:25).
THEOREM StayListed == Spec => []ServersStayListed
BY Inductive, PTL DEF IInv, Standing

\* After stop-all none of the records it listed is left and none of their
\* processes runs (registry_ctl.cpp:225-238).
THEOREM ListedAreForgotten == Spec => []StoppedAreForgotten
<1>1. IInv => StoppedAreForgotten
  BY DEF IInv, Forgetting, StoppedAreForgotten
<1> QED
  BY <1>1, Inductive, PTL

\* Once run_servers.sh has said that the load balancer is up, clients that
\* resolve an entry reach nginx, and it passes them to processes of that service
\* (registry_ctl.cpp:169-215), for any number of services and instances.
THEOREM UpIsReachable == Spec => []UpMeansReachable
BY Inductive, PTL DEF IInv, Drafting
=============================================================================
