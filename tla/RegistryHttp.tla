---------------------------- MODULE RegistryHttp ----------------------------
(***************************************************************************)
(* The process of the name service, registry_main.cpp, and its callers:    *)
(* the main thread that starts, waits for readiness and for a signal;      *)
(* RegistryHttpServer::Run, one thread that accepts a connection, reads,   *)
(* handles and answers it before it accepts the next; and HttpRequest,     *)
(* which every call of RegistryClient makes.  The store behind it is       *)
(* NameService, which RegistryStore implements.                            *)
(*                                                                         *)
(* The loop stops reading at the blank line after the headers, whatever    *)
(* Content-Length says: if the network delivers a register request in two  *)
(* pieces, its body may be cut.  Neither side has a timeout.               *)
(***************************************************************************)
EXTENDS Naturals, Sequences

CONSTANTS
  Client, Request, Service, Key, Kind, Address,
  Asks,       \* the requests each client makes
  Null,       \* no connection being served, no request being made
  Cut         \* what is left of an address whose port was cut

ASSUME NullAssumption == Null \notin Client /\ Null \notin Request
ASSUME CutAssumption == Cut \notin Address
ASSUME AskAssumption == Asks \in [Client -> SUBSET Request]

VARIABLES
  book, reply,   \* the store
  main,          \* where the main thread is
  gShutdown,     \* g_shutdown, set by SIGINT and SIGTERM
  loop,          \* what the serving thread is doing
  serving,       \* the client whose connection it reads
  backlog,       \* connections not yet accepted, oldest first
  client,        \* what each client is doing
  request,       \* what it asks for
  conn,          \* its connection
  arrived,       \* how much of its request the registry can read
  status,        \* what the registry answered
  result,        \* what HttpRequest returned
  split          \* history: the request came in pieces

storeVars == <<book, reply>>
mainVars == <<main, gShutdown>>
loopVars == <<loop, serving, backlog>>
clientVars == <<client, request, result>>
vars == <<storeVars, mainVars, loopVars, clientVars, conn, arrived, status, split>>

Names == INSTANCE NameService
Calls == INSTANCE RegistryCalls WITH
  call <- [c \in Client |->
             IF client[c] = "idle" THEN [phase |-> "idle"]
             ELSE [phase |-> status[c], request |-> request[c]]]

Serving == loop \in {"read", "answer"}
Listening == loop \in {"listen", "accept"} \/ Serving

\* Mutant of Ready: the flag is set when the thread starts.
ReadyAtOnce == loop # "down"

\* The flag ready, set after listen and never reset.
Ready == loop \in {"accept", "closed"} \/ Serving

Open == {c \in Client : conn[c] = "open"}

-----------------------------------------------------------------------------
Init ==
  /\ Names!Init
  /\ main = "down"
  /\ gShutdown = FALSE
  /\ loop = "down"
  /\ serving = Null
  /\ backlog = <<>>
  /\ client = [c \in Client |-> "idle"]
  /\ request = [c \in Client |-> Null]
  /\ conn = [c \in Client |-> "none"]
  /\ arrived = [c \in Client |-> "nothing"]
  /\ status = [c \in Client |-> "sent"]
  /\ result = [c \in Client |-> "none"]
  /\ split = [c \in Client |-> FALSE]

-----------------------------------------------------------------------------
(* HttpRequest *)

\* A new call: the connection waits in the backlog, or is refused.
Connect(c, r) ==
  /\ client[c] = "idle"
  /\ client' = [client EXCEPT ![c] = "connected"]
  /\ request' = [request EXCEPT ![c] = r]
  /\ result' = [result EXCEPT ![c] = "none"]
  /\ conn' = [conn EXCEPT ![c] = IF Listening THEN "open" ELSE "reset"]
  /\ backlog' = IF Listening THEN Append(backlog, c) ELSE backlog
  /\ UNCHANGED <<storeVars, mainVars, loop, serving, arrived, status, split>>

WriteRequest(c) ==
  /\ client[c] = "connected"
  /\ conn[c] = "open"
  /\ client' = [client EXCEPT ![c] = "waiting"]
  /\ UNCHANGED <<storeVars, mainVars, loopVars, request, result, conn, arrived, status, split>>

\* HttpRequest returns.
Return(c, value) ==
  /\ result' = [result EXCEPT ![c] = value]
  /\ client' = [client EXCEPT ![c] = "idle"]
  /\ request' = [request EXCEPT ![c] = Null]
  /\ conn' = [conn EXCEPT ![c] = "none"]
  /\ arrived' = [arrived EXCEPT ![c] = "nothing"]
  /\ status' = [status EXCEPT ![c] = "sent"]
  /\ split' = [split EXCEPT ![c] = FALSE]
  /\ UNCHANGED <<storeVars, mainVars, loopVars>>

\* The answer is read up to its end: true for a 2xx.  Unread pieces of the
\* request make the registry's close a reset, which may destroy the answer.
ReadAnswer(c) ==
  /\ client[c] = "waiting"
  /\ conn[c] = "answered"
  /\ \/ Return(c, IF status[c] = "accepted" THEN "ok" ELSE "failed")
     \/ split[c] /\ Return(c, "failed")

\* Mutant of SeeReset: a connection that breaks before the answer passes for one.
ResetIsOk(c) ==
  /\ client[c] \in {"connected", "waiting"}
  /\ conn[c] = "reset"
  /\ Return(c, "ok")

\* connect, write or read failed.
SeeReset(c) ==
  /\ client[c] \in {"connected", "waiting"}
  /\ conn[c] = "reset"
  /\ Return(c, "failed")

\* The process ends; what it wrote is still delivered.
Die(c) ==
  /\ client[c] \in {"connected", "waiting"}
  /\ client' = [client EXCEPT ![c] = IF client[c] = "waiting" THEN "dead after write" ELSE "dead"]
  /\ UNCHANGED <<storeVars, mainVars, loopVars, request, result, conn, arrived, status, split>>

Written(c) == client[c] \in {"waiting", "dead after write"}

-----------------------------------------------------------------------------
(* The network *)

Deliver(c) ==
  /\ conn[c] = "open"
  /\ Written(c)
  /\ arrived[c] # "all"
  /\ arrived' = [arrived EXCEPT ![c] = "all"]
  /\ UNCHANGED <<storeVars, mainVars, loopVars, clientVars, conn, status, split>>

\* Only a register request has a body that can come later than the headers.
DeliverPiece(c) ==
  /\ conn[c] = "open"
  /\ Written(c)
  /\ arrived[c] = "nothing"
  /\ request[c].op = "register"
  /\ arrived' = [arrived EXCEPT ![c] = "piece"]
  /\ split' = [split EXCEPT ![c] = TRUE]
  /\ UNCHANGED <<storeVars, mainVars, loopVars, clientVars, conn, status>>

-----------------------------------------------------------------------------
(* RegistryHttpServer::Run *)

Accept ==
  /\ loop = "accept"
  /\ backlog # <<>>
  /\ loop' = "read"
  /\ serving' = Head(backlog)
  /\ backlog' = Tail(backlog)
  /\ UNCHANGED <<storeVars, mainVars, clientVars, conn, arrived, status, split>>

\* Mutant of AcceptFails: the error is not looked at and the loop reads on.
ReadWithoutClient ==
  /\ loop = "accept"
  /\ loop' = "read"
  /\ UNCHANGED <<storeVars, mainVars, serving, backlog, clientVars, conn, arrived, status, split>>

\* Any error of accept but EINTR ends the loop for good: no descriptor is left, or
\* an error is pending on a connection.  The process stays, deaf.
AcceptFails ==
  /\ loop = "accept"
  /\ loop' = "closed"
  /\ backlog' = <<>>
  /\ conn' = [c \in Client |-> IF conn[c] = "open" THEN "reset" ELSE conn[c]]
  /\ UNCHANGED <<storeVars, mainVars, serving, clientVars, arrived, status, split>>

\* Mutant of HandleRequest: every request is acknowledged and none carried out.
AckOnly(c) ==
  /\ status' = [status EXCEPT ![c] = "accepted"]
  /\ UNCHANGED storeVars

\* HandleRequest, on what had arrived when the loop stopped reading: the whole
\* request, a register request without the end of its body, or nothing at all.
HandleRequest(c) ==
  \/ /\ arrived[c] = "all"
     /\ Calls!Perform(request[c])
     /\ status' = [status EXCEPT ![c] = IF Calls!Done THEN "accepted" ELSE "refused"]
  \/ /\ arrived[c] = "piece"
     /\ Names!Upsert(request[c].key, [request[c].record EXCEPT !.address = Cut])
     /\ status' = [status EXCEPT ![c] = "accepted"]
  \/ /\ arrived[c] # "all"
     /\ status' = [status EXCEPT ![c] = "refused"]
     /\ UNCHANGED storeVars

\* Mutant of ReadAndHandle: the end of the connection does not end the read.
ReadUntilBlankLine(c) ==
  /\ loop = "read"
  /\ serving = c
  /\ arrived[c] # "nothing"
  /\ HandleRequest(c)
  /\ loop' = "answer"
  /\ UNCHANGED <<mainVars, serving, backlog, clientVars, conn, arrived, split>>

\* The blank line was read, or the client is gone and nothing else will come.
ReadAndHandle(c) ==
  /\ loop = "read"
  /\ serving = c
  /\ arrived[c] # "nothing" \/ client[c] = "dead"
  /\ HandleRequest(c)
  /\ loop' = "answer"
  /\ UNCHANGED <<mainVars, serving, backlog, clientVars, conn, arrived, split>>

\* The response is written and the connection closed.
Answer(c) ==
  /\ loop = "answer"
  /\ serving = c
  /\ conn' = [conn EXCEPT ![c] = "answered"]
  /\ loop' = "accept"
  /\ serving' = Null
  /\ UNCHANGED <<storeVars, mainVars, backlog, clientVars, arrived, status, split>>

-----------------------------------------------------------------------------
(* main *)

\* The process ends, whatever its threads do; its records go with it.
End ==
  /\ main' = "down"
  /\ gShutdown' = FALSE
  /\ loop' = "down"
  /\ serving' = Null
  /\ backlog' = <<>>
  /\ conn' = [c \in Client |-> IF conn[c] = "open" THEN "reset" ELSE conn[c]]
  /\ book' = [k \in {} |-> {}]
  /\ reply' = Names!NotFound
  /\ UNCHANGED <<clientVars, arrived, status, split>>

\* Configuration read, handlers installed, serving thread started.
Launch ==
  /\ main = "down"
  /\ main' = "starting"
  /\ loop' = "bind"
  /\ UNCHANGED <<storeVars, gShutdown, serving, backlog, clientVars, conn, arrived, status, split>>

\* The serving thread has bound and listens, or gives up and ends.
Bind ==
  /\ loop = "bind"
  /\ loop' \in {"listen", "failed"}
  /\ UNCHANGED <<storeVars, mainVars, serving, backlog, clientVars, conn, arrived, status, split>>

SetReady ==
  /\ loop = "listen"
  /\ loop' = "accept"
  /\ UNCHANGED <<storeVars, mainVars, serving, backlog, clientVars, conn, arrived, status, split>>

SeeReady ==
  /\ main = "starting"
  /\ Ready
  /\ main' = "serving"
  /\ UNCHANGED <<storeVars, gShutdown, loopVars, clientVars, conn, arrived, status, split>>

\* 50 looks at ready were in vain: main returns while the thread is joinable,
\* so that its destructor ends the process.
GiveUp ==
  /\ main = "starting"
  /\ ~Ready
  /\ End

\* SIGINT or SIGTERM.
Signal ==
  /\ main # "down"
  /\ gShutdown' = TRUE
  /\ UNCHANGED <<storeVars, main, loopVars, clientVars, conn, arrived, status, split>>

\* Mutant of Leave: main joins the serving thread before it returns.
JoinAndLeave ==
  /\ main = "serving"
  /\ gShutdown
  /\ loop = "closed"
  /\ main' = "returned"
  /\ book' = [k \in {} |-> {}]
  /\ reply' = Names!NotFound
  /\ UNCHANGED <<gShutdown, loopVars, clientVars, conn, arrived, status, split>>

\* main detaches the serving thread and returns: the store is destroyed while the
\* thread may go on to use it.  What it finds is what libstdc++ leaves of the
\* table: no record; a new one may still be linked in, or end the process (Kill).
Leave ==
  /\ main = "serving"
  /\ gShutdown
  /\ main' = "returned"
  /\ book' = [k \in {} |-> {}]
  /\ reply' = Names!NotFound
  /\ UNCHANGED <<gShutdown, loopVars, clientVars, conn, arrived, status, split>>

Exit == main = "returned" /\ End

\* A crash.
Kill == main # "down" /\ End

-----------------------------------------------------------------------------
ClientStep(c) == WriteRequest(c) \/ ReadAnswer(c) \/ SeeReset(c)
ServerStep == Bind \/ SetReady \/ Accept \/ \E c \in Client : ReadAndHandle(c) \/ Answer(c)
MainStep == SeeReady \/ GiveUp \/ Leave \/ Exit

Next ==
  \/ \E c \in Client : \/ ClientStep(c) \/ Deliver(c) \/ DeliverPiece(c) \/ Die(c)
                       \/ \E r \in Asks[c] : Connect(c, r)
  \/ ServerStep \/ AcceptFails \/ MainStep
  \/ Launch \/ Signal \/ Kill

Spec == Init /\ [][Next]_vars

\* Clients write what they connected for and read the answer, the network
\* delivers, the threads of the registry run.  A client that connects and stays
\* silent would hold up everyone.
Fairness ==
  /\ WF_vars(ServerStep) /\ WF_vars(MainStep)
  /\ \A c \in Client : WF_vars(ClientStep(c)) /\ WF_vars(Deliver(c))

FairSpec == Spec /\ Fairness

-----------------------------------------------------------------------------
TypeOK ==
  /\ main \in {"down", "starting", "serving", "returned"}
  /\ gShutdown \in BOOLEAN
  /\ loop \in {"down", "bind", "failed", "listen", "accept", "read", "answer", "closed"}
  /\ serving \in Client \cup {Null}
  /\ serving # Null <=> Serving
  /\ backlog \in Seq(Client)
  /\ client \in [Client -> {"idle", "connected", "waiting", "dead", "dead after write"}]
  /\ request \in [Client -> Request \cup {Null}]
  /\ conn \in [Client -> {"none", "open", "answered", "reset"}]
  /\ arrived \in [Client -> {"nothing", "piece", "all"}]
  /\ status \in [Client -> {"sent", "accepted", "refused"}]
  /\ result \in [Client -> {"none", "ok", "failed"}]
  /\ split \in [Client -> BOOLEAN]

\* HttpRequest and the accept loop are calls in the sense of RegistryCalls
\* (http_util.cpp:83-127, registry_http_server.cpp:245-284): whatever dies, is
\* refused or is reset in between, an operation happens at most once and TRUE is
\* returned only if it happened.
CallsTakeEffectOnce == Calls!Spec

\* A register request that is acknowledged put the record it was sent with into
\* the book, under its name; if it came in pieces the end of the address may be
\* missing, but nothing else (registry_http_server.cpp:256-270).
AckedAsSent ==
  [][\A c \in Client :
       status[c] = "sent" /\ status'[c] = "accepted" /\ request[c].op = "register" =>
         /\ request[c].key \in DOMAIN book'
         /\ \/ book'[request[c].key] = request[c].record
            \/ split[c] /\ book'[request[c].key] = [request[c].record EXCEPT !.address = Cut]]_vars

\* A registry that says it is ready did bind (registry_main.cpp:56-65 looks at a
\* flag of the other thread): one that could not ends instead of waiting for a
\* signal without listening.
ReadyMeansBound == main \in {"serving", "returned"} => loop \notin {"bind", "failed"}

\* A signal ends the process, whenever it comes and whatever the serving thread
\* is blocked in (registry_main.cpp:67-77 detaches the thread).
SignalEndsRegistry == gShutdown ~> main = "down"

\* A call that was written returns, whichever other clients die in the backlog
\* and whenever the registry stops (registry_http_server.cpp:256-260: the end of
\* a dead client's connection ends the read).
EveryCallReturns ==
  \A c \in Client : client[c] = "waiting" ~> client[c] # "waiting"
=============================================================================
