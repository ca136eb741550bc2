------------------------- MODULE RegistryHttpProofs -------------------------
(***************************************************************************)
(* The process of the name service keeps its type and is ready only when   *)
(* bound; an acknowledged register request is in the book as it was sent;  *)
(* and the calls of its clients take effect as RegistryCalls says: for any *)
(* clients, requests and addresses.                                        *)
(***************************************************************************)
EXTENDS RegistryHttp, SequenceTheorems, TLAPS

-----------------------------------------------------------------------------
(* The inductive invariant *)

\* What the main thread knows of the serving thread.
Threads ==
  /\ main = "down" <=> loop = "down"
  /\ main \in {"serving", "returned"} => loop \in {"accept", "read", "answer", "closed"}

\* A process between two calls has no connection and owes nothing.
IdleOwesNothing ==
  \A c \in Client : client[c] = "idle" =>
    conn[c] = "none" /\ arrived[c] = "nothing" /\ status[c] = "sent"

\* A call asks for something the process asks for, and tried a connection.
Calling ==
  \A c \in Client : client[c] # "idle" => request[c] \in Asks[c] /\ conn[c] # "none"

\* A request is handled at most once: as long as its connection is open, that is so
\* only between the two steps of the thread that serves it.
AnsweredOnce ==
  \A c \in Client :
    /\ conn[c] = "answered" => status[c] # "sent"
    /\ conn[c] = "open" => (status[c] # "sent" <=> serving = c /\ loop = "answer")

\* Only a register request comes in pieces.
Pieces ==
  \A c \in Client : arrived[c] = "piece" => split[c] /\ request[c].op = "register"

\* A connection is in the backlog or served, and in one place only.
OnePlace ==
  /\ \A i \in 1..Len(backlog) : conn[backlog[i]] = "open" /\ backlog[i] # serving
  /\ \A i, j \in 1..Len(backlog) : backlog[i] = backlog[j] => i = j
  /\ serving # Null => conn[serving] = "open"

IInv ==
  TypeOK /\ Threads /\ IdleOwesNothing /\ Calling /\ AnsweredOnce /\ Pieces /\ OnePlace

-----------------------------------------------------------------------------
\* The backlog is a queue of clients; the end of a connection that was read and
\* a client that connects move it by one place.
LEMMA Queue ==
  ASSUME backlog \in Seq(Client)
  PROVE  /\ Len(backlog) \in Nat
         /\ \A i \in 1..Len(backlog) : backlog[i] \in Client
         /\ \A c \in Client :
              /\ Append(backlog, c) \in Seq(Client)
              /\ Len(Append(backlog, c)) = Len(backlog) + 1
              /\ \A i \in 1..Len(backlog) : Append(backlog, c)[i] = backlog[i]
              /\ Append(backlog, c)[Len(backlog) + 1] = c
         /\ backlog # <<>> =>
              /\ Len(backlog) > 0
              /\ Head(backlog) = backlog[1]
              /\ Tail(backlog) \in Seq(Client)
              /\ Len(Tail(backlog)) = Len(backlog) - 1
              /\ \A i \in 1..(Len(backlog) - 1) : Tail(backlog)[i] = backlog[i + 1]
<1>1. \A c \in Client :
        /\ Append(backlog, c) \in Seq(Client)
        /\ Len(Append(backlog, c)) = Len(backlog) + 1
        /\ \A i \in 1..Len(backlog) : Append(backlog, c)[i] = backlog[i]
        /\ Append(backlog, c)[Len(backlog) + 1] = c
  BY AppendProperties
<1>2. /\ Len(backlog) \in Nat
      /\ \A i \in 1..Len(backlog) : backlog[i] \in Client
  BY LenProperties, ElementOfSeq
<1>3. ASSUME backlog # <<>>
      PROVE  /\ Len(backlog) > 0
             /\ Head(backlog) = backlog[1]
             /\ Tail(backlog) \in Seq(Client)
             /\ Len(Tail(backlog)) = Len(backlog) - 1
             /\ \A i \in 1..(Len(backlog) - 1) : Tail(backlog)[i] = backlog[i + 1]
  <2>1. Len(backlog) > 0
    BY <1>3, EmptySeq, <1>2
  <2> QED
    BY <1>3, <2>1, HeadTailProperties
<1> QED
  BY <1>1, <1>2, <1>3

-----------------------------------------------------------------------------
\* No step puts a connection in two places: only a process without one connects,
\* and only the connection that is served is answered.
LEMMA PlaceStep ==
  ASSUME TypeOK, IdleOwesNothing, OnePlace, [Next]_vars
  PROVE  OnePlace'
<1> DEFINE conns == {"none", "open", "answered", "reset"}
<1>1. /\ conn \in [Client -> conns]
      /\ serving \in Client \cup {Null}
      /\ backlog \in Seq(Client)
  BY DEF TypeOK
<1>2. /\ Len(backlog) \in Nat
      /\ \A i \in 1..Len(backlog) : backlog[i] \in Client
  BY <1>1, Queue
<1>3. ASSUME UNCHANGED <<conn, serving, backlog>>
      PROVE  OnePlace'
  BY <1>3 DEF OnePlace
<1>4. ASSUME NEW c \in Client, NEW r \in Asks[c], Connect(c, r)
      PROVE  OnePlace'
  <2>1. conn[c] = "none"
    BY <1>4 DEF Connect, IdleOwesNothing
  <2>2. CASE Listening
    <3>1. conn' = [conn EXCEPT ![c] = "open"] /\ backlog' = Append(backlog, c) /\ serving' = serving
      BY <1>4, <2>2 DEF Connect
    <3>2. /\ Len(backlog') = Len(backlog) + 1
          /\ \A i \in 1..Len(backlog) : backlog'[i] = backlog[i]
          /\ backlog'[Len(backlog) + 1] = c
      BY <1>1, <3>1, Queue
    <3>3. c # serving /\ \A i \in 1..Len(backlog) : backlog[i] # c
      BY <2>1, NullAssumption DEF OnePlace
    <3>4. /\ \A i \in 1..(Len(backlog) + 1) : conn'[backlog'[i]] = "open" /\ backlog'[i] # serving'
          /\ \A i, j \in 1..(Len(backlog) + 1) : backlog'[i] = backlog'[j] => i = j
      BY <1>1, <1>2, <3>1, <3>2, <3>3 DEF OnePlace
    <3> QED
      BY <1>1, <3>1, <3>2, <3>3, <3>4 DEF OnePlace
  <2>3. CASE ~Listening
    BY <1>1, <1>2, <1>4, <2>1, <2>3, NullAssumption DEF Connect, OnePlace
  <2> QED
    BY <2>2, <2>3
<1>5. ASSUME NEW c \in Client, NEW v, Return(c, v), conn[c] # "open"
      PROVE  OnePlace'
  BY <1>1, <1>2, <1>5, NullAssumption DEF Return, loopVars, OnePlace
<1>6. ASSUME Accept PROVE OnePlace'
  <2>1. /\ serving' = backlog[1]
        /\ Len(backlog) > 0
        /\ Len(backlog') = Len(backlog) - 1
        /\ \A i \in 1..(Len(backlog) - 1) : backlog'[i] = backlog[i + 1]
        /\ conn' = conn
    BY <1>1, <1>6, Queue DEF Accept
  <2> QED
    BY <1>2, <2>1 DEF OnePlace
<1>7. ASSUME AcceptFails \/ End PROVE OnePlace'
  <2>1. serving = Null \/ serving' = Null
    BY <1>7 DEF AcceptFails, End, TypeOK, Serving
  <2>2. Len(backlog') = 0 /\ serving' = Null
    BY <1>7, <2>1 DEF AcceptFails, End
  <2> QED
    BY <2>2 DEF OnePlace
<1>8. ASSUME NEW c \in Client, Answer(c) PROVE OnePlace'
  <2>1. /\ serving = c
        /\ serving' = Null
        /\ backlog' = backlog
        /\ conn' = [conn EXCEPT ![c] = "answered"]
    BY <1>8 DEF Answer
  <2> QED
    BY <1>1, <1>2, <2>1, NullAssumption DEF OnePlace
<1> QED
  <2>1. ASSUME NEW c \in Client, ClientStep(c) \/ Deliver(c) \/ DeliverPiece(c) \/ Die(c)
        PROVE  OnePlace'
    BY <2>1, <1>3, <1>5
       DEF ClientStep, WriteRequest, ReadAnswer, SeeReset, Deliver, DeliverPiece, Die, loopVars
  <2>2. ASSUME \/ \E c \in Client : ReadAndHandle(c)
               \/ Launch \/ Bind \/ SetReady \/ SeeReady \/ Signal \/ Leave \/ UNCHANGED vars
        PROVE  OnePlace'
    BY <2>2, <1>3 DEF ReadAndHandle, Launch, Bind, SetReady, SeeReady, Signal, Leave, vars, loopVars
  <2> QED
    BY <2>1, <2>2, <1>4, <1>6, <1>7, <1>8
       DEF Next, ServerStep, MainStep, GiveUp, Exit, Kill

-----------------------------------------------------------------------------
\* What HandleRequest leaves behind, whatever it was asked for and found.
LEMMA Handled ==
  ASSUME NEW c \in Client, HandleRequest(c)
  PROVE  \E v \in {"accepted", "refused"} : status' = [status EXCEPT ![c] = v]
BY DEF HandleRequest

\* Reading the answer and seeing a reset both return, on a connection that is not
\* open any more.
LEMMA Returned ==
  ASSUME NEW c \in Client, ReadAnswer(c) \/ SeeReset(c)
  PROVE  /\ client[c] # "idle"
         /\ conn[c] # "open"
         /\ \E v \in {"ok", "failed"} : Return(c, v)
BY DEF ReadAnswer, SeeReset

\* The inductive invariant holds initially.
LEMMA InitInv == Init => IInv
<1> SUFFICES ASSUME Init PROVE IInv
  OBVIOUS
<1>1. backlog \in Seq(Client) /\ Len(backlog) = 0
  BY EmptySeq DEF Init
<1>2. TypeOK
  BY <1>1 DEF Init, TypeOK, Serving
<1>3. OnePlace
  BY <1>1 DEF Init, OnePlace
<1> QED
  BY <1>2, <1>3 DEF Init, IInv, Threads, IdleOwesNothing, Calling, AnsweredOnce, Pieces

LEMMA NextInv == IInv /\ [Next]_vars => IInv'
<1> SUFFICES ASSUME IInv, [Next]_vars PROVE IInv'
  OBVIOUS
<1> USE NullAssumption, AskAssumption DEF storeVars, mainVars, loopVars, clientVars, Serving
<1>0. OnePlace'
  BY PlaceStep DEF IInv
<1>1. ASSUME NEW c \in Client, NEW r \in Asks[c], Connect(c, r)
      PROVE  IInv'
  <2>1. TypeOK'
    <3>1. backlog' \in Seq(Client)
      BY <1>1, Queue DEF IInv, TypeOK, Connect
    <3> QED
      BY <1>1, <3>1 DEF IInv, TypeOK, Connect
  <2>2. (Threads /\ IdleOwesNothing /\ Calling)'
    BY <1>1 DEF IInv, TypeOK, Threads, IdleOwesNothing, Calling, Connect
  <2>3. AnsweredOnce'
    <3>1. serving # c
      BY <1>1 DEF IInv, IdleOwesNothing, OnePlace, Connect
    <3> QED
      BY <1>1, <3>1 DEF IInv, TypeOK, IdleOwesNothing, AnsweredOnce, Connect
  <2>4. Pieces'
    BY <1>1 DEF IInv, TypeOK, IdleOwesNothing, Pieces, Connect
  <2> QED
    BY <1>0, <2>1, <2>2, <2>3, <2>4 DEF IInv
<1>2. ASSUME NEW c \in Client, WriteRequest(c) \/ Die(c)
      PROVE  IInv'
  <2>1. TypeOK'
    BY <1>2 DEF IInv, TypeOK, WriteRequest, Die
  <2>2. /\ client[c] # "idle" /\ client'[c] # "idle"
        /\ \A d \in Client \ {c} : client'[d] = client[d]
        /\ UNCHANGED <<mainVars, loopVars, request, conn, arrived, status, split>>
    BY <1>2 DEF IInv, TypeOK, WriteRequest, Die
  <2>3. (Threads /\ IdleOwesNothing /\ Calling /\ AnsweredOnce /\ Pieces)'
    BY <2>2 DEF IInv, Threads, IdleOwesNothing, Calling, AnsweredOnce, Pieces
  <2> QED
    BY <1>0, <2>1, <2>3 DEF IInv
<1>3. ASSUME NEW c \in Client, NEW v \in {"ok", "failed"},
             client[c] # "idle", conn[c] # "open", Return(c, v)
      PROVE  IInv'
  <2>1. TypeOK'
    BY <1>3 DEF IInv, TypeOK, Return
  <2>2. (Threads /\ IdleOwesNothing /\ Calling)'
    BY <1>3 DEF IInv, TypeOK, Threads, IdleOwesNothing, Calling, Return
  <2>3. AnsweredOnce'
    BY <1>3 DEF IInv, TypeOK, AnsweredOnce, Return
  <2>4. Pieces'
    BY <1>3 DEF IInv, TypeOK, Pieces, Return
  <2> QED
    BY <1>0, <2>1, <2>2, <2>3, <2>4 DEF IInv
<1>4. ASSUME NEW c \in Client, Deliver(c) PROVE IInv'
  <2>1. TypeOK'
    BY <1>4 DEF IInv, TypeOK, Deliver
  <2>2. (Threads /\ IdleOwesNothing /\ Calling /\ AnsweredOnce /\ Pieces)'
    BY <1>4 DEF IInv, TypeOK, Threads, IdleOwesNothing, Calling, AnsweredOnce, Pieces, Deliver, Written
  <2> QED
    BY <1>0, <2>1, <2>2 DEF IInv
<1>5. ASSUME NEW c \in Client, DeliverPiece(c) PROVE IInv'
  <2>1. TypeOK'
    BY <1>5 DEF IInv, TypeOK, DeliverPiece
  <2>2. (Threads /\ IdleOwesNothing /\ Calling /\ AnsweredOnce)'
    BY <1>5 DEF IInv, TypeOK, Threads, IdleOwesNothing, Calling, AnsweredOnce, DeliverPiece, Written
  <2>3. Pieces'
    BY <1>5 DEF IInv, TypeOK, Pieces, DeliverPiece
  <2> QED
    BY <1>0, <2>1, <2>2, <2>3 DEF IInv
<1>6. ASSUME Accept PROVE IInv'
  <2>1. TypeOK'
    <3>1. backlog' \in Seq(Client) /\ serving' \in Client
      <4>1. backlog \in Seq(Client) /\ backlog # <<>>
        BY <1>6 DEF IInv, TypeOK, Accept
      <4>2. Head(backlog) \in Client /\ Tail(backlog) \in Seq(Client)
        BY <4>1, HeadTailProperties
      <4> QED
        BY <1>6, <4>2 DEF Accept
    <3> QED
      BY <1>6, <3>1 DEF IInv, TypeOK, Accept
  <2>2. (Threads /\ IdleOwesNothing /\ Calling /\ AnsweredOnce /\ Pieces)'
    BY <1>6 DEF IInv, TypeOK, Threads, IdleOwesNothing, Calling, AnsweredOnce, Pieces, Accept
  <2> QED
    BY <1>0, <2>1, <2>2 DEF IInv
<1>7. ASSUME AcceptFails \/ End PROVE IInv'
  <2>1. /\ conn' = [c \in Client |-> IF conn[c] = "open" THEN "reset" ELSE conn[c]]
        /\ backlog' = <<>>
        /\ UNCHANGED <<clientVars, arrived, status, split>>
    BY <1>7 DEF AcceptFails, End
  <2>2. TypeOK'
    <3>1. /\ backlog' \in Seq(Client)
          /\ serving' = Null /\ ~Serving'
      BY <1>7, <2>1, EmptySeq DEF IInv, TypeOK, AcceptFails, End
    <3>2. /\ gShutdown' \in BOOLEAN /\ split' \in [Client -> BOOLEAN]
      BY <1>7 DEF IInv, TypeOK, AcceptFails, End
    <3>3. /\ main' \in {"down", "starting", "serving", "returned"}
          /\ loop' \in {"down", "closed"}
      BY <1>7 DEF IInv, TypeOK, AcceptFails, End
    <3> QED
      BY <2>1, <3>1, <3>2, <3>3 DEF IInv, TypeOK
  <2>3. Threads'
    BY <1>7 DEF IInv, Threads, AcceptFails, End
  <2>4. (IdleOwesNothing /\ Calling /\ AnsweredOnce /\ Pieces)'
    BY <2>1 DEF IInv, TypeOK, IdleOwesNothing, Calling, AnsweredOnce, Pieces
  <2> QED
    BY <1>0, <2>2, <2>3, <2>4 DEF IInv
<1>8. ASSUME NEW c \in Client, ReadAndHandle(c) PROVE IInv'
  <2>1. PICK v \in {"accepted", "refused"} : status' = [status EXCEPT ![c] = v]
    BY <1>8, Handled DEF ReadAndHandle
  <2>2. /\ loop = "read" /\ loop' = "answer" /\ serving = c /\ serving' = c
        /\ UNCHANGED <<mainVars, backlog, clientVars, conn, arrived, split>>
    BY <1>8 DEF ReadAndHandle
  <2>3. client[c] # "idle" /\ conn[c] = "open"
    BY <2>2 DEF IInv, OnePlace, IdleOwesNothing
  <2>4. TypeOK'
    BY <2>1, <2>2 DEF IInv, TypeOK
  <2>5. (Threads /\ IdleOwesNothing /\ Calling)'
    BY <2>1, <2>2, <2>3 DEF IInv, TypeOK, Threads, IdleOwesNothing, Calling
  <2>6. (AnsweredOnce /\ Pieces)'
    BY <2>1, <2>2, <2>3 DEF IInv, TypeOK, AnsweredOnce, Pieces
  <2> QED
    BY <1>0, <2>4, <2>5, <2>6 DEF IInv
<1>11. ASSUME NEW c \in Client, Answer(c) PROVE IInv'
  <2>1. /\ loop = "answer" /\ loop' = "accept" /\ serving = c /\ serving' = Null
        /\ conn' = [conn EXCEPT ![c] = "answered"]
        /\ UNCHANGED <<mainVars, backlog, clientVars, arrived, status, split>>
    BY <1>11 DEF Answer
  <2>2. client[c] # "idle" /\ status[c] # "sent"
    BY <2>1 DEF IInv, OnePlace, IdleOwesNothing, AnsweredOnce
  <2>3. TypeOK'
    BY <2>1 DEF IInv, TypeOK
  <2>4. (Threads /\ IdleOwesNothing /\ Calling)'
    BY <2>1, <2>2 DEF IInv, TypeOK, Threads, IdleOwesNothing, Calling
  <2>5. (AnsweredOnce /\ Pieces)'
    BY <2>1, <2>2 DEF IInv, TypeOK, AnsweredOnce, Pieces
  <2> QED
    BY <1>0, <2>3, <2>4, <2>5 DEF IInv
<1>9. ASSUME Launch \/ Bind \/ SetReady \/ SeeReady \/ Signal \/ Leave PROVE IInv'
  <2>1. gShutdown' \in BOOLEAN /\ split' \in [Client -> BOOLEAN]
    BY <1>9 DEF IInv, TypeOK, Launch, Bind, SetReady, SeeReady, Signal, Leave
  <2>2. TypeOK' /\ Threads'
    BY <1>9, <2>1 DEF IInv, TypeOK, Threads, Launch, Bind, SetReady, SeeReady, Ready, Signal, Leave
  <2>3. /\ UNCHANGED <<client, request, serving, conn, arrived, status, split>>
        /\ loop' = "answer" <=> loop = "answer"
    BY <1>9 DEF IInv, Threads, Launch, Bind, SetReady, SeeReady, Signal, Leave
  <2>4. (IdleOwesNothing /\ Calling /\ AnsweredOnce /\ Pieces)'
    BY <2>3 DEF IInv, IdleOwesNothing, Calling, AnsweredOnce, Pieces
  <2> QED
    BY <1>0, <2>2, <2>4 DEF IInv
<1>10. ASSUME UNCHANGED vars PROVE IInv'
  BY <1>0, <1>10 DEF vars, IInv, TypeOK, Threads, IdleOwesNothing, Calling, AnsweredOnce, Pieces
<1> QED
  <2>1. ASSUME NEW c \in Client, ReadAnswer(c) \/ SeeReset(c) PROVE IInv'
    BY <2>1, <1>3, Returned
  <2> QED
    BY <2>1, <1>1, <1>2, <1>4, <1>5, <1>6, <1>7, <1>8, <1>9, <1>10, <1>11
       DEF Next, ClientStep, ServerStep, MainStep, GiveUp, Exit, Kill

LEMMA Invariance == Spec => []IInv
BY InitInv, NextInv, PTL DEF Spec

\* The serving thread, the backlog and every call have their types, and a client
\* is served exactly while its request is read.
THEOREM TypeCorrect == Spec => []TypeOK
<1>1. IInv => TypeOK
  BY DEF IInv
<1> QED
  BY <1>1, Invariance, PTL

\* The main thread goes past its wait (registry_main.cpp:56-65) only if the
\* serving thread did bind and listen.
THEOREM ReadyWhenBound == Spec => []ReadyMeansBound
<1>1. IInv => ReadyMeansBound
  BY DEF IInv, Threads, ReadyMeansBound
<1> QED
  BY <1>1, Invariance, PTL

-----------------------------------------------------------------------------
(* An acknowledged registration is in the book *)

\* Only the handler of a request changes what the registry answered to it, from
\* "sent" to something else.
LEMMA WhoAnswers ==
  ASSUME IInv, Next, NEW c \in Client, status[c] = "sent", status'[c] = "accepted"
  PROVE  HandleRequest(c)
<1>1. ASSUME NEW d \in Client, ReadAndHandle(d), d # c
      PROVE  FALSE
  BY <1>1, Handled DEF ReadAndHandle, IInv, TypeOK
<1>2. ASSUME NEW d \in Client, NEW v, Return(d, v)
      PROVE  FALSE
  BY <1>2 DEF Return, IInv, TypeOK
<1>3. ASSUME status' = status
      PROVE  FALSE
  BY <1>3
<1>4. ASSUME NEW d \in Client,
             \/ ClientStep(d) \/ Deliver(d) \/ DeliverPiece(d) \/ Die(d)
             \/ \E r \in Asks[d] : Connect(d, r)
      PROVE  FALSE
  BY <1>2, <1>3, <1>4
     DEF ClientStep, WriteRequest, ReadAnswer, SeeReset, Deliver, DeliverPiece, Die, Connect
<1>5. ~AcceptFails /\ ~MainStep /\ ~Launch /\ ~Signal /\ ~Kill
  BY <1>3 DEF AcceptFails, MainStep, SeeReady, GiveUp, Leave, Exit, Launch, Signal, Kill, End
<1>6. ServerStep
  BY <1>4, <1>5 DEF Next
<1>7. \E d \in Client : ReadAndHandle(d)
  BY <1>3, <1>6 DEF ServerStep, Bind, SetReady, Accept, Answer
<1> QED
  BY <1>1, <1>7 DEF ReadAndHandle

LEMMA AckedStep ==
  ASSUME IInv, Next, NEW c \in Client,
         status[c] = "sent", status'[c] = "accepted", request[c].op = "register"
  PROVE  /\ request[c].key \in DOMAIN book'
         /\ \/ book'[request[c].key] = request[c].record
            \/ split[c] /\ book'[request[c].key] = [request[c].record EXCEPT !.address = Cut]
<1>1. HandleRequest(c)
  BY WhoAnswers
<1>2. CASE /\ arrived[c] = "all"
           /\ Calls!Perform(request[c])
  <2>1. Calls!Names!Upsert(request[c].key, request[c].record)
    BY <1>2 DEF Calls!Perform
  <2> QED
    BY <2>1 DEF Calls!Names!Upsert
<1>3. CASE /\ arrived[c] = "piece"
           /\ Names!Upsert(request[c].key, [request[c].record EXCEPT !.address = Cut])
  BY <1>3 DEF IInv, Pieces, Names!Upsert
<1>4. ASSUME status' = [status EXCEPT ![c] = "refused"]
      PROVE  FALSE
  BY <1>4 DEF IInv, TypeOK
<1> QED
  BY <1>1, <1>2, <1>3, <1>4 DEF HandleRequest

\* A register request that is acknowledged is in the book with the record it was
\* sent with, or with one that lacks only the end of its address, and that only if
\* the request came in pieces (registry_http_server.cpp:125-149, 254-284).
THEOREM AcknowledgedAsSent == Spec => AckedAsSent
<1> DEFINE Acked ==
      \A c \in Client :
        status[c] = "sent" /\ status'[c] = "accepted" /\ request[c].op = "register" =>
          /\ request[c].key \in DOMAIN book'
          /\ \/ book'[request[c].key] = request[c].record
             \/ split[c] /\ book'[request[c].key] = [request[c].record EXCEPT !.address = Cut]
<1>1. IInv /\ [Next]_vars => [Acked]_vars
  BY AckedStep DEF vars
<1> QED
  BY <1>1, Invariance, PTL DEF Spec, AckedAsSent

-----------------------------------------------------------------------------
(* The refinement *)

\* The call of each client, as RegistryCalls sees it.
TheCalls ==
  [c \in Client |->
     IF client[c] = "idle" THEN [phase |-> "idle"]
     ELSE [phase |-> status[c], request |-> request[c]]]

\* Whether a call is in progress, and how far it is, shows in its phase.
LEMMA PhaseOfCall ==
  ASSUME TypeOK, NEW c \in Client
  PROVE  /\ TheCalls[c] = Calls!Idle <=> client[c] = "idle"
         /\ client[c] # "idle" =>
              /\ TheCalls[c] = [phase |-> status[c], request |-> request[c]]
              /\ TheCalls[c].phase = status[c]
              /\ TheCalls[c].request = request[c]
<1>1. ASSUME client[c] = "idle"
      PROVE  TheCalls[c] = Calls!Idle
  BY <1>1 DEF TheCalls, Calls!Idle
<1>2. ASSUME client[c] # "idle"
      PROVE  /\ TheCalls[c] = [phase |-> status[c], request |-> request[c]]
             /\ TheCalls[c].phase = status[c]
             /\ TheCalls[c].request = request[c]
  BY <1>2 DEF TheCalls
<1>3. status[c] # "idle" /\ Calls!Idle.phase = "idle"
  BY DEF TypeOK, Calls!Idle
<1> QED
  BY <1>1, <1>2, <1>3

LEMMA InitRefines == Init => Calls!Init
BY DEF Init, Calls!Init, Calls!Idle, Names!Init, Calls!Names!Init, Names!NotFound, Calls!Names!NotFound

\* A client that connects invokes its request.
LEMMA ConnectInvokes ==
  ASSUME IInv, NEW c \in Client, NEW r \in Asks[c], Connect(c, r)
  PROVE  Calls!Invoke(c, r)
<1>1. TheCalls[c] = Calls!Idle
  BY PhaseOfCall DEF Connect, IInv
<1>2. TheCalls' = [TheCalls EXCEPT ![c] = [phase |-> "sent", request |-> r]]
  BY DEF Connect, IInv, TypeOK, IdleOwesNothing, TheCalls
<1>3. result' = [result EXCEPT ![c] = "none"] /\ UNCHANGED <<book, reply>>
  BY DEF Connect, storeVars
<1> QED
  BY <1>1, <1>2, <1>3 DEF Calls!Invoke, TheCalls

\* HttpRequest returns TRUE only after a 2xx was sent on its connection.
LEMMA ReturnReturns ==
  ASSUME IInv, NEW c \in Client, ReadAnswer(c) \/ SeeReset(c)
  PROVE  Calls!Return(c)
<1>1. PICK v \in {"ok", "failed"} : Return(c, v) /\ (v = "ok" => status[c] = "accepted")
  BY DEF ReadAnswer, SeeReset
<1>2. TheCalls[c] # Calls!Idle /\ TheCalls[c].phase = status[c]
  BY PhaseOfCall, Returned DEF IInv
<1>3. TheCalls' = [TheCalls EXCEPT ![c] = Calls!Idle]
  BY <1>1 DEF Return, IInv, TypeOK, TheCalls, Calls!Idle
<1>4. result' = [result EXCEPT ![c] = v] /\ UNCHANGED <<book, reply>>
  BY <1>1 DEF Return, storeVars
<1>5. \/ result' = [result EXCEPT ![c] = "failed"]
      \/ TheCalls[c].phase = "accepted" /\ result' = [result EXCEPT ![c] = "ok"]
  BY <1>1, <1>2, <1>4
<1> QED
  BY <1>2, <1>3, <1>4, <1>5 DEF Calls!Return, TheCalls

\* What is read of a request, all of it or a piece, takes effect once.
LEMMA HandlingTakesEffect ==
  ASSUME IInv, NEW c \in Client, ReadAndHandle(c)
  PROVE  Calls!TakeEffect(c) \/ Calls!TakeEffectCut(c) \/ Calls!Refuse(c)
<1>1. HandleRequest(c) /\ UNCHANGED <<client, request, result>>
  BY DEF ReadAndHandle, clientVars
<1>2. client[c] # "idle" /\ status[c] = "sent"
  BY NullAssumption DEF ReadAndHandle, IInv, TypeOK, OnePlace, IdleOwesNothing, AnsweredOnce
<1>3. /\ TheCalls[c] = [phase |-> status[c], request |-> request[c]]
      /\ TheCalls[c].phase = "sent"
      /\ TheCalls[c].request = request[c]
  BY <1>2, PhaseOfCall DEF IInv
<1>4. ASSUME NEW v, status' = [status EXCEPT ![c] = v]
      PROVE  TheCalls' = [TheCalls EXCEPT ![c].phase = v]
  <2>1. \A d \in Client \ {c} : TheCalls'[d] = TheCalls[d]
    BY <1>1, <1>4 DEF IInv, TypeOK, TheCalls
  <2>2. TheCalls'[c] = [phase |-> v, request |-> request[c]]
    BY <1>1, <1>2, <1>4 DEF IInv, TypeOK, TheCalls
  <2>3. [TheCalls[c] EXCEPT !.phase = v] = [phase |-> v, request |-> request[c]]
    BY <1>3
  <2>4. TheCalls' = [TheCalls EXCEPT ![c] = [phase |-> v, request |-> request[c]]]
    BY <2>1, <2>2 DEF TheCalls
  <2> QED
    BY <2>3, <2>4
<1>5. CASE /\ Calls!Perform(request[c])
           /\ status' = [status EXCEPT ![c] = IF Calls!Done THEN "accepted" ELSE "refused"]
  BY <1>1, <1>3, <1>4, <1>5 DEF Calls!TakeEffect, TheCalls
<1>6. CASE /\ arrived[c] = "piece"
           /\ Names!Upsert(request[c].key, [request[c].record EXCEPT !.address = Cut])
           /\ status' = [status EXCEPT ![c] = "accepted"]
  <2>1. TheCalls[c].request.op = "register"
    BY <1>3, <1>6 DEF IInv, Pieces
  <2>2. Calls!Names!Upsert(request[c].key, [request[c].record EXCEPT !.address = Cut])
    BY <1>6 DEF Names!Upsert, Calls!Names!Upsert
  <2> QED
    BY <1>1, <1>3, <1>4, <1>6, <2>1, <2>2 DEF Calls!TakeEffectCut, TheCalls
<1>7. CASE status' = [status EXCEPT ![c] = "refused"] /\ UNCHANGED storeVars
  BY <1>1, <1>3, <1>4, <1>7 DEF Calls!Refuse, TheCalls, storeVars
<1> QED
  BY <1>1, <1>5, <1>6, <1>7 DEF HandleRequest

\* The records go with the process, and with the store.
LEMMA EndForgets ==
  ASSUME End \/ Leave
  PROVE  Calls!Forget
<1>1. UNCHANGED <<client, request, status, result>>
  BY DEF End, Leave, clientVars
<1>2. TheCalls' = TheCalls
  BY <1>1 DEF TheCalls
<1>3. book' = [k \in {} |-> {}] /\ reply' = Names!NotFound
  BY DEF End, Leave
<1> QED
  BY <1>1, <1>2, <1>3 DEF Calls!Forget, TheCalls, Names!NotFound, Calls!Names!NotFound

\* Every step of the process, its clients and the network is a step of
\* RegistryCalls or leaves the book, the calls and their results as they are.
LEMMA StepRefines == IInv /\ [Next]_vars => [Calls!Next]_(Calls!vars)
<1> SUFFICES ASSUME IInv, [Next]_vars PROVE Calls!Next \/ UNCHANGED Calls!vars
  OBVIOUS
<1>1. ASSUME NEW c \in Client, NEW r \in Asks[c], Connect(c, r)
      PROVE  Calls!Next
  BY <1>1, ConnectInvokes, AskAssumption DEF Calls!Next
<1>2. ASSUME NEW c \in Client, ReadAnswer(c) \/ SeeReset(c)
      PROVE  Calls!Next
  BY <1>2, ReturnReturns DEF Calls!Next
<1>3. ASSUME NEW c \in Client, ReadAndHandle(c)
      PROVE  Calls!Next
  BY <1>3, HandlingTakesEffect DEF Calls!Next
<1>4. ASSUME End \/ Leave
      PROVE  Calls!Next
  BY <1>4, EndForgets DEF Calls!Next
<1>5. ASSUME UNCHANGED <<book, reply, request, status, result>>,
             \A c \in Client : client'[c] = "idle" <=> client[c] = "idle"
      PROVE  UNCHANGED Calls!vars
  <2>1. TheCalls' = TheCalls
    BY <1>5 DEF TheCalls
  <2> QED
    BY <1>5, <2>1 DEF Calls!vars, TheCalls
<1>6. ASSUME NEW c \in Client, WriteRequest(c) \/ Die(c)
      PROVE  UNCHANGED Calls!vars
  <2>1. \A d \in Client : client'[d] = "idle" <=> client[d] = "idle"
    BY <1>6 DEF WriteRequest, Die, IInv, TypeOK
  <2> QED
    BY <1>5, <1>6, <2>1 DEF WriteRequest, Die, storeVars
<1>7. ASSUME NEW c \in Client, Deliver(c) \/ DeliverPiece(c)
      PROVE  UNCHANGED Calls!vars
  BY <1>5, <1>7 DEF Deliver, DeliverPiece, storeVars, clientVars
<1>8. ASSUME \/ Accept \/ AcceptFails \/ Bind \/ SetReady \/ \E c \in Client : Answer(c)
             \/ SeeReady \/ Launch \/ Signal \/ UNCHANGED vars
      PROVE  UNCHANGED Calls!vars
  BY <1>5, <1>8 DEF Accept, AcceptFails, Answer, Bind, SetReady, SeeReady, Launch, Signal, vars,
                    storeVars, clientVars
<1> QED
  BY <1>1, <1>2, <1>3, <1>4, <1>6, <1>7, <1>8
     DEF Next, ClientStep, ServerStep, MainStep, GiveUp, Exit, Kill

\* HttpRequest and the accept loop are calls that take effect at most once, and
\* TRUE is returned only for one that did (http_util.cpp:83-127,
\* registry_http_server.cpp:245-284), whatever dies, is cut or is reset.
THEOREM ImplementsRegistryCalls == Spec => CallsTakeEffectOnce
BY InitRefines, StepRefines, Invariance, PTL DEF Spec, CallsTakeEffectOnce, Calls!Spec
=============================================================================
