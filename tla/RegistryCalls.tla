--------------------------- MODULE RegistryCalls ---------------------------
(***************************************************************************)
(* What a call to the registry means to the process that makes it: the     *)
(* request takes effect on the book of names at most once and in one step, *)
(* a call that succeeds took effect before it returned, a call that fails  *)
(* may or may not have, and the request of a process that died may still   *)
(* take effect.  A register request of which the end was not read takes    *)
(* effect with a cut address.  The registry may forget all records at once *)
(* (a restart).                                                            *)
(***************************************************************************)
CONSTANTS Client, Request, Service, Key, Kind, Address, Cut

VARIABLES
  book, reply,   \* the name service
  call,          \* where the call of each client is
  result         \* what the last call of each client returned

Names == INSTANCE NameService

vars == <<book, reply, call, result>>

Idle == [phase |-> "idle"]

\* The operation a request asks for.
Perform(r) ==
  \/ r.op = "register" /\ Names!Upsert(r.key, r.record)
  \/ r.op = "deregister" /\ Names!Remove(r.key)
  \/ r.op = "resolve" /\ Names!Resolve(r.service)
  \/ r.op = "instances" /\ Names!ListInstances(r.service)
  \/ r.op = "all" /\ Names!ListAll

\* Whether the name service found what it was asked for.
Done == reply' \notin {[ok |-> FALSE], Names!NotFound}

Init ==
  /\ Names!Init
  /\ call = [c \in Client |-> Idle]
  /\ result = [c \in Client |-> "none"]

Invoke(c, r) ==
  /\ call[c] = Idle
  /\ call' = [call EXCEPT ![c] = [phase |-> "sent", request |-> r]]
  /\ result' = [result EXCEPT ![c] = "none"]
  /\ UNCHANGED <<book, reply>>

TakeEffect(c) ==
  /\ call[c].phase = "sent"
  /\ Perform(call[c].request)
  /\ call' = [call EXCEPT ![c].phase = IF Done THEN "accepted" ELSE "refused"]
  /\ UNCHANGED result

\* The body of a register request was cut.
TakeEffectCut(c) ==
  /\ call[c].phase = "sent"
  /\ call[c].request.op = "register"
  /\ Names!Upsert(call[c].request.key, [call[c].request.record EXCEPT !.address = Cut])
  /\ call' = [call EXCEPT ![c].phase = "accepted"]
  /\ UNCHANGED result

\* A request that is not understood has no effect.
Refuse(c) ==
  /\ call[c].phase = "sent"
  /\ call' = [call EXCEPT ![c].phase = "refused"]
  /\ UNCHANGED <<book, reply, result>>

Return(c) ==
  /\ call[c] # Idle
  /\ \/ result' = [result EXCEPT ![c] = "failed"]
     \/ call[c].phase = "accepted" /\ result' = [result EXCEPT ![c] = "ok"]
  /\ call' = [call EXCEPT ![c] = Idle]
  /\ UNCHANGED <<book, reply>>

Forget ==
  /\ book' = [k \in {} |-> {}]
  /\ reply' = Names!NotFound
  /\ UNCHANGED <<call, result>>

Next ==
  \/ \E c \in Client : \/ TakeEffect(c) \/ TakeEffectCut(c) \/ Refuse(c) \/ Return(c)
                       \/ \E r \in Request : Invoke(c, r)
  \/ Forget

Spec == Init /\ [][Next]_vars
=============================================================================
