---------------------------- MODULE ChannelCache ----------------------------
(***************************************************************************)
(* The channel that BrowseClient, RankingClient and VideoClient cache and  *)
(* that all calls of a process share (Impl::ConnectLocked and Browse, Rank *)
(* and Fetch, which differ only in the RPC).  A call resolves an address,  *)
(* takes the cached channel if it leads there and replaces it otherwise,   *)
(* waits for the connection with a deadline and drops the channel when the *)
(* wait fails, provided it is still the cached one.                        *)
(*                                                                         *)
(* A Channel is an object: its identity can be used again once no          *)
(* shared_ptr refers to it.  The registry answers any listed address, the  *)
(* listing changes at any time, and any wait may succeed or time out.      *)
(***************************************************************************)
EXTENDS Naturals, FiniteSets

CONSTANTS Thread, Address, Channel,
          Null   \* no channel, no stub and no target

\* Every thread may hold a channel of its own while a new one is created.
ASSUME EnoughChannels == Cardinality(Channel) > Cardinality(Thread)
ASSUME NullAssumption == Null \notin Channel /\ Null \notin Address

VARIABLES
  listed,              \* the addresses the registry may answer
  target, cached, stub,   \* Impl: the address, the channel and the channel of the stub
  leadsTo,             \* where each channel object leads
  pc,                  \* where the call of each thread is
  resolved,            \* the address a call resolved
  chan, chanStub,      \* a call's copies of channel and stub
  failed               \* history: channels on which a wait timed out

implVars == <<target, cached, stub, leadsTo>>
vars == <<listed, implVars, pc, resolved, chan, chanStub, failed>>

-----------------------------------------------------------------------------
\* The objects that a shared_ptr keeps alive.
Referenced == {cached} \cup {chan[t] : t \in Thread}

\* The constructor connects if it can resolve the service.
Init ==
  /\ listed \in SUBSET Address
  /\ pc = [t \in Thread |-> "idle"]
  /\ resolved = [t \in Thread |-> Null]
  /\ chan = [t \in Thread |-> Null]
  /\ chanStub = [t \in Thread |-> Null]
  /\ failed = {}
  /\ \/ /\ target = Null /\ cached = Null /\ stub = Null
        /\ leadsTo = [c \in Channel |-> Null]
     \/ \E a \in listed, c \in Channel :
          /\ target = a /\ cached = c /\ stub = c
          /\ leadsTo = [d \in Channel |-> IF d = c THEN a ELSE Null]

\* The registry answers; a call that gets no answer, or finds no connect timeout
\* in its snapshot, returns before it touches the channel.
Resolve(t) ==
  /\ pc[t] = "idle"
  /\ \E a \in listed : resolved' = [resolved EXCEPT ![t] = a]
  /\ pc' = [pc EXCEPT ![t] = "connect"]
  /\ UNCHANGED <<listed, implVars, chan, chanStub, failed>>

\* Mutants of Reuse: without a look at the address, without a look at the channel.
ReuseAnyTarget(t) == cached # Null /\ UNCHANGED <<implVars, failed>>
ReuseUnchecked(t) == target = resolved[t] /\ UNCHANGED <<implVars, failed>>

\* ConnectLocked keeps a channel that leads to the resolved address.
Reuse(t) ==
  /\ cached # Null
  /\ target = resolved[t]
  /\ UNCHANGED <<implVars, failed>>

\* Otherwise a new channel and stub take the place of the cached ones.
Create(t, c) ==
  /\ ~(cached # Null /\ target = resolved[t])
  /\ c \notin Referenced
  /\ target' = resolved[t]
  /\ cached' = c
  /\ stub' = c
  /\ leadsTo' = [leadsTo EXCEPT ![c] = resolved[t]]
  /\ failed' = failed \ {c}

\* ConnectLocked and the copies of target, channel and stub, under mu.
Connect(t) ==
  /\ pc[t] = "connect"
  /\ Reuse(t) \/ \E c \in Channel : Create(t, c)
  /\ chan' = [chan EXCEPT ![t] = cached']
  /\ chanStub' = [chanStub EXCEPT ![t] = stub']
  /\ pc' = [pc EXCEPT ![t] = "wait"]
  /\ UNCHANGED <<listed, resolved>>

\* The server accepted the connection before the deadline.
WaitSucceeds(t) ==
  /\ pc[t] = "wait"
  /\ pc' = [pc EXCEPT ![t] = "rpc"]
  /\ UNCHANGED <<listed, implVars, resolved, chan, chanStub, failed>>

\* The deadline passes.
WaitTimesOut(t) ==
  /\ pc[t] = "wait"
  /\ pc' = [pc EXCEPT ![t] = "drop"]
  /\ failed' = failed \cup {chan[t]}
  /\ UNCHANGED <<listed, implVars, resolved, chan, chanStub>>

Return(t) ==
  /\ pc' = [pc EXCEPT ![t] = "idle"]
  /\ resolved' = [resolved EXCEPT ![t] = Null]
  /\ chan' = [chan EXCEPT ![t] = Null]
  /\ chanStub' = [chanStub EXCEPT ![t] = Null]

\* Mutants of Drop: the channel stays, or goes even if it is another call's.
KeepFailed(t) ==
  /\ pc[t] = "drop"
  /\ Return(t)
  /\ UNCHANGED <<listed, implVars, failed>>

DropWhatever(t) ==
  /\ pc[t] = "drop"
  /\ cached' = Null
  /\ stub' = Null
  /\ Return(t)
  /\ UNCHANGED <<listed, target, leadsTo, failed>>

\* Only the channel the call waited for is dropped; target stays.
Drop(t) ==
  /\ pc[t] = "drop"
  /\ LET mine == cached = chan[t] IN
     /\ cached' = IF mine THEN Null ELSE cached
     /\ stub' = IF mine THEN Null ELSE stub
  /\ Return(t)
  /\ UNCHANGED <<listed, target, leadsTo, failed>>

\* The RPC ends well or badly; the channel stays cached either way.
RpcReturns(t) ==
  /\ pc[t] = "rpc"
  /\ Return(t)
  /\ UNCHANGED <<listed, implVars, failed>>

\* Servers come, go and register.
EnvironmentChanges ==
  /\ listed' \in SUBSET Address
  /\ UNCHANGED <<implVars, pc, resolved, chan, chanStub, failed>>

CallNext(t) ==
  \/ Connect(t) \/ WaitSucceeds(t) \/ WaitTimesOut(t) \/ Drop(t) \/ RpcReturns(t)

Next == EnvironmentChanges \/ \E t \in Thread : Resolve(t) \/ CallNext(t)

Spec == Init /\ [][Next]_vars

\* Threads run, a wait has a deadline and a server answers: without the last a
\* call may hang, as RPCs have no deadline.  Clients keep calling.
Fairness == \A t \in Thread : WF_vars(CallNext(t)) /\ WF_vars(Resolve(t))

FairSpec == Spec /\ Fairness

-----------------------------------------------------------------------------
TypeOK ==
  /\ listed \subseteq Address
  /\ target \in Address \cup {Null}
  /\ cached \in Channel \cup {Null}
  /\ stub \in Channel \cup {Null}
  /\ leadsTo \in [Channel -> Address \cup {Null}]
  /\ pc \in [Thread -> {"idle", "connect", "wait", "drop", "rpc"}]
  /\ resolved \in [Thread -> Address \cup {Null}]
  /\ chan \in [Thread -> Channel \cup {Null}]
  /\ chanStub \in [Thread -> Channel \cup {Null}]
  /\ failed \subseteq Channel

\* Whatever the other threads do to the cache, a call waits on and sends its RPC
\* over a channel to the address it resolved itself (browse_client.cpp:95-103
\* copies under the lock), with the stub of that channel.
CallsGoWhereResolved ==
  \A t \in Thread : pc[t] \in {"wait", "drop", "rpc"} =>
    chan[t] # Null /\ chanStub[t] = chan[t] /\ leadsTo[chan[t]] = resolved[t]

\* A channel on which a wait failed is handed out again only until the thread
\* that waited drops it (browse_client.cpp:113-122): an address that failed is
\* retried on a new channel.
FailedChannelsGo ==
  cached \in failed => \E t \in Thread : pc[t] = "drop" /\ chan[t] = cached

\* A failed wait never costs another call its channel: the cached channel goes
\* only if a wait on that very channel failed (browse_client.cpp:117), even
\* though the comparison is one of addresses in memory.
OnlyFailedAreDropped ==
  [][cached' = Null => cached = Null \/ cached \in failed]_vars

\* A new address reaches all calls: once the registry lists one address only, the
\* cache comes to that address and stays there, in spite of the calls that
\* resolved before.
CacheConverges ==
  \A a \in Address : <>[](listed = {a}) => <>[](target = a)
=============================================================================
