------------------------- MODULE ChannelCacheProofs -------------------------
(***************************************************************************)
(* The safety of the cached channel, for any number of threads, addresses  *)
(* and channel objects.                                                    *)
(***************************************************************************)
EXTENDS ChannelCache, TLAPS

\* The cached channel leads to the cached target and the stub belongs to it.
CacheConsistent ==
  /\ cached # Null => leadsTo[cached] = target /\ stub = cached

\* A call about to drop a channel saw a wait on it fail: the object it refers to
\* cannot have become another channel meanwhile.
DropsFailed == \A t \in Thread : pc[t] = "drop" => chan[t] \in failed

IInv ==
  /\ TypeOK
  /\ CacheConsistent
  /\ CallsGoWhereResolved
  /\ DropsFailed
  /\ FailedChannelsGo

-----------------------------------------------------------------------------
\* The five parts of the invariant after each step, one step of a call at a time.
LEMMA ResolveKeeps ==
  ASSUME IInv, NEW t \in Thread, Resolve(t)
  PROVE  IInv'
BY DEF IInv, TypeOK, CacheConsistent, CallsGoWhereResolved, DropsFailed, FailedChannelsGo,
       Resolve, implVars

\* A reused channel leads to the target, which is the resolved address.
LEMMA ReuseKeeps ==
  ASSUME IInv, NEW t \in Thread, Connect(t), Reuse(t)
  PROVE  IInv'
BY NullAssumption
DEF IInv, TypeOK, CacheConsistent, CallsGoWhereResolved, DropsFailed, FailedChannelsGo,
    Connect, Reuse, implVars

\* A created channel is nobody's: redirecting its object disturbs no other call.
LEMMA CreateKeeps ==
  ASSUME IInv, NEW t \in Thread, NEW c \in Channel, Connect(t), Create(t, c)
  PROVE  IInv'
<1>1. /\ chan' = [chan EXCEPT ![t] = c]
      /\ chanStub' = [chanStub EXCEPT ![t] = c]
      /\ pc' = [pc EXCEPT ![t] = "wait"]
      /\ UNCHANGED <<listed, resolved>>
  BY DEF Connect, Create
<1>2. \A u \in Thread : chan[u] # c
  BY DEF Create, Referenced
<1>3. pc[t] = "connect" /\ resolved[t] \in Address \cup {Null}
  BY DEF Connect, IInv, TypeOK
<1>4. TypeOK'
  BY <1>1, <1>3 DEF IInv, TypeOK, Create
<1>5. CacheConsistent'
  BY <1>1, NullAssumption DEF IInv, TypeOK, CacheConsistent, Create
<1>6. CallsGoWhereResolved'
  BY <1>1, <1>2, NullAssumption DEF IInv, TypeOK, CallsGoWhereResolved, Create
<1>7. DropsFailed'
  BY <1>1, <1>2 DEF IInv, TypeOK, DropsFailed, Create
<1>8. FailedChannelsGo'
  BY DEF FailedChannelsGo, Create
<1> QED
  BY <1>4, <1>5, <1>6, <1>7, <1>8 DEF IInv

LEMMA WaitKeeps ==
  ASSUME IInv, NEW t \in Thread, WaitSucceeds(t) \/ WaitTimesOut(t)
  PROVE  IInv'
<1>1. CASE WaitSucceeds(t)
  BY <1>1
  DEF IInv, TypeOK, CacheConsistent, CallsGoWhereResolved, DropsFailed, FailedChannelsGo,
      WaitSucceeds, implVars
<1>2. CASE WaitTimesOut(t)
  <2>1. chan[t] \in Channel
    BY <1>2 DEF WaitTimesOut, IInv, TypeOK, CallsGoWhereResolved
  <2>2. TypeOK' /\ CacheConsistent' /\ CallsGoWhereResolved' /\ DropsFailed'
    BY <1>2, <2>1
    DEF IInv, TypeOK, CacheConsistent, CallsGoWhereResolved, DropsFailed, WaitTimesOut, implVars
  <2>3. FailedChannelsGo'
    BY <1>2 DEF IInv, TypeOK, FailedChannelsGo, WaitTimesOut, implVars
  <2> QED
    BY <2>2, <2>3 DEF IInv
<1> QED
  BY <1>1, <1>2

\* A call that ends gives up its references and, if it failed, its channel.
LEMMA ReturnKeeps ==
  ASSUME IInv, NEW t \in Thread, Drop(t) \/ RpcReturns(t)
  PROVE  IInv'
<1>1. CASE Drop(t)
  BY <1>1, NullAssumption
  DEF IInv, TypeOK, CacheConsistent, CallsGoWhereResolved, DropsFailed, FailedChannelsGo,
      Drop, Return
<1>2. CASE RpcReturns(t)
  BY <1>2, NullAssumption
  DEF IInv, TypeOK, CacheConsistent, CallsGoWhereResolved, DropsFailed, FailedChannelsGo,
      RpcReturns, Return, implVars
<1> QED
  BY <1>1, <1>2

LEMMA Inductive == Spec => []IInv
<1>1. Init => IInv
  BY NullAssumption
  DEF Init, IInv, TypeOK, CacheConsistent, CallsGoWhereResolved, DropsFailed, FailedChannelsGo
<1>2. IInv /\ [Next]_vars => IInv'
  <2> SUFFICES ASSUME IInv, [Next]_vars PROVE IInv'
    OBVIOUS
  <2>1. CASE EnvironmentChanges \/ UNCHANGED vars
    BY <2>1
    DEF IInv, TypeOK, CacheConsistent, CallsGoWhereResolved, DropsFailed, FailedChannelsGo,
        EnvironmentChanges, vars, implVars
  <2>2. ASSUME NEW t \in Thread, CallNext(t) PROVE IInv'
    BY <2>2, ReuseKeeps, CreateKeeps, WaitKeeps, ReturnKeeps DEF CallNext, Connect
  <2> QED
    BY <2>1, <2>2, ResolveKeeps DEF Next
<1> QED
  BY <1>1, <1>2, PTL DEF Spec

-----------------------------------------------------------------------------
\* The variables keep their types.
THEOREM TypeCorrect == Spec => []TypeOK
BY Inductive, PTL DEF IInv

\* Every call uses a channel to the address it resolved, with that channel's
\* stub, however the other calls replace the cached one (browse_client.cpp:95-103).
THEOREM CallsGo == Spec => []CallsGoWhereResolved
BY Inductive, PTL DEF IInv

\* A channel that failed stays cached only until it is dropped
\* (browse_client.cpp:113-122).
THEOREM FailedGo == Spec => []FailedChannelsGo
BY Inductive, PTL DEF IInv

\* The comparison of shared_ptrs under the lock drops no other call's channel
\* (browse_client.cpp:116-120).
THEOREM DropsOwn == Spec => OnlyFailedAreDropped
<1>1. IInv /\ [Next]_vars => [cached' = Null => cached = Null \/ cached \in failed]_vars
  <2> SUFFICES ASSUME IInv, Next, cached' = Null
               PROVE  cached = Null \/ cached \in failed
    BY DEF vars
  <2>1. ASSUME NEW t \in Thread, Drop(t) PROVE cached = Null \/ cached \in failed
    BY <2>1 DEF Drop, IInv, DropsFailed
  <2>2. ASSUME NEW t \in Thread, Connect(t) PROVE cached = Null \/ cached \in failed
    BY <2>2, NullAssumption DEF Connect, Reuse, Create, implVars
  <2>3. CASE UNCHANGED cached
    BY <2>3
  <2> QED
    BY <2>1, <2>2, <2>3
    DEF Next, CallNext, EnvironmentChanges, Resolve, WaitSucceeds, WaitTimesOut, RpcReturns,
        implVars
<1> QED
  BY <1>1, Inductive, PTL DEF Spec, OnlyFailedAreDropped
=============================================================================
