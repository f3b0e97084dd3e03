------------------------- MODULE SyncTriggerProofs -------------------------
(* Proofs about SyncTrigger, for any number of objects and either mode. *)
EXTENDS SyncTrigger, TLAPS

-----------------------------------------------------------------------------
(***************************************************************************)
(* The inductive invariant.  The flags record which informers have synced;   *)
(* a pass under way and the initialized flag imply that both have; and       *)
(* initialized is what they amount to, but for OnServiceSynced looking at    *)
(* the flag that OnEndpointSlicesSynced does not set.                       *)
(***************************************************************************)
Synced(k) == runner[k] # "waiting"

FlagsMatch ==
  /\ servicesSynced = Synced("services")
  /\ endpointsSynced = (Synced("endpoints") /\ ~UseSlices)
  /\ initialized => Synced("services") /\ Synced("endpoints")
  /\ Synced("services") /\ Synced("endpoints") /\ ~UseSlices => initialized

PassInitialized ==
  \A r \in Runners : runner[r] \in {"services", "endpoints", "program"} => initialized

RunnersApart == /\ runner["loop"] # "waiting"
                /\ \A k \in Kinds : runner[k] \notin {"new", "idle"}

IInv == /\ TypeOK
        /\ RunnersApart
        /\ FlagsMatch
        /\ PassInitialized
        /\ NoLostChange

USE DEF Kinds, Runners

LEMMA InitIInv == Init => IInv
BY DEF Init, IInv, TypeOK, RunnersApart, FlagsMatch, Synced, PassInitialized,
       NoLostChange

-----------------------------------------------------------------------------
(* One lemma per action; the handlers first. *)

LEMMA OnUpdateIInv ==
  ASSUME IInv, NEW k \in Kinds, NEW n \in Names, OnUpdate(k, n)
  PROVE  IInv'
<1>1. PICK u \in Update(k, n) :
        /\ items' = [items EXCEPT ![k] = u.pending]
        /\ handler' = [handler EXCEPT ![k] = IF u.changed THEN "check" ELSE "ready"]
  BY DEF OnUpdate
<1>2. /\ backlog' = [backlog EXCEPT ![k] = @ \ {n}]
      /\ handler[k] = "ready"
      /\ UNCHANGED <<flags, mu, runner, run, timer>>
  BY DEF OnUpdate
<1>3. /\ u.pending \in SUBSET Names
      /\ u.changed \/ u.pending = {} \/ u.pending = items[k]
  <2>1. items[k] \in SUBSET Names
    BY DEF IInv, TypeOK
  <2>2. CASE UseSlices /\ k = "endpoints"
    BY <2>1, <2>2 DEF Update, Outcome
  <2>3. CASE ~(UseSlices /\ k = "endpoints")
    <3>1. PICK S \in {items[k] \cup {n}, items[k] \ {n}} : u = Outcome(S, S # {})
      BY <2>3 DEF Update
    <3>2. QED
      BY <2>1, <3>1 DEF Outcome
  <2>4. QED
    BY <2>2, <2>3
<1>4. TypeOK'
  BY <1>1, <1>2, <1>3 DEF IInv, TypeOK, flags
<1>5. RunnersApart' /\ FlagsMatch' /\ PassInitialized'
  BY <1>2 DEF IInv, RunnersApart, FlagsMatch, Synced, PassInitialized, flags
<1>6. NoLostChange'
  <2> SUFFICES ASSUME initialized', NEW j \in Kinds, items'[j] # {}
               PROVE  Due(j)'
    BY DEF NoLostChange
  <2>1. CASE j = k /\ u.changed
    BY <2>1, <1>1, <1>2 DEF IInv, TypeOK, Due
  <2>2. CASE ~(j = k /\ u.changed)
    <3>1. items[j] # {}
      BY <2>2, <1>1, <1>3 DEF IInv, TypeOK
    <3>2. Due(j)
      BY <3>1, <1>2 DEF IInv, NoLostChange, flags
    <3>3. handler[j] \in {"check", "notify"} => handler'[j] = handler[j]
      BY <1>1, <1>2 DEF IInv, TypeOK
    <3>4. QED
      BY <3>2, <3>3, <1>2 DEF Due
  <2>3. QED
    BY <2>1, <2>2
<1>7. QED
  BY <1>4, <1>5, <1>6 DEF IInv

LEMMA CheckInitializedIInv ==
  ASSUME IInv, NEW k \in Kinds, CheckInitialized(k)
  PROVE  IInv'
BY DEF IInv, TypeOK, RunnersApart, FlagsMatch, Synced, PassInitialized,
       NoLostChange, Due, CheckInitialized, flags

LEMMA SyncIInv ==
  ASSUME IInv, NEW k \in Kinds, Sync(k)
  PROVE  IInv'
BY DEF IInv, TypeOK, RunnersApart, FlagsMatch, Synced, PassInitialized,
       NoLostChange, Due, Sync, flags

-----------------------------------------------------------------------------
(* The goroutines of the configs: initialized was FALSE before, so no pass was *)
(* under way, and the pass they are about to run takes every change.          *)

LEMMA OnServiceSyncedIInv ==
  ASSUME IInv, OnServiceSynced
  PROVE  IInv'
BY DEF IInv, TypeOK, RunnersApart, FlagsMatch, Synced, PassInitialized,
       NoLostChange, Due, OnServiceSynced

LEMMA OnEndpointsSyncedIInv ==
  ASSUME IInv, ~UseSlices, OnEndpointsSynced
  PROVE  IInv'
BY DEF IInv, TypeOK, RunnersApart, FlagsMatch, Synced, PassInitialized,
       NoLostChange, Due, OnEndpointsSynced

LEMMA OnEndpointSlicesSyncedIInv ==
  ASSUME IInv, UseSlices, OnEndpointSlicesSynced
  PROVE  IInv'
BY DEF IInv, TypeOK, RunnersApart, FlagsMatch, Synced, PassInitialized,
       NoLostChange, Due, OnEndpointSlicesSynced

-----------------------------------------------------------------------------
(* The passes. *)

LEMMA LockIInv ==
  ASSUME IInv, NEW r \in Runners, Lock(r)
  PROVE  IInv'
BY DEF IInv, TypeOK, RunnersApart, FlagsMatch, Synced, PassInitialized,
       NoLostChange, Due, Lock, Return, flags

LEMMA UpdateServiceMapIInv ==
  ASSUME IInv, NEW r \in Runners, UpdateServiceMap(r)
  PROVE  IInv'
BY DEF IInv, TypeOK, RunnersApart, FlagsMatch, Synced, PassInitialized,
       NoLostChange, Due, UpdateServiceMap, flags

LEMMA UpdateEndpointsMapIInv ==
  ASSUME IInv, NEW r \in Runners, UpdateEndpointsMap(r)
  PROVE  IInv'
BY DEF IInv, TypeOK, RunnersApart, FlagsMatch, Synced, PassInitialized,
       NoLostChange, Due, UpdateEndpointsMap, flags

LEMMA ProgramIInv ==
  ASSUME IInv, NEW r \in Runners, Program(r)
  PROVE  IInv'
BY DEF IInv, TypeOK, RunnersApart, FlagsMatch, Synced, PassInitialized,
       NoLostChange, Due, Program, Return, flags

-----------------------------------------------------------------------------
(* The loop. *)

LEMMA LoopIInv ==
  ASSUME IInv, SyncLoop \/ Accept \/ Reject \/ HourPassed
  PROVE  IInv'
<1>1. CASE SyncLoop
  BY <1>1 DEF IInv, TypeOK, RunnersApart, FlagsMatch, Synced, PassInitialized,
              NoLostChange, Due, SyncLoop, flags
<1>2. CASE Accept
  BY <1>2 DEF IInv, TypeOK, RunnersApart, FlagsMatch, Synced, PassInitialized,
              NoLostChange, Due, Accept, Wake, flags
<1>3. CASE Reject
  BY <1>3 DEF IInv, TypeOK, RunnersApart, FlagsMatch, Synced, PassInitialized,
              NoLostChange, Due, Reject, Wake, flags
<1>4. CASE HourPassed
  BY <1>4 DEF IInv, TypeOK, RunnersApart, FlagsMatch, Synced, PassInitialized,
              NoLostChange, Due, HourPassed, flags
<1>5. QED
  BY <1>1, <1>2, <1>3, <1>4

LEMMA NextIInv == IInv /\ [Next]_vars => IInv'
<1> SUFFICES ASSUME IInv, [Next]_vars PROVE IInv'
  OBVIOUS
<1>1. CASE \E k \in Kinds, n \in Names : OnUpdate(k, n)
  BY <1>1, OnUpdateIInv
<1>2. CASE \E k \in Kinds : CheckInitialized(k) \/ Sync(k)
  BY <1>2, CheckInitializedIInv, SyncIInv
<1>3. CASE OnServiceSynced \/ OnEndpointsConfigSynced
  BY <1>3, OnServiceSyncedIInv, OnEndpointsSyncedIInv, OnEndpointSlicesSyncedIInv
     DEF OnEndpointsConfigSynced
<1>4. CASE \E r \in Runners : Lock(r) \/ UpdateServiceMap(r)
  BY <1>4, LockIInv, UpdateServiceMapIInv
<1>5. CASE \E r \in Runners : UpdateEndpointsMap(r) \/ Program(r)
  BY <1>5, UpdateEndpointsMapIInv, ProgramIInv
<1>6. CASE SyncLoop \/ Accept \/ Reject \/ HourPassed
  BY <1>6, LoopIInv
<1>7. CASE UNCHANGED vars
  BY <1>7 DEF vars, flags, IInv, TypeOK, RunnersApart, FlagsMatch, Synced,
              PassInitialized, NoLostChange, Due
<1>8. QED
  BY <1>1, <1>2, <1>3, <1>4, <1>5, <1>6, <1>7 DEF Next

LEMMA SpecIInv == Spec => []IInv
BY InitIInv, NextIInv, PTL DEF Spec

-----------------------------------------------------------------------------
(* Who is in a pass holds proxier.mu, and the other way round. *)
MutexHeld == \A r \in Runners : InPass(r) <=> mu = r

LEMMA InitMutex == Init => MutexHeld
BY DEF Init, MutexHeld, InPass

(* A step that moves no goroutine into a pass or out of one. *)
LEMMA SameMutex ==
  ASSUME MutexHeld, mu' = mu, \A r \in Runners : InPass(r)' = InPass(r)
  PROVE  MutexHeld'
BY DEF MutexHeld

LEMMA PassMutex ==
  ASSUME TypeOK, MutexHeld, NEW r \in Runners,
         Lock(r) \/ UpdateServiceMap(r) \/ UpdateEndpointsMap(r) \/ Program(r)
  PROVE  MutexHeld'
<1>1. runner' = [runner EXCEPT ![r] = runner'[r]] /\ mu' \in {mu, r, "free"}
  BY DEF TypeOK, Lock, UpdateServiceMap, UpdateEndpointsMap, Program, Return
<1>2. \A q \in Runners \ {r} : InPass(q)' = InPass(q)
  BY <1>1 DEF TypeOK, InPass
<1>3. CASE UpdateServiceMap(r) \/ UpdateEndpointsMap(r)
  BY <1>2, <1>3, SameMutex DEF TypeOK, UpdateServiceMap, UpdateEndpointsMap, InPass
<1>4. CASE Lock(r)
  <2>1. mu = "free" /\ ~InPass(r)
    BY <1>4 DEF Lock, InPass
  <2>2. InPass(r)' <=> mu' = r
    BY <1>4, <2>1 DEF TypeOK, Lock, Return, InPass
  <2>3. \A q \in Runners \ {r} : mu' # q /\ mu # q
    BY <1>4, <2>1 DEF Lock
  <2>4. QED
    BY <1>2, <2>2, <2>3 DEF MutexHeld
<1>5. CASE Program(r)
  <2>1. mu = r /\ mu' = "free" /\ ~InPass(r)'
    BY <1>5 DEF TypeOK, Program, Return, InPass, MutexHeld
  <2>2. QED
    BY <1>2, <2>1 DEF MutexHeld
<1>6. QED
  BY <1>3, <1>4, <1>5

(* No two passes overlap: the steps of a pass are those of one goroutine.      *)
LEMMA NextMutex ==
  ASSUME TypeOK, MutexHeld, [Next]_vars
  PROVE  MutexHeld'
<1>1. CASE \E k \in Kinds : \/ \E n \in Names : OnUpdate(k, n)
                           \/ CheckInitialized(k) \/ Sync(k)
  BY <1>1, SameMutex DEF OnUpdate, CheckInitialized, Sync, InPass
<1>2. CASE OnServiceSynced \/ OnEndpointsConfigSynced
  BY <1>2, SameMutex DEF TypeOK, OnServiceSynced, OnEndpointsConfigSynced,
     OnEndpointsSynced, OnEndpointSlicesSynced, InPass
<1>3. CASE \E r \in Runners : \/ Lock(r) \/ UpdateServiceMap(r)
                             \/ UpdateEndpointsMap(r) \/ Program(r)
  BY <1>3, PassMutex
<1>4. CASE SyncLoop \/ Accept \/ Reject \/ HourPassed
  BY <1>4, SameMutex DEF TypeOK, SyncLoop, Accept, Reject, HourPassed, InPass
<1>5. CASE UNCHANGED vars
  BY <1>5, SameMutex DEF vars, InPass
<1>6. QED
  BY <1>1, <1>2, <1>3, <1>4, <1>5 DEF Next

-----------------------------------------------------------------------------
(* The goroutines keep every variable in its type. *)
THEOREM SpecTypeOK == Spec => []TypeOK
BY SpecIInv, PTL DEF IInv

(* No change recorded by OnServiceUpdate, OnEndpointsUpdate or the handlers of  *)
(* slices is left without a pass to come, with endpoints and with slices.     *)
THEOREM SpecNoLostChange == Spec => []NoLostChange
BY SpecIInv, PTL DEF IInv

(* syncProxyRules does not work before both informers have reported synced,    *)
(* with endpoints and with slices, although the On...Synced methods, in two    *)
(* goroutines, each look at the other's flag only.                          *)
THEOREM SpecNoPassBeforeSync == Spec => []NoPassBeforeSync
<1>1. IInv => NoPassBeforeSync
  BY DEF IInv, NoPassBeforeSync, InPass, PassInitialized, FlagsMatch, Synced
<1>2. QED
  BY <1>1, SpecIInv, PTL

(* With endpoints, not slices, the Proxier is initialized as soon as both       *)
(* informers have synced, in either order.                                  *)
THEOREM SpecSyncedMeansInitialized ==
  ~UseSlices => (Spec => []SyncedMeansInitialized)
<1> SUFFICES ASSUME ~UseSlices PROVE Spec => []SyncedMeansInitialized
  OBVIOUS
<1>1. IInv => SyncedMeansInitialized
  BY DEF IInv, SyncedMeansInitialized, FlagsMatch, Synced
<1>2. QED
  BY <1>1, SpecIInv, PTL
=============================================================================
