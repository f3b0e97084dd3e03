------------------------- MODULE KubeHaproxyProofs -------------------------
(***************************************************************************)
(* Proofs about KubeHaproxy, for any services and objects, any number of      *)
(* events, disturbed passes and restarts, with endpoints and with slices.    *)
(* What SyncTriggerProofs shows of the goroutines is used for the process as   *)
(* a whole: each of its steps but a restart is one of theirs.               *)
(***************************************************************************)
EXTENDS KubeHaproxy, TLAPS

P == INSTANCE SyncTriggerProofs

(* The actions are those of the same name there. *)
LEMMA SameSets == /\ T!Kinds = P!Kinds /\ T!Runners = P!Runners
                  /\ Kinds = P!Kinds /\ P!ConfigAssumption
BY ConfigAssumption DEF Kinds, T!Kinds, P!Kinds, T!Runners, P!Runners, P!ConfigAssumption

LEMMA TriggerInit == T!Init => P!IInv
<1>1. T!Init => P!Init
  BY DEF T!Init, P!Init, T!Kinds, P!Kinds, T!Runners, P!Runners
<1>2. QED
  BY <1>1, SameSets, P!InitIInv

LEMMA OnUpdateSame ==
  ASSUME NEW k \in Kinds, NEW n \in Names, T!OnUpdate(k, n)
  PROVE  P!OnUpdate(k, n)
BY DEF T!OnUpdate, P!OnUpdate, T!Update, P!Update, T!Outcome, P!Outcome, T!flags, P!flags

LEMMA HandlerSame ==
  ASSUME NEW k \in Kinds, T!CheckInitialized(k) \/ T!Sync(k)
  PROVE  P!CheckInitialized(k) \/ P!Sync(k)
BY DEF T!CheckInitialized, P!CheckInitialized, T!Sync, P!Sync, T!flags, P!flags

LEMMA SyncedSame ==
  ASSUME T!OnServiceSynced \/ T!OnEndpointsConfigSynced
  PROVE  P!OnServiceSynced \/ P!OnEndpointsConfigSynced
BY DEF T!OnServiceSynced, P!OnServiceSynced,
       T!OnEndpointsConfigSynced, P!OnEndpointsConfigSynced,
       T!OnEndpointsSynced, P!OnEndpointsSynced,
       T!OnEndpointSlicesSynced, P!OnEndpointSlicesSynced

LEMMA PassSame ==
  ASSUME NEW r \in T!Runners
  PROVE  /\ T!Lock(r) => P!Lock(r)
         /\ T!UpdateServiceMap(r) => P!UpdateServiceMap(r)
         /\ T!UpdateEndpointsMap(r) => P!UpdateEndpointsMap(r)
         /\ T!Program(r) => P!Program(r)
<1>1. T!Lock(r) => P!Lock(r)
  BY DEF T!Lock, P!Lock, T!Return, P!Return, T!flags, P!flags
<1>2. T!UpdateServiceMap(r) => P!UpdateServiceMap(r)
  BY DEF T!UpdateServiceMap, P!UpdateServiceMap, T!flags, P!flags
<1>3. T!UpdateEndpointsMap(r) => P!UpdateEndpointsMap(r)
  BY DEF T!UpdateEndpointsMap, P!UpdateEndpointsMap, T!flags, P!flags
<1>4. T!Program(r) => P!Program(r)
  BY DEF T!Program, P!Program, T!Return, P!Return, T!flags, P!flags
<1>5. QED
  BY <1>1, <1>2, <1>3, <1>4

LEMMA LoopSame ==
  ASSUME T!SyncLoop \/ T!Accept \/ T!Reject \/ T!HourPassed
  PROVE  P!SyncLoop \/ P!Accept \/ P!Reject \/ P!HourPassed
BY DEF T!SyncLoop, P!SyncLoop, T!Accept, P!Accept, T!Reject, P!Reject,
       T!HourPassed, P!HourPassed, T!Wake, P!Wake, T!flags, P!flags

(* A step of the goroutines keeps the invariant shown for them. *)
LEMMA TriggerStep ==
  ASSUME P!IInv, [P!Next]_(P!vars)
  PROVE  P!IInv'
BY SameSets, P!NextIInv, Zenon

-----------------------------------------------------------------------------
(***************************************************************************)
(* The inductive invariant: that of the goroutines, types, and what links     *)
(* them to the data: a change starts from what the map holds, and what the    *)
(* map would hold with the changes applied is what the handlers were called   *)
(* with.                                                                   *)
(***************************************************************************)
DataTypes ==
  /\ changes \in [Kinds -> [Names -> Changes \cup {None}]]
  /\ api \in [Kinds -> [Names -> AnyObjects]]
  /\ taken \in [Kinds -> [Names -> AnyObjects]]
  /\ \A k \in Kinds, n \in Names : {api[k][n], taken[k][n]} \subseteq Objects(k) \cup {None}
  /\ haproxy \in [Names -> Served]
  /\ phase \in {"idle", "plain", "disturbed", "done"}

ChangesLead ==
  \A k \in Kinds, n \in Names :
    /\ Applied(k, n) = Known(k, n)
    /\ changes[k][n] # None => changes[k][n].previous = taken[k][n]

IInv == P!IInv /\ DataTypes /\ ChangesLead

LEMMA InitIInv == Init => IInv
<1> SUFFICES ASSUME Init PROVE IInv
  OBVIOUS
<1>1. P!IInv
  BY TriggerInit DEF Init
<1>2. DataTypes
  BY DEF Init, Start, NoObjects, NoChanges, DataTypes, AnyObjects
<1>3. ChangesLead
  BY DEF Init, Start, NoObjects, NoChanges, ChangesLead, Applied, Known, Existing
<1>4. QED
  BY <1>1, <1>2, <1>3 DEF IInv

(* A step that changes neither the objects nor the trackers nor the maps.     *)
LEMMA QuietStep ==
  ASSUME IInv, [P!Next]_(P!vars), UNCHANGED <<changes, api, taken>>,
         backlog' = backlog,
         haproxy' \in [Names -> Served],
         phase' \in {"idle", "plain", "disturbed", "done"}
  PROVE  IInv'
<1>1. P!IInv'
  BY TriggerStep DEF IInv
<1>2. DataTypes'
  BY DEF IInv, DataTypes, Objects
<1>3. ChangesLead'
  BY DEF IInv, ChangesLead, Applied, Known
<1>4. QED
  BY <1>1, <1>2, <1>3 DEF IInv

(* The change a tracker makes of an event that says o: it starts where the map *)
(* is, and with it the map would hold o.                                    *)
LEMMA UpdateLeads ==
  ASSUME IInv, NEW k \in Kinds, NEW n \in Names, NEW o \in AnyObjects,
         NEW change \in {Update(k, n, o), EndpointSliceUpdate(k, n, o)}
  PROVE  /\ change \in Changes \cup {None}
         /\ (IF change = None THEN taken[k][n] ELSE change.current) = o
         /\ change # None => change.previous = taken[k][n]
<1>1. /\ changes[k][n] \in Changes \cup {None}
      /\ taken[k][n] \in AnyObjects
      /\ Applied(k, n) = Known(k, n)
      /\ changes[k][n] # None => changes[k][n].previous = taken[k][n]
  BY DEF IInv, DataTypes, ChangesLead
<1>2. /\ Change(taken[k][n], o) \in Changes /\ Change(taken[k][n], o) # None
      /\ Change(taken[k][n], o).previous = taken[k][n]
      /\ Change(taken[k][n], o).current = o
  BY <1>1, NoneAssumption DEF Change, Changes
<1>3. Update(k, n, o) = IF taken[k][n] = o THEN None ELSE Change(taken[k][n], o)
  BY <1>1 DEF Update, Applied
<1>4. EndpointSliceUpdate(k, n, o) \in {changes[k][n], Change(taken[k][n], o)}
  BY DEF EndpointSliceUpdate
<1>5. CASE change = Update(k, n, o)
  BY <1>2, <1>3, <1>5
<1>6. CASE change = EndpointSliceUpdate(k, n, o) /\ change = Change(taken[k][n], o)
  BY <1>2, <1>6
<1>7. CASE change = EndpointSliceUpdate(k, n, o) /\ change # Change(taken[k][n], o)
  <2>1. change = changes[k][n] /\ Applied(k, n) = o
    BY <1>7 DEF EndpointSliceUpdate, Applied
  <2>2. QED
    BY <1>1, <2>1 DEF Applied
<1>8. QED
  BY <1>5, <1>6, <1>7

(* A handler, for an initial object or a later event. *)
LEMMA HandlerIInv ==
  ASSUME IInv, NEW k \in Kinds, NEW n \in Names, NEW o \in Objects(k) \cup {None},
         api' = api \/ api' = [api EXCEPT ![k][n] = o],
         UNCHANGED <<taken, haproxy, phase>>, T!OnUpdate(k, n), Tracked(k, n)
  PROVE  IInv'
<1>1. P!OnUpdate(k, n)
  BY OnUpdateSame
<1>2. P!IInv'
  BY <1>1, SameSets, TriggerStep DEF IInv, P!Next
<1>3. /\ api \in [Kinds -> [Names -> AnyObjects]]
      /\ \A j \in Kinds, m \in Names : api[j][m] \in Objects(j) \cup {None}
      /\ changes \in [Kinds -> [Names -> Changes \cup {None}]]
  BY DEF IInv, DataTypes
<1>4. o \in AnyObjects
  BY DEF Objects, AnyObjects
<1>5. /\ api' \in [Kinds -> [Names -> AnyObjects]]
      /\ api'[k][n] \in {api[k][n], o}
      /\ \A j \in Kinds, m \in Names : j # k \/ m # n => api'[j][m] = api[j][m]
  <2>1. api \in [Kinds -> [Names -> AnyObjects]]
    BY <1>3
  <2>2. QED
    BY <1>4, <2>1
<1>6. PICK change \in {Update(k, n, api'[k][n]), EndpointSliceUpdate(k, n, api'[k][n])} :
        changes' = [changes EXCEPT ![k][n] = change]
  BY DEF Tracked
<1>7. /\ change \in Changes \cup {None}
      /\ (IF change = None THEN taken[k][n] ELSE change.current) = api'[k][n]
      /\ change # None => change.previous = taken[k][n]
  BY <1>5, UpdateLeads
<1>8. /\ changes'[k][n] = change
      /\ \A j \in Kinds, m \in Names : j # k \/ m # n => changes'[j][m] = changes[j][m]
  BY <1>3, <1>6
<1>9. DataTypes'
  <2>1. changes' \in [Kinds -> [Names -> Changes \cup {None}]]
    BY <1>3, <1>6, <1>7
  <2>2. QED
    BY <1>3, <1>5, <2>1 DEF IInv, DataTypes, Objects
<1>10. backlog' = [backlog EXCEPT ![k] = @ \ {n}] /\ backlog \in [Kinds -> SUBSET Names]
  BY SameSets DEF T!OnUpdate, IInv, P!IInv, P!TypeOK
<1>11. /\ n \notin backlog'[k]
       /\ \A j \in Kinds, m \in Names :
            j # k \/ m # n => m \in backlog'[j] <=> m \in backlog[j]
  BY <1>10
<1>12. ChangesLead'
  <2> SUFFICES ASSUME NEW j \in Kinds, NEW m \in Names
               PROVE  /\ (IF changes'[j][m] = None THEN taken[j][m]
                           ELSE changes'[j][m].current)
                            = IF m \in backlog'[j] THEN None ELSE api'[j][m]
                      /\ changes'[j][m] # None => changes'[j][m].previous = taken[j][m]
    BY DEF ChangesLead, Applied, Known
  <2>1. CASE j = k /\ m = n
    BY <1>7, <1>8, <1>11, <2>1
  <2>2. CASE j # k \/ m # n
    BY <1>5, <1>8, <1>11, <2>2 DEF IInv, ChangesLead, Applied, Known
  <2>3. QED
    BY <2>1, <2>2
<1>13. QED
  BY <1>2, <1>9, <1>12 DEF IInv

(* A pass takes the changes of a kind: its map is what the handlers know.     *)
LEMMA TakeIInv ==
  ASSUME IInv, NEW k \in Kinds, P!Next, Take(k), backlog' = backlog,
         phase' \in {"idle", "plain", "disturbed", "done"}
  PROVE  IInv'
<1>1. P!IInv'
  BY TriggerStep DEF IInv
<1>2. /\ taken' = [taken EXCEPT ![k] = [n \in Names |-> Applied(k, n)]]
      /\ changes' = [changes EXCEPT ![k] = [n \in Names |-> None]]
      /\ api' = api /\ haproxy' = haproxy
  BY DEF Take
<1>3. /\ api \in [Kinds -> [Names -> AnyObjects]]
      /\ taken \in [Kinds -> [Names -> AnyObjects]]
      /\ changes \in [Kinds -> [Names -> Changes \cup {None}]]
      /\ \A j \in Kinds, n \in Names :
           {api[j][n], taken[j][n]} \subseteq Objects(j) \cup {None}
  BY DEF IInv, DataTypes
<1>4. \A n \in Names : Applied(k, n) = Known(k, n)
  BY DEF IInv, ChangesLead
<1>5. \A n \in Names : Known(k, n) \in Objects(k) \cup {None}
  BY <1>3 DEF Known
<1>6. /\ \A n \in Names : taken'[k][n] = Known(k, n) /\ changes'[k][n] = None
      /\ \A j \in Kinds : j # k => taken'[j] = taken[j] /\ changes'[j] = changes[j]
  BY <1>2, <1>3, <1>4
<1>7. DataTypes'
  <2>1. \A n \in Names : Applied(k, n) \in AnyObjects
    BY <1>4, <1>5 DEF Objects, AnyObjects
  <2>2. taken' \in [Kinds -> [Names -> AnyObjects]]
    BY <1>2, <1>3, <2>1
  <2>3. changes' \in [Kinds -> [Names -> Changes \cup {None}]]
    BY <1>2, <1>3
  <2>4. ASSUME NEW j \in Kinds, NEW n \in Names
        PROVE  {api[j][n], taken'[j][n]} \subseteq Objects(j) \cup {None}
    BY <1>3, <1>5, <1>6
  <2>5. QED
    BY <1>2, <1>3, <2>2, <2>3, <2>4 DEF IInv, DataTypes, Objects
<1>8. ChangesLead'
  <2> SUFFICES ASSUME NEW j \in Kinds, NEW n \in Names
               PROVE  /\ (IF changes'[j][n] = None THEN taken'[j][n]
                           ELSE changes'[j][n].current) = Known(j, n)
                      /\ changes'[j][n] # None => changes'[j][n].previous = taken'[j][n]
    BY <1>2 DEF ChangesLead, Applied, Known
  <2>1. CASE j = k
    BY <1>6, <2>1
  <2>2. CASE j # k
    BY <1>6, <2>2 DEF IInv, ChangesLead, Applied
  <2>3. QED
    BY <2>1, <2>2
<1>9. QED
  BY <1>1, <1>7, <1>8 DEF IInv

(* A restart: nothing is known and nothing is pending. *)
LEMMA RestartIInv ==
  ASSUME IInv, Restart
  PROVE  IInv'
<1>1. /\ backlog' = [k \in Kinds |-> Existing(k)]
      /\ changes' = NoChanges
      /\ taken' = NoObjects /\ api' = api
      /\ haproxy' \in [Names -> Served] /\ phase' = "idle"
  BY DEF Restart, IInv, DataTypes, V!Crash, V!End
<1>2. P!IInv'
  <2>1. backlog' \in [P!Kinds -> SUBSET Names]
    BY <1>1, SameSets DEF Existing
  <2>2. items' = [k \in P!Kinds |-> {}]
    BY <1>1, SameSets DEF items, NoChanges, P!Kinds
  <2>3. P!Init'
    BY <2>1, <2>2, SameSets DEF Restart, P!Init
  <2>4. P!TypeOK' /\ P!RunnersApart' /\ P!FlagsMatch'
    BY <2>3 DEF P!Init, P!TypeOK, P!RunnersApart, P!FlagsMatch, P!Synced, P!Kinds, P!Runners
  <2>5. P!PassInitialized' /\ P!NoLostChange'
    BY <2>3 DEF P!Init, P!PassInitialized, P!NoLostChange, P!Kinds, P!Runners
  <2>6. QED
    BY <2>4, <2>5 DEF P!IInv
<1>3. DataTypes'
  BY <1>1 DEF IInv, DataTypes, NoObjects, NoChanges, AnyObjects, Objects
<1>4. ChangesLead'
  BY <1>1 DEF ChangesLead, Applied, Known, NoObjects, NoChanges, Existing
<1>5. QED
  BY <1>2, <1>3, <1>4 DEF IInv

-----------------------------------------------------------------------------
LEMMA DeliverIInv ==
  ASSUME IInv, NEW k \in Kinds, NEW n \in Names, Deliver(k, n)
  PROVE  IInv'
<1>1. api' = api /\ UNCHANGED <<taken, haproxy, phase>> /\ T!OnUpdate(k, n) /\ Tracked(k, n)
  BY DEF Deliver
<1>2. None \in Objects(k) \cup {None}
  OBVIOUS
<1>3. QED
  BY <1>1, <1>2, HandlerIInv

LEMMA EventIInv ==
  ASSUME IInv, NEW k \in Kinds, NEW n \in Names, Event(k, n)
  PROVE  IInv'
<1>1. PICK o \in Objects(k) \cup {None} : api' = [api EXCEPT ![k][n] = o]
  BY DEF Event
<1>2. UNCHANGED <<taken, haproxy, phase>> /\ T!OnUpdate(k, n) /\ Tracked(k, n)
  BY DEF Event
<1>3. QED
  BY <1>1, <1>2, HandlerIInv

LEMMA GoroutineIInv ==
  ASSUME IInv,
         \/ \E k \in Kinds : CheckInitialized(k) \/ Sync(k)
         \/ OnServiceSynced \/ OnEndpointsConfigSynced
         \/ \E r \in T!Runners : Lock(r)
         \/ SyncLoop \/ Accept \/ Reject \/ HourPassed
  PROVE  IInv'
<1>1. CASE \E k \in Kinds : CheckInitialized(k) \/ Sync(k)
  <2>1. P!Next
    BY <1>1, HandlerSame, SameSets DEF CheckInitialized, Sync, P!Next
  <2>2. UNCHANGED <<changes, api, taken, haproxy, phase, backlog>>
    BY <1>1 DEF CheckInitialized, Sync, T!CheckInitialized, T!Sync, data
  <2>3. QED
    BY <2>1, <2>2, QuietStep DEF IInv, DataTypes
<1>2. CASE OnServiceSynced \/ OnEndpointsConfigSynced
  <2>1. P!Next
    BY <1>2, SyncedSame DEF OnServiceSynced, OnEndpointsConfigSynced, P!Next
  <2>2. UNCHANGED <<changes, api, taken, haproxy, phase, backlog>>
    BY <1>2 DEF OnServiceSynced, OnEndpointsConfigSynced, T!OnServiceSynced,
                T!OnEndpointsConfigSynced, T!OnEndpointsSynced,
                T!OnEndpointSlicesSynced, data
  <2>3. QED
    BY <2>1, <2>2, QuietStep DEF IInv, DataTypes
<1>3. CASE \E r \in T!Runners : Lock(r)
  <2>1. P!Next
    BY <1>3, PassSame, SameSets DEF Lock, P!Next
  <2>2. UNCHANGED <<changes, api, taken, haproxy, phase, backlog>>
    BY <1>3 DEF Lock, T!Lock, data
  <2>3. QED
    BY <2>1, <2>2, QuietStep DEF IInv, DataTypes
<1>4. CASE SyncLoop \/ Accept \/ Reject \/ HourPassed
  <2>1. P!Next
    BY <1>4, LoopSame DEF SyncLoop, Accept, Reject, HourPassed, P!Next
  <2>2. UNCHANGED <<changes, api, taken, haproxy, phase, backlog>>
    BY <1>4 DEF SyncLoop, Accept, Reject, HourPassed, T!SyncLoop, T!Accept, T!Reject,
                T!HourPassed, data
  <2>3. QED
    BY <2>1, <2>2, QuietStep DEF IInv, DataTypes
<1>5. QED
  BY <1>1, <1>2, <1>3, <1>4

LEMMA UpdateServiceMapIInv ==
  ASSUME IInv, NEW r \in T!Runners, UpdateServiceMap(r)
  PROVE  IInv'
<1>1. P!Next
  BY PassSame, SameSets DEF UpdateServiceMap, P!Next
<1>2. /\ Take("services") /\ backlog' = backlog
      /\ phase' \in {"idle", "plain", "disturbed", "done"}
  BY DEF UpdateServiceMap, T!UpdateServiceMap, IInv, DataTypes
<1>3. QED
  BY <1>1, <1>2, TakeIInv DEF Kinds, T!Kinds

LEMMA UpdateEndpointsMapIInv ==
  ASSUME IInv, NEW r \in T!Runners, UpdateEndpointsMap(r)
  PROVE  IInv'
<1>1. P!Next
  BY PassSame, SameSets DEF UpdateEndpointsMap, P!Next
<1>2. /\ Take("endpoints") /\ backlog' = backlog
      /\ phase' = "plain"
  BY DEF UpdateEndpointsMap, T!UpdateEndpointsMap, V!Begin
<1>3. QED
  BY <1>1, <1>2, TakeIInv DEF Kinds, T!Kinds

LEMMA CallIInv ==
  ASSUME IInv, (\E n \in Names : Call(n)) \/ Disturb
  PROVE  IInv'
<1>1. UNCHANGED <<P!vars, changes, api, taken, backlog>>
  BY DEF Call, Disturb, outside, items, P!vars, P!flags
<1>2. /\ haproxy' \in [Names -> Served]
      /\ phase' \in {"idle", "plain", "disturbed", "done"}
  BY DEF Call, Disturb, V!Call, V!Disturb, IInv, DataTypes
<1>3. QED
  BY <1>1, <1>2, QuietStep

LEMMA ProgramIInv ==
  ASSUME IInv, NEW r \in T!Runners, Program(r)
  PROVE  IInv'
<1>1. P!Next
  BY PassSame, SameSets DEF Program, P!Next
<1>2. UNCHANGED <<changes, api, taken>> /\ backlog' = backlog
  BY DEF Program, T!Program
<1>3. haproxy' \in [Names -> Served] /\ phase' \in {"done", "idle"}
  BY DEF Program, V!Finish, V!FinishDisturbed, V!End, IInv, DataTypes
<1>4. QED
  BY <1>1, <1>2, <1>3, QuietStep

LEMMA NextIInv == IInv /\ [Next]_vars => IInv'
<1> SUFFICES ASSUME IInv, [Next]_vars PROVE IInv'
  OBVIOUS
<1>1. CASE \E k \in Kinds, n \in Names : Deliver(k, n) \/ Event(k, n)
  BY <1>1, DeliverIInv, EventIInv
<1>2. CASE \/ \E k \in Kinds : CheckInitialized(k) \/ Sync(k)
           \/ OnServiceSynced \/ OnEndpointsConfigSynced
           \/ \E r \in T!Runners : Lock(r)
           \/ SyncLoop \/ Accept \/ Reject \/ HourPassed
  BY <1>2, GoroutineIInv
<1>3. CASE \E r \in T!Runners : UpdateServiceMap(r) \/ UpdateEndpointsMap(r)
  BY <1>3, UpdateServiceMapIInv, UpdateEndpointsMapIInv
<1>4. CASE (\E n \in Names : Call(n)) \/ Disturb \/ \E r \in T!Runners : Program(r)
  BY <1>4, CallIInv, ProgramIInv
<1>5. CASE Restart
  BY <1>5, RestartIInv
<1>6. CASE UNCHANGED vars
  <2>1. UNCHANGED <<changes, api, taken, haproxy, phase, backlog>> /\ UNCHANGED P!vars
    BY <1>6 DEF vars, items, T!flags, P!vars, P!flags
  <2>2. QED
    BY <2>1, QuietStep DEF IInv, DataTypes
<1>7. QED
  BY <1>1, <1>2, <1>3, <1>4, <1>5, <1>6 DEF Next

LEMMA SpecIInv == Spec => []IInv
BY InitIInv, NextIInv, PTL DEF Spec

(* Every behaviour of the process is well typed. *)
THEOREM SpecTypeOK == Spec => []TypeOK
<1>1. IInv => TypeOK
  BY DEF IInv, P!IInv, P!TypeOK, TypeOK, T!TypeOK, DataTypes,
         P!Kinds, T!Kinds, P!Runners, T!Runners
<1>2. QED
  BY <1>1, SpecIInv, PTL

(* Once the Proxier is initialized, no event of a handler is left without a     *)
(* pass of syncProxyRules to come that takes it, with endpoints and with      *)
(* slices, whatever restarts and disturbed passes there were.               *)
THEOREM SpecDivergenceIsDue == Spec => []DivergenceIsDue
<1>1. IInv => DivergenceIsDue
  <2> SUFFICES ASSUME IInv, initialized, NEW k \in Kinds,
                      NEW n \in Names, taken[k][n] # Known(k, n)
               PROVE  T!Due(k)
    BY DEF DivergenceIsDue
  <2>1. changes[k][n] # None
    BY DEF IInv, ChangesLead, Applied
  <2>2. items[k] # {}
    BY <2>1 DEF items, Kinds, T!Kinds
  <2>3. P!Due(k)
    BY <2>2, SameSets DEF IInv, P!IInv, P!NoLostChange
  <2>4. (\E r \in P!Runners : runner[r] \in {"call", "services"} \cup {k})
          <=> \E r \in T!Runners : runner[r] \in {"call", "services"} \cup {k}
    BY SameSets
  <2>5. QED
    BY <2>3, <2>4, Zenon DEF T!Due, P!Due
<1>2. QED
  BY <1>1, SpecIInv, PTL

-----------------------------------------------------------------------------
(***************************************************************************)
(* The refinement of PassView.  Its passes are those of whichever goroutine   *)
(* holds proxier.mu, from the moment both maps are taken; what links the two   *)
(* is that the maps are written by that goroutine alone.                    *)
(***************************************************************************)
PhaseMatches == V!InPass <=> \E r \in P!Runners : runner[r] = "program"

PassesApart == P!MutexHeld /\ PhaseMatches

(* Whoever is to take a map finds no pass at work: the maps do not change under *)
(* one, and what UpdateEndpointsMap begins is not kept from beginning.         *)
LEMMA NoOtherPass ==
  ASSUME PassesApart, NEW r \in T!Runners, runner[r] \in {"services", "endpoints"}
  PROVE  ~V!InPass
<1>1. r \in P!Runners /\ mu = r
  BY SameSets DEF PassesApart, P!MutexHeld, P!InPass
<1>2. \A q \in P!Runners : runner[q] = "program" => q = r
  BY <1>1 DEF PassesApart, P!MutexHeld, P!InPass
<1>3. QED
  BY <1>2 DEF PassesApart, PhaseMatches

(* A step that leaves the phase and starts or ends no pass. *)
LEMMA SamePhase ==
  ASSUME PhaseMatches, phase' = phase,
         \A r \in P!Runners : (runner'[r] = "program") = (runner[r] = "program")
  PROVE  PhaseMatches'
BY DEF PhaseMatches, V!InPass

LEMMA PassMoved ==
  ASSUME P!TypeOK, NEW r \in T!Runners,
         T!Lock(r) \/ T!UpdateServiceMap(r) \/ T!UpdateEndpointsMap(r) \/ T!Program(r)
  PROVE  /\ r \in P!Runners
         /\ \A q \in P!Runners \ {r} : runner'[q] = runner[q]
         /\ T!Lock(r) \/ T!UpdateServiceMap(r) =>
              runner[r] # "program" /\ runner'[r] # "program"
         /\ T!UpdateEndpointsMap(r) => runner'[r] = "program"
         /\ T!Program(r) => runner[r] = "program" /\ runner'[r] # "program"
BY SameSets DEF P!TypeOK, T!Lock, T!UpdateServiceMap, T!UpdateEndpointsMap, T!Program,
                T!Return

LEMMA NextPhase ==
  ASSUME P!TypeOK, PassesApart, PassesApart => P!MutexHeld', [Next]_vars
  PROVE  PhaseMatches'
<1> PhaseMatches /\ P!MutexHeld'
  BY DEF PassesApart
<1>1. CASE \E k \in Kinds : \/ \E n \in Names : Deliver(k, n) \/ Event(k, n)
                           \/ CheckInitialized(k) \/ Sync(k)
  <2>1. phase' = phase /\ runner' = runner
    BY <1>1 DEF Deliver, Event, T!OnUpdate, CheckInitialized, Sync, T!CheckInitialized,
                T!Sync, data
  <2>2. QED
    BY <2>1, SamePhase
<1>2. CASE OnServiceSynced \/ OnEndpointsConfigSynced
  <2>1. phase' = phase /\ \E k \in P!Kinds : /\ runner[k] = "waiting"
                                            /\ runner' = [runner EXCEPT ![k] = "call"]
    BY <1>2 DEF OnServiceSynced, OnEndpointsConfigSynced, T!OnServiceSynced,
                T!OnEndpointsConfigSynced, T!OnEndpointsSynced,
                T!OnEndpointSlicesSynced, data, P!Kinds
  <2>2. QED
    BY <2>1, SamePhase DEF P!TypeOK, P!Kinds, P!Runners
<1>3. CASE \E r \in T!Runners : Lock(r) \/ UpdateServiceMap(r)
  <2>1. PICK r \in T!Runners : Lock(r) \/ UpdateServiceMap(r)
    BY <1>3
  <2>2. phase' = phase /\ (T!Lock(r) \/ T!UpdateServiceMap(r))
    BY <2>1 DEF Lock, UpdateServiceMap, data
  <2>3. QED
    BY <2>2, PassMoved, SamePhase
<1>4. CASE \E r \in T!Runners : UpdateEndpointsMap(r)
  <2>1. PICK r \in T!Runners : UpdateEndpointsMap(r)
    BY <1>4
  <2>2. phase' = "plain" /\ r \in P!Runners /\ runner'[r] = "program"
    BY <2>1, PassMoved DEF UpdateEndpointsMap, V!Begin
  <2>3. QED
    BY <2>2 DEF PhaseMatches, V!InPass
<1>5. CASE (\E n \in Names : Call(n)) \/ Disturb
  <2>1. V!InPass /\ V!InPass' /\ runner' = runner
    BY <1>5 DEF Call, Disturb, V!Call, V!Disturb, V!InPass, outside
  <2>2. QED
    BY <2>1 DEF PhaseMatches
<1>6. CASE \E r \in T!Runners : Program(r)
  <2>1. PICK r \in T!Runners : Program(r)
    BY <1>6
  <2>2. /\ r \in P!Runners /\ runner[r] = "program" /\ runner'[r] # "program"
        /\ \A q \in P!Runners \ {r} : runner'[q] = runner[q]
        /\ phase' \in {"done", "idle"} /\ mu = r
    BY <2>1, PassMoved DEF Program, V!Finish, V!FinishDisturbed, PassesApart,
                           P!MutexHeld, P!InPass
  <2>3. \A q \in P!Runners : runner'[q] # "program"
    BY <2>2 DEF PassesApart, P!MutexHeld, P!InPass
  <2>4. QED
    BY <2>2, <2>3 DEF PhaseMatches, V!InPass
<1>7. CASE SyncLoop \/ Accept \/ Reject \/ HourPassed
  <2>1. phase' = phase /\ \/ runner' = runner
                          \/ /\ runner["loop"] \in {"new", "idle"}
                             /\ runner' = [runner EXCEPT !["loop"] = runner'["loop"]]
                             /\ runner'["loop"] \in {"idle", "call"}
    BY <1>7 DEF SyncLoop, Accept, Reject, HourPassed, T!SyncLoop, T!Accept, T!Reject,
                T!HourPassed, data, P!TypeOK, P!Runners
  <2>2. QED
    BY <2>1, SamePhase DEF P!TypeOK, P!Runners
<1>8. CASE Restart
  <2>1. phase' = "idle" /\ \A r \in P!Runners : runner'[r] # "program"
    BY <1>8, SameSets DEF Restart, V!Crash
  <2>2. QED
    BY <2>1 DEF PhaseMatches, V!InPass
<1>9. CASE UNCHANGED vars
  BY <1>9, SamePhase DEF vars
<1>10. QED
  BY <1>1, <1>2, <1>3, <1>4, <1>5, <1>6, <1>7, <1>8, <1>9 DEF Next

(* Every step but a restart is one of the goroutines, or none to them.         *)
LEMMA TriggerNext == [Next]_vars => [P!Next]_(P!vars) \/ Restart
<1> SUFFICES ASSUME [Next]_vars PROVE [P!Next]_(P!vars) \/ Restart
  OBVIOUS
<1>1. CASE \E k \in Kinds, n \in Names : Deliver(k, n) \/ Event(k, n)
  BY <1>1, OnUpdateSame, SameSets DEF Deliver, Event, P!Next
<1>2. CASE \E k \in Kinds : CheckInitialized(k) \/ Sync(k)
  BY <1>2, HandlerSame, SameSets DEF CheckInitialized, Sync, P!Next
<1>3. CASE OnServiceSynced \/ OnEndpointsConfigSynced
  BY <1>3, SyncedSame DEF OnServiceSynced, OnEndpointsConfigSynced, P!Next
<1>4. CASE \E r \in T!Runners : \/ Lock(r) \/ UpdateServiceMap(r)
                               \/ UpdateEndpointsMap(r) \/ Program(r)
  BY <1>4, PassSame, SameSets
     DEF Lock, UpdateServiceMap, UpdateEndpointsMap, Program, P!Next
<1>5. CASE (\E n \in Names : Call(n)) \/ Disturb
  BY <1>5 DEF Call, Disturb, outside, items, P!vars, P!flags
<1>6. CASE SyncLoop \/ Accept \/ Reject \/ HourPassed
  BY <1>6, LoopSame DEF SyncLoop, Accept, Reject, HourPassed, P!Next
<1>7. CASE UNCHANGED vars
  BY <1>7 DEF vars, items, T!flags, P!vars, P!flags
<1>8. QED
  BY <1>1, <1>2, <1>3, <1>4, <1>5, <1>6, <1>7 DEF Next

LEMMA InitPassesApart == Init => PassesApart
<1> SUFFICES ASSUME Init PROVE PassesApart
  OBVIOUS
<1>1. P!MutexHeld
  <2>1. P!Init
    BY SameSets DEF Init, T!Init, P!Init
  <2>2. QED
    BY <2>1, P!InitMutex, SameSets
<1>2. PhaseMatches
  BY SameSets DEF Init, Start, T!Init, PhaseMatches, V!InPass
<1>3. QED
  BY <1>1, <1>2 DEF PassesApart

LEMMA NextPassesApart == IInv /\ PassesApart /\ [Next]_vars => PassesApart'
<1> SUFFICES ASSUME IInv, PassesApart, [Next]_vars PROVE PassesApart'
  OBVIOUS
<1>1. P!TypeOK
  BY DEF IInv, P!IInv
<1>2. P!MutexHeld'
  <2>1. CASE [P!Next]_(P!vars)
    BY <1>1, <2>1, P!NextMutex, SameSets DEF PassesApart
  <2>2. CASE Restart
    <3>1. mu' = "free" /\ \A r \in P!Runners : runner'[r] \in {"new", "waiting"}
      BY <2>2, SameSets DEF Restart
    <3>2. QED
      BY <3>1 DEF P!MutexHeld, P!InPass, P!Runners, P!Kinds
  <2>3. QED
    BY <2>1, <2>2, TriggerNext
<1>3. QED
  BY <1>1, <1>2, NextPhase DEF PassesApart

(* A step of the process is one of PassView's, or none of it.                 *)
LEMMA NextView ==
  ASSUME PassesApart, [Next]_vars
  PROVE  [V!Next]_(V!vars)
<1>1. ASSUME UNCHANGED <<taken, haproxy, phase>> PROVE UNCHANGED V!vars
  BY <1>1 DEF V!vars, wanted, Wanted
<1>2. CASE \/ \E k \in Kinds : \/ \E n \in Names : Deliver(k, n) \/ Event(k, n)
                              \/ CheckInitialized(k) \/ Sync(k)
           \/ OnServiceSynced \/ OnEndpointsConfigSynced
           \/ \E r \in T!Runners : Lock(r)
           \/ SyncLoop \/ Accept \/ Reject \/ HourPassed \/ UNCHANGED vars
  BY <1>1, <1>2 DEF Deliver, Event, CheckInitialized, Sync, OnServiceSynced,
     OnEndpointsConfigSynced, Lock, SyncLoop, Accept, Reject, HourPassed, vars, data
<1>3. CASE \E r \in T!Runners : UpdateServiceMap(r)
  <2>1. PICK r \in T!Runners : UpdateServiceMap(r)
    BY <1>3
  <2>2. UNCHANGED <<haproxy, phase>> /\ ~V!InPass
    BY <2>1, NoOtherPass DEF UpdateServiceMap, T!UpdateServiceMap, Take
  <2>3. wanted' = wanted
    BY <2>2 DEF wanted, V!InPass
  <2>4. QED
    BY <2>2, <2>3 DEF V!vars
<1>4. CASE \E r \in T!Runners : UpdateEndpointsMap(r)
  BY <1>4 DEF UpdateEndpointsMap, V!Next
<1>5. CASE (\E n \in Names : Call(n)) \/ Disturb
  BY <1>5 DEF Call, Disturb, V!Next
<1>6. CASE (\E r \in T!Runners : Program(r)) \/ Restart
  BY <1>6 DEF Program, Restart, V!Next
<1>7. QED
  BY <1>2, <1>3, <1>4, <1>5, <1>6 DEF Next

(* Although three goroutines run syncProxyRules and the handlers never wait for *)
(* it, the passes of the whole process are those PassView allows: proxier.mu    *)
(* keeps them apart, and the maps a pass works from stay as it took them until  *)
(* it returns, with endpoints and with slices, whatever restarts there are.    *)
THEOREM SpecPassesAreSerial == Spec => PassesAreSerial
<1>1. Init => V!Init
  BY DEF Init, Start, V!Init, V!Nothing, wanted
<1>2. IInv /\ PassesApart /\ [Next]_vars => [V!Next]_(V!vars)
  BY NextView
<1>3. QED
  BY <1>1, <1>2, InitPassesApart, NextPassesApart, SpecIInv, PTL
     DEF Spec, PassesAreSerial, V!Spec

-----------------------------------------------------------------------------
(***************************************************************************)
(* What HAProxy has between passes.  When the last one went undisturbed it is *)
(* what the maps say, until a goroutine has taken new services; and a pass     *)
(* goes through only when the Proxier is initialized.                       *)
(***************************************************************************)
LastPass ==
  /\ phase # "idle" => initialized
  /\ phase = "done" => Matches(taken) \/ \E r \in P!Runners : runner[r] = "endpoints"

LEMMA SameLastPass ==
  ASSUME LastPass, UNCHANGED <<taken, haproxy, phase>>, initialized => initialized',
         \A r \in P!Runners : runner[r] = "endpoints" => runner'[r] = "endpoints"
  PROVE  LastPass'
<1>1. Matches(taken) => Matches(taken)'
  BY DEF Matches, Wanted
<1>2. QED
  BY <1>1 DEF LastPass

(* A pass that ends undisturbed has brought about what the maps say.          *)
LEMMA FinishMatches ==
  ASSUME V!Finish, UNCHANGED taken
  PROVE  Matches(taken)'
<1>1. phase = "plain" /\ haproxy' = haproxy /\ V!Reached
  BY DEF V!Finish, V!End
<1>2. \A n \in Names : wanted[n] = Wanted(taken, n)
  BY <1>1 DEF wanted
<1>3. Matches(taken)
  BY <1>1, <1>2 DEF V!Reached, Matches
<1>4. QED
  BY <1>1, <1>3 DEF Matches, Wanted

LEMMA NextLastPass ==
  ASSUME IInv, LastPass, [Next]_vars
  PROVE  LastPass'
<1> USE DEF P!Kinds, P!Runners
<1>0. P!TypeOK /\ P!FlagsMatch /\ P!PassInitialized
  BY DEF IInv, P!IInv
<1>1. CASE \E k \in Kinds : \/ \E n \in Names : Deliver(k, n) \/ Event(k, n)
                           \/ CheckInitialized(k) \/ Sync(k)
  <2>1. UNCHANGED <<taken, haproxy, phase, initialized, runner>>
    BY <1>1 DEF Deliver, Event, T!OnUpdate, CheckInitialized, Sync, T!CheckInitialized,
                T!Sync, data, T!flags
  <2>2. QED
    BY <2>1, SameLastPass
<1>2. CASE OnServiceSynced \/ OnEndpointsConfigSynced
  <2>1. /\ UNCHANGED <<taken, haproxy, phase>>
        /\ \E k \in P!Kinds : /\ runner[k] = "waiting"
                              /\ runner' = [runner EXCEPT ![k] = "call"]
    BY <1>2 DEF OnServiceSynced, OnEndpointsConfigSynced, T!OnServiceSynced,
                T!OnEndpointsConfigSynced, T!OnEndpointsSynced,
                T!OnEndpointSlicesSynced, data
  <2>2. ~initialized
    BY <1>0, <2>1 DEF P!FlagsMatch, P!Synced
  <2>3. \A r \in P!Runners : runner[r] = "endpoints" => runner'[r] = "endpoints"
    BY <1>0, <2>1 DEF P!TypeOK
  <2>4. QED
    BY <2>1, <2>2, <2>3, SameLastPass
<1>3. CASE \E r \in T!Runners : Lock(r)
  <2>1. PICK r \in T!Runners : Lock(r)
    BY <1>3
  <2>2. /\ UNCHANGED <<taken, haproxy, phase, initialized>> /\ runner[r] = "call"
        /\ runner' = [runner EXCEPT ![r] = runner'[r]]
    BY <1>0, <2>1, SameSets DEF Lock, T!Lock, T!Return, T!flags, data, P!TypeOK
  <2>3. \A q \in P!Runners : runner[q] = "endpoints" => runner'[q] = "endpoints"
    BY <1>0, <2>2 DEF P!TypeOK
  <2>4. QED
    BY <2>2, <2>3, SameLastPass
<1>4. CASE \E r \in T!Runners : UpdateServiceMap(r)
  <2>1. PICK r \in T!Runners : UpdateServiceMap(r)
    BY <1>4
  <2>2. r \in P!Runners /\ runner'[r] = "endpoints"
    BY <1>0, <2>1, SameSets DEF UpdateServiceMap, T!UpdateServiceMap, P!TypeOK
  <2>3. phase' = phase /\ initialized' = initialized
    BY <2>1 DEF UpdateServiceMap, T!UpdateServiceMap, T!flags
  <2>4. QED
    BY <2>2, <2>3 DEF LastPass
<1>5. CASE \E r \in T!Runners : UpdateEndpointsMap(r)
  <2>1. PICK r \in T!Runners : UpdateEndpointsMap(r)
    BY <1>5
  <2>2. initialized' = initialized /\ runner[r] = "endpoints" /\ r \in P!Runners
    BY <2>1, SameSets DEF UpdateEndpointsMap, T!UpdateEndpointsMap, T!flags
  <2>3. phase' = "plain"
    BY <2>1 DEF UpdateEndpointsMap, V!Begin
  <2>4. QED
    BY <1>0, <2>2, <2>3 DEF LastPass, P!PassInitialized
<1>6. CASE (\E n \in Names : Call(n)) \/ Disturb
  <2>1. initialized' = initialized /\ phase # "idle" /\ phase' # "done"
    BY <1>6 DEF Call, Disturb, V!Call, V!Disturb, V!InPass, outside
  <2>2. QED
    BY <2>1 DEF LastPass
<1>7. CASE \E r \in T!Runners : Program(r)
  <2>1. PICK r \in T!Runners : Program(r)
    BY <1>7
  <2>2. initialized' = initialized /\ UNCHANGED taken
    BY <2>1 DEF Program, T!Program, T!flags
  <2>3. CASE V!Finish
    BY <2>2, <2>3, FinishMatches DEF LastPass, V!Finish
  <2>4. CASE V!FinishDisturbed
    BY <2>4 DEF LastPass, V!FinishDisturbed
  <2>5. QED
    BY <2>1, <2>3, <2>4 DEF Program
<1>8. CASE SyncLoop \/ Accept \/ Reject \/ HourPassed
  <2>1. /\ UNCHANGED <<taken, haproxy, phase, initialized>>
        /\ \/ runner' = runner
           \/ /\ runner["loop"] \in {"new", "idle"}
              /\ \E v : runner' = [runner EXCEPT !["loop"] = v]
    BY <1>8 DEF SyncLoop, Accept, Reject, HourPassed, T!SyncLoop, T!Accept, T!Reject,
                T!HourPassed, T!flags, data
  <2>2. \A r \in P!Runners : runner[r] = "endpoints" => runner'[r] = "endpoints"
    BY <1>0, <2>1 DEF P!TypeOK
  <2>3. QED
    BY <2>1, <2>2, SameLastPass
<1>9. CASE Restart
  BY <1>9 DEF Restart, V!Crash, LastPass
<1>10. CASE UNCHANGED vars
  <2>1. UNCHANGED <<taken, haproxy, phase, initialized, runner>>
    BY <1>10 DEF vars, T!flags
  <2>2. QED
    BY <2>1, SameLastPass
<1>11. QED
  BY <1>1, <1>2, <1>3, <1>4, <1>5, <1>6, <1>7, <1>8, <1>9, <1>10 DEF Next

(* An event the handlers were called with, while the loop, the configs and the  *)
(* passes were anywhere, is in HAProxy as soon as nothing is left to run and    *)
(* the last pass of syncProxyRules went undisturbed, with endpoints and with    *)
(* slices.                                                                 *)
THEOREM SpecQuietIsCurrent == Spec => []QuietIsCurrent
<1>1. Init => LastPass
  BY DEF Init, Start, LastPass
<1>2. IInv /\ LastPass /\ [Next]_vars => LastPass'
  BY NextLastPass
<1>3. LastPass /\ DivergenceIsDue => QuietIsCurrent
  <2> SUFFICES ASSUME LastPass, DivergenceIsDue, phase = "done",
                      \A k \in Kinds : ~T!Due(k)
               PROVE  Matches([k \in Kinds |-> [n \in Names |-> Known(k, n)]])
    BY DEF QuietIsCurrent
  <2>1. \A k \in Kinds, n \in Names : taken[k][n] = Known(k, n)
    BY DEF LastPass, DivergenceIsDue
  <2>2. \A r \in P!Runners : runner[r] # "endpoints"
    BY SameSets DEF T!Due, Kinds, T!Kinds
  <2>3. Matches(taken)
    BY <2>2 DEF LastPass
  <2>4. \A n \in Names :
          Wanted(taken, n) = Wanted([k \in Kinds |-> [m \in Names |-> Known(k, m)]], n)
    BY <2>1 DEF Wanted, Kinds, T!Kinds
  <2>5. QED
    BY <2>3, <2>4 DEF Matches
<1>4. QED
  BY <1>1, <1>2, <1>3, SpecIInv, SpecDivergenceIsDue, PTL DEF Spec
=============================================================================
