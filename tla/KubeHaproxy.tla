---------------------------- MODULE KubeHaproxy ----------------------------
(***************************************************************************)
(* The process as a whole, with the objects it is about: the API server, the  *)
(* trackers and maps, the scheduling of passes (SyncTrigger) and what HAProxy *)
(* serves in the end.                                                      *)
(*                                                                         *)
(* The trackers are the code's with an object for what the code computes of    *)
(* it: ServiceChanges, EndpointsChanges and EndpointSlices have the detail.   *)
(* A pass is one of PassView, which Proxier implements: from the moment it     *)
(* has taken both maps until it returns, its calls change what HAProxy has    *)
(* for one name at a time, and they may be disturbed.                       *)
(***************************************************************************)
EXTENDS Naturals

CONSTANTS
  Names,            \* services, and their endpoints or slices
  UseSlices,        \* see SyncTrigger
  ServiceObjects,   \* what a service may look like; all with a mode HAProxy knows
  EndpointObjects,  \* what its endpoints may look like
  Half,             \* a service in HAProxy that no objects ask for as it is
  None              \* no object

AnyObjects == ServiceObjects \cup EndpointObjects \cup {None}
Changes    == [previous : AnyObjects, current : AnyObjects]

ASSUME ConfigAssumption == UseSlices \in BOOLEAN
ASSUME NoneAssumption   == None \notin Changes

VARIABLES
  backlog, handler, servicesSynced, endpointsSynced, endpointSlicesSynced,
  initialized, mu, runner, run, timer,
  changes,          \* the change each tracker holds for each name, or None
  api,              \* the last object of each kind and name
  taken,            \* serviceMap and endpointsMap
  haproxy,          \* what HAProxy has for each name
  phase             \* of a pass; see PassView

(* What SyncTrigger looks at of the trackers: for which names they hold one. *)
items == [k \in {"services", "endpoints"} |-> {n \in Names : changes[k][n] # None}]

T == INSTANCE SyncTrigger

Kinds == T!Kinds
vars  == <<backlog, handler, T!flags, mu, runner, run, timer,
           changes, api, taken, haproxy, phase>>

Objects(k) == IF k = "services" THEN ServiceObjects ELSE EndpointObjects

(* A frontend that lost its backend.                                       *)
Bare == [service |-> None, endpoints |-> None]

(* What HAProxy may have for a name; a backend alone does not count.        *)
Served == [service : ServiceObjects, endpoints : EndpointObjects \cup {None}]
            \cup {Half, Bare, None}

(* What HAProxy should have for n. *)
Wanted(objects, n) ==
  IF objects["services"][n] = None THEN None
  ELSE [service |-> objects["services"][n], endpoints |-> objects["endpoints"][n]]

(* What a pass is to bring about: it looks at the two maps and nothing else.   *)
wanted == [n \in Names |-> IF phase \in {"plain", "disturbed"} THEN Wanted(taken, n)
                           ELSE None]

V == INSTANCE PassView WITH Held <- Served, Gone <- {None}, Bare <- {Bare, None},
                            held <- haproxy

NoObjects   == [k \in Kinds |-> [n \in Names |-> None]]
NoChanges   == [k \in Kinds |-> [n \in Names |-> None]]
Existing(k) == {n \in Names : api[k][n] # None}

(* A process starts from nothing; HAProxy has whatever was left in it.      *)
Start == /\ changes = NoChanges
         /\ taken = NoObjects
         /\ haproxy \in [Names -> Served]
         /\ phase = "idle"

Init == /\ Start
        /\ T!Init
        /\ api \in [Kinds -> [Names -> AnyObjects]]
        /\ \A k \in Kinds, n \in Names : api[k][n] \in Objects(k) \cup {None}
        /\ \A k \in Kinds : backlog[k] = Existing(k)

-----------------------------------------------------------------------------
(* The object as far as its handlers have been called.                      *)
Known(k, n) == IF n \in backlog[k] THEN None ELSE api[k][n]

Change(previous, current) == [previous |-> previous, current |-> current]

(* A mutant: every event starts a new change.                               *)
UpdateAfresh(k, n, o) == IF Known(k, n) = o THEN None ELSE Change(Known(k, n), o)

(***************************************************************************)
(* Update of ServiceChangeTracker and EndpointChangeTracker, called with     *)
(* what was known of n and the object o of the event: the first event since   *)
(* the last pass says where n came from, every event where it is now, and a   *)
(* change that leads back is dropped.                                      *)
(***************************************************************************)
Update(k, n, o) ==
  LET previous == IF changes[k][n] = None THEN Known(k, n) ELSE changes[k][n].previous
  IN  IF previous = o THEN None ELSE Change(previous, o)

(* EndpointSliceUpdate: what is pending is compared before what is applied, a  *)
(* slice that is as it was changes nothing, and a change that leads back to    *)
(* what is applied stays.                                                  *)
EndpointSliceUpdate(k, n, o) ==
  LET latest == IF changes[k][n] = None THEN taken[k][n] ELSE changes[k][n].current
  IN  IF latest = o THEN changes[k][n] ELSE Change(taken[k][n], o)

(* The change the tracker has after the event that says what api has now, and  *)
(* what its Update returns: whether anything is pending, or, of slices,        *)
(* whether this event changed anything.                                    *)
Tracked(k, n) ==
  IF UseSlices /\ k = "endpoints"
  THEN /\ changes' = [changes EXCEPT ![k][n] = EndpointSliceUpdate(k, n, api'[k][n])]
       /\ handler' = [handler EXCEPT ![k] = IF changes' # changes THEN "check" ELSE "ready"]
  ELSE /\ changes' = [changes EXCEPT ![k][n] = Update(k, n, api'[k][n])]
       /\ handler' = [handler EXCEPT ![k] = IF items'[k] # {} THEN "check" ELSE "ready"]

(* The handler of an initial object, or of a later event; an event without a  *)
(* change is a resync.                                                     *)
Deliver(k, n) ==
  /\ n \in backlog[k]
  /\ UNCHANGED <<api, taken, haproxy, phase>>
  /\ Tracked(k, n)
  /\ T!OnUpdate(k, n)

Event(k, n) ==
  /\ n \notin backlog[k]
  /\ \E o \in Objects(k) \cup {None} : api' = [api EXCEPT ![k][n] = o]
  /\ UNCHANGED <<taken, haproxy, phase>>
  /\ Tracked(k, n)
  /\ T!OnUpdate(k, n)

data == <<changes, api, taken, haproxy, phase>>

(* A mutant: a handler does not ask while a pass is under way.               *)
CheckInitializedIdle(k) ==
  /\ UNCHANGED data
  /\ handler[k] = "check"
  /\ handler' = [handler EXCEPT ![k] = IF initialized /\ mu = "free" THEN "notify"
                                       ELSE "ready"]
  /\ UNCHANGED <<backlog, servicesSynced, endpointsSynced, endpointSlicesSynced,
                 initialized, mu, runner, run, timer>>

CheckInitialized(k)     == UNCHANGED data /\ T!CheckInitialized(k)
Sync(k)                 == UNCHANGED data /\ T!Sync(k)
OnServiceSynced         == UNCHANGED data /\ T!OnServiceSynced
OnEndpointsConfigSynced == UNCHANGED data /\ T!OnEndpointsConfigSynced
SyncLoop                == UNCHANGED data /\ T!SyncLoop
Accept                  == UNCHANGED data /\ T!Accept
Reject                  == UNCHANGED data /\ T!Reject
HourPassed              == UNCHANGED data /\ T!HourPassed

(* A mutant: a pass with nothing pending is left out.                       *)
LockPending(r) ==
  /\ UNCHANGED data
  /\ IF \A k \in Kinds : items[k] = {}
     THEN /\ runner[r] = "call" /\ mu = "free"
          /\ T!Return(r)
          /\ UNCHANGED <<backlog, handler, servicesSynced, endpointsSynced,
                         endpointSlicesSynced, initialized, mu, run>>
     ELSE T!Lock(r)

(* A mutant: the mutex is not looked at.                                    *)
LockAnyway(r) ==
  /\ runner[r] = "call" /\ initialized
  /\ mu' = r
  /\ runner' = [runner EXCEPT ![r] = "services"]
  /\ UNCHANGED <<backlog, handler, servicesSynced, endpointsSynced,
                 endpointSlicesSynced, initialized, run, timer>>
  /\ UNCHANGED data

Lock(r) == UNCHANGED data /\ T!Lock(r)

-----------------------------------------------------------------------------
Applied(k, n) == IF changes[k][n] = None THEN taken[k][n] ELSE changes[k][n].current

(* A mutant: the map holds nothing but the changes.                         *)
TakeAlone(k) == /\ taken' = [taken EXCEPT ![k] = [n \in items[k] |-> Applied(k, n)]]
                /\ changes' = [changes EXCEPT ![k] = [n \in Names |-> None]]
                /\ UNCHANGED <<api, haproxy>>

(* The changes of a kind move from its tracker to its map.                  *)
Take(k) == /\ taken' = [taken EXCEPT ![k] = [n \in Names |-> Applied(k, n)]]
           /\ changes' = [changes EXCEPT ![k] = [n \in Names |-> None]]
           /\ UNCHANGED <<api, haproxy>>

UpdateServiceMap(r)   == Take("services") /\ T!UpdateServiceMap(r) /\ UNCHANGED phase
UpdateEndpointsMap(r) == Take("endpoints") /\ T!UpdateEndpointsMap(r) /\ V!Begin

outside == <<backlog, handler, servicesSynced, endpointsSynced, endpointSlicesSynced,
             initialized, mu, runner, run, timer, changes, api, taken>>

(* The calls of a pass.  Failures are logged, and the pass ends as always.     *)
Call(n) == UNCHANGED outside /\ V!Call(n)
Disturb == UNCHANGED outside /\ V!Disturb

Program(r) ==
  /\ UNCHANGED <<changes, api, taken>>
  /\ T!Program(r)
  /\ V!Finish \/ V!FinishDisturbed

(* The process ends at any point, in the middle of a pass too, and a new one  *)
(* starts: it lists what there is.                                         *)
Restart ==
  /\ backlog' = [k \in Kinds |-> Existing(k)]
  /\ changes' = NoChanges
  /\ handler' = [k \in Kinds |-> "ready"]
  /\ servicesSynced' = FALSE /\ endpointsSynced' = FALSE
  /\ endpointSlicesSynced' = FALSE /\ initialized' = FALSE
  /\ mu' = "free"
  /\ runner' = [r \in T!Runners |-> IF r = "loop" THEN "new" ELSE "waiting"]
  /\ run' = FALSE
  /\ timer' = "off"
  /\ taken' = NoObjects
  /\ UNCHANGED api
  /\ V!Crash

Pass(r) == Lock(r) \/ UpdateServiceMap(r) \/ UpdateEndpointsMap(r) \/ Program(r)

(* A pass comes to a service and has its way with it. *)
Achieve(n) == /\ haproxy[n] # Wanted(taken, n)
              /\ Call(n)
              /\ haproxy'[n] = Wanted(taken, n) /\ phase' = phase

Next == \/ \E k \in Kinds, n \in Names : Deliver(k, n)
        \/ \E k \in Kinds, n \in Names : Event(k, n)
        \/ \E k \in Kinds : CheckInitialized(k)
        \/ \E k \in Kinds : Sync(k)
        \/ OnServiceSynced
        \/ OnEndpointsConfigSynced
        \/ \E r \in T!Runners : Lock(r)
        \/ \E r \in T!Runners : UpdateServiceMap(r)
        \/ \E r \in T!Runners : UpdateEndpointsMap(r)
        \/ \E n \in Names : Call(n)
        \/ Disturb
        \/ \E r \in T!Runners : Program(r)
        \/ SyncLoop
        \/ Accept
        \/ Reject
        \/ HourPassed
        \/ Restart

(***************************************************************************)
(* As in SyncTrigger, and: the handlers of the initial objects get called,   *)
(* which come before later events in the queue of an informer; and the hour   *)
(* of the runner passes.  That the informers report synced is not assumed.   *)
(***************************************************************************)
Fairness == /\ \A k \in Kinds, n \in Names : SF_vars(Deliver(k, n))
            /\ \A k \in Kinds : WF_vars(CheckInitialized(k)) /\ WF_vars(Sync(k))
            /\ \A r \in T!Runners : WF_vars(Pass(r))
            /\ WF_vars(\E n \in Names : Achieve(n))
            /\ WF_vars(SyncLoop)
            /\ SF_vars(Accept)
            /\ WF_vars(HourPassed)

Spec     == Init /\ [][Next]_vars
FairSpec == Spec /\ Fairness

-----------------------------------------------------------------------------
(* Every variable has its type. *)
TypeOK ==
  /\ T!TypeOK
  /\ changes \in [Kinds -> [Names -> Changes \cup {None}]]
  /\ api \in [Kinds -> [Names -> AnyObjects]]
  /\ taken \in [Kinds -> [Names -> AnyObjects]]
  /\ \A k \in Kinds, n \in Names : {api[k][n], taken[k][n]} \subseteq Objects(k) \cup {None}
  /\ haproxy \in [Names -> Served]
  /\ phase \in {"idle", "plain", "disturbed", "done"}

(* As soon as the Proxier is initialized, a map that differs from what the     *)
(* handlers were called with has a pass coming that is going to bring it in,   *)
(* whatever the tracker made of the events and of changes that lead back.     *)
DivergenceIsDue ==
  initialized => \A k \in Kinds :
    (\E n \in Names : taken[k][n] # Known(k, n)) => T!Due(k)

(* HAProxy has for every name what objects say; only with no service at all    *)
(* may frontends without a backend be left.                                *)
Matches(objects) ==
  \/ \A n \in Names : haproxy[n] = Wanted(objects, n)
  \/ \A n \in Names : Wanted(objects, n) = None /\ haproxy[n] \in {None, Bare}

(* When the last pass went undisturbed and no other has been asked for,        *)
(* HAProxy has what the handlers were last called with: an event that came     *)
(* while the maps were taken or HAProxy was programmed, in whichever order     *)
(* and of whichever kind, is in what that pass did or has another one coming.  *)
QuietIsCurrent ==
  phase = "done" /\ (\A k \in Kinds : ~T!Due(k))
    => Matches([k \in Kinds |-> [n \in Names |-> Known(k, n)]])

(* The passes of all goroutines are one sequence of passes of PassView: what a  *)
(* pass works from does not change under it, and no other begins before it      *)
(* returns.                                                                *)
PassesAreSerial == V!Spec

(* When objects cease to change, calls to be disturbed and the process to be   *)
(* restarted, and the Proxier has been initialized, HAProxy ends up with what  *)
(* the API server has, although a pass that failed is not repeated by itself:  *)
(* the hourly run makes up for it.                                         *)
EventuallyConverged ==
  (/\ <>[]initialized
   /\ <>[][UNCHANGED api]_vars
   /\ <>[](phase # "disturbed"))
  => <>[]Matches(api)
=============================================================================
