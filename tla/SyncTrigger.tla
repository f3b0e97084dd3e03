---------------------------- MODULE SyncTrigger ----------------------------
(***************************************************************************)
(* When syncProxyRules runs: the goroutines of ProxyServer.Run              *)
(* (server/app/server.go) around one Proxier.                               *)
(*                                                                         *)
(*  - one informer goroutine per kind of object delivers the events: the     *)
(*    handler records the change in its tracker, then looks whether the     *)
(*    Proxier is initialized, then asks the runner for a pass;              *)
(*  - one goroutine per kind (Run of config/config.go) waits until the      *)
(*    informer has synced, sets the flags and runs a pass itself; the        *)
(*    informer says so when the initial list has left its queue, whether or  *)
(*    not the handlers, in a goroutine of their own, have been called with   *)
(*    all of it (Informer().HasSynced of client-go v0.19.11);               *)
(*  - the loop of the BoundedFrequencyRunner runs a pass when asked, or      *)
(*    later when the rate limit says so, or after an hour.                  *)
(*                                                                         *)
(* The passes exclude each other by proxier.mu; the handlers take no lock   *)
(* but that of their tracker, so everything else interleaves.  What a pass   *)
(* does with what it drains is the module Proxier.                          *)
(***************************************************************************)
EXTENDS Naturals

CONSTANTS
  Names,      \* objects (a service, or its endpoints or slices)
  UseSlices   \* UseEndpointSlices: slices are watched, not endpoints

ASSUME ConfigAssumption == UseSlices \in BOOLEAN

Kinds   == {"services", "endpoints"}
Runners == Kinds \cup {"loop"}   \* who may run a pass

VARIABLES
  backlog,               \* initial objects whose handlers were not called yet
  items,                 \* changes the trackers hold
  handler,               \* where the handler of each kind is
  servicesSynced, endpointsSynced, endpointSlicesSynced,
  initialized,
  mu,                    \* who holds proxier.mu, or "free"
  runner,                \* where each runner is
  run,                   \* BoundedFrequencyRunner: a request is in the channel
  timer                  \* BoundedFrequencyRunner: how the timer is set

flags == <<servicesSynced, endpointsSynced, endpointSlicesSynced, initialized>>
vars  == <<backlog, items, handler, flags, mu, runner, run, timer>>

Init == /\ backlog \in [Kinds -> SUBSET Names]
        /\ items = [k \in Kinds |-> {}]
        /\ handler = [k \in Kinds |-> "ready"]
        /\ servicesSynced = FALSE /\ endpointsSynced = FALSE
        /\ endpointSlicesSynced = FALSE /\ initialized = FALSE
        /\ mu = "free"
        /\ runner = [r \in Runners |-> IF r = "loop" THEN "new" ELSE "waiting"]
        /\ run = FALSE
        /\ timer = "off"

-----------------------------------------------------------------------------
Outcome(pending, changed) == [pending |-> pending, changed |-> changed]

(***************************************************************************)
(* The changes a tracker may hold after an event about n, and what Update    *)
(* returns: Service- and EndpointChangeTracker.Update merge the change with  *)
(* what is pending, drop it when it leads back to what was last applied, and *)
(* say whether anything is pending; EndpointSliceUpdate keeps what is        *)
(* pending and says whether this event changed anything.                    *)
(***************************************************************************)
Update(k, n) ==
  IF UseSlices /\ k = "endpoints"
  THEN {Outcome(items[k] \cup {n}, TRUE), Outcome(items[k], FALSE)}
  ELSE {Outcome(S, S # {}) : S \in {items[k] \cup {n}, items[k] \ {n}}}

(* OnServiceUpdate, OnEndpointsUpdate, OnEndpointSliceUpdate and their Add    *)
(* and Delete forms, up to the return of Update.                           *)
OnUpdate(k, n) ==
  /\ handler[k] = "ready"
  /\ \E u \in Update(k, n) :
       /\ items' = [items EXCEPT ![k] = u.pending]
       /\ handler' = [handler EXCEPT ![k] = IF u.changed THEN "check" ELSE "ready"]
  /\ backlog' = [backlog EXCEPT ![k] = @ \ {n}]
  /\ UNCHANGED <<flags, mu, runner, run, timer>>

(* ... && proxier.isInitialized() *)
CheckInitialized(k) ==
  /\ handler[k] = "check"
  /\ handler' = [handler EXCEPT ![k] = IF initialized THEN "notify" ELSE "ready"]
  /\ UNCHANGED <<backlog, items, flags, mu, runner, run, timer>>

(* Sync, which is syncRunner.Run: the channel holds one request.           *)
Sync(k) ==
  /\ handler[k] = "notify"
  /\ handler' = [handler EXCEPT ![k] = "ready"]
  /\ run' = TRUE
  /\ UNCHANGED <<backlog, items, flags, mu, runner, timer>>

-----------------------------------------------------------------------------
(* WaitForNamedCacheSync returns, then the critical section of the           *)
(* On...Synced method.  Endpoints and slices set different flags;            *)
(* OnServiceSynced looks at that of the endpoints alone.                    *)

(* A mutant: services are enough.                                          *)
OnServiceSyncedAlone ==
  /\ runner["services"] = "waiting" /\ mu = "free"
  /\ servicesSynced' = TRUE
  /\ initialized' = TRUE
  /\ runner' = [runner EXCEPT !["services"] = "call"]
  /\ UNCHANGED <<backlog, items, handler, endpointsSynced, endpointSlicesSynced,
                 mu, run, timer>>

(* A mutant: the endpoints' flag is looked at by nobody.                    *)
OnServiceSyncedNever ==
  /\ runner["services"] = "waiting" /\ mu = "free"
  /\ servicesSynced' = TRUE
  /\ runner' = [runner EXCEPT !["services"] = "call"]
  /\ UNCHANGED <<backlog, items, handler, endpointsSynced, endpointSlicesSynced,
                 initialized, mu, run, timer>>

OnServiceSynced ==
  /\ runner["services"] = "waiting" /\ mu = "free"
  /\ servicesSynced' = TRUE
  /\ initialized' = endpointsSynced
  /\ runner' = [runner EXCEPT !["services"] = "call"]
  /\ UNCHANGED <<backlog, items, handler, endpointsSynced, endpointSlicesSynced,
                 mu, run, timer>>

OnEndpointsSynced ==
  /\ runner["endpoints"] = "waiting" /\ mu = "free"
  /\ endpointsSynced' = TRUE
  /\ initialized' = servicesSynced
  /\ runner' = [runner EXCEPT !["endpoints"] = "call"]
  /\ UNCHANGED <<backlog, items, handler, servicesSynced, endpointSlicesSynced,
                 mu, run, timer>>

OnEndpointSlicesSynced ==
  /\ runner["endpoints"] = "waiting" /\ mu = "free"
  /\ endpointSlicesSynced' = TRUE
  /\ initialized' = servicesSynced
  /\ runner' = [runner EXCEPT !["endpoints"] = "call"]
  /\ UNCHANGED <<backlog, items, handler, servicesSynced, endpointsSynced, mu,
                 run, timer>>

(* Run of ProxyServer starts one of the two configs. *)
OnEndpointsConfigSynced ==
  IF UseSlices THEN OnEndpointSlicesSynced ELSE OnEndpointsSynced

-----------------------------------------------------------------------------
(* syncProxyRules as called by r.  When it returns, the loop sets its timer  *)
(* to an hour, and the goroutines of the configs are done.                  *)
Return(r) ==
  /\ runner' = [runner EXCEPT ![r] = IF r = "loop" THEN "idle" ELSE "done"]
  /\ timer' = IF r = "loop" THEN "hour" ELSE timer

Lock(r) ==
  /\ runner[r] = "call" /\ mu = "free"
  /\ IF initialized
     THEN /\ mu' = r
          /\ runner' = [runner EXCEPT ![r] = "services"]
          /\ UNCHANGED timer
     ELSE Return(r) /\ UNCHANGED mu
  /\ UNCHANGED <<backlog, items, handler, flags, run>>

(* A mutant: the tracker of the services is taken away with its changes.     *)
UpdateServiceMapWipes(r) ==
  /\ runner[r] = "services"
  /\ items' = [k \in Kinds \ {"services"} |-> items[k]]
  /\ runner' = [runner EXCEPT ![r] = "endpoints"]
  /\ UNCHANGED <<backlog, handler, flags, mu, run, timer>>

(* UpdateServiceMap: the changes are taken under the tracker's lock.        *)
UpdateServiceMap(r) ==
  /\ runner[r] = "services"
  /\ items' = [items EXCEPT !["services"] = {}]
  /\ runner' = [runner EXCEPT ![r] = "endpoints"]
  /\ UNCHANGED <<backlog, handler, flags, mu, run, timer>>

(* A mutant: with the changes taken, the request that waits is dropped.      *)
UpdateEndpointsMapEager(r) ==
  /\ runner[r] = "endpoints"
  /\ items' = [items EXCEPT !["endpoints"] = {}]
  /\ runner' = [runner EXCEPT ![r] = "program"]
  /\ run' = FALSE
  /\ UNCHANGED <<backlog, handler, flags, mu, timer>>

(* endpointsMap.Update. *)
UpdateEndpointsMap(r) ==
  /\ runner[r] = "endpoints"
  /\ items' = [items EXCEPT !["endpoints"] = {}]
  /\ runner' = [runner EXCEPT ![r] = "program"]
  /\ UNCHANGED <<backlog, handler, flags, mu, run, timer>>

(* The rest of the pass, which looks at the two maps only, and the unlock.   *)
Program(r) ==
  /\ runner[r] = "program"
  /\ mu' = "free"
  /\ Return(r)
  /\ UNCHANGED <<backlog, items, handler, flags, run>>

-----------------------------------------------------------------------------
(* BoundedFrequencyRunner of k8s.io/kubernetes: Loop and tryRun.  The rate    *)
(* limiter either accepts a run or has the timer set to the moment when the   *)
(* next run is possible.                                                   *)

SyncLoop ==
  /\ runner["loop"] = "new"
  /\ runner' = [runner EXCEPT !["loop"] = "idle"]
  /\ timer' = "hour"
  /\ UNCHANGED <<backlog, items, handler, flags, mu, run>>

(* The loop takes a request from the channel, or its timer fires. *)
Wake(due) == \/ run /\ run' = FALSE
             \/ timer = due /\ UNCHANGED run

Accept ==
  /\ runner["loop"] = "idle"
  /\ Wake("soon")
  /\ runner' = [runner EXCEPT !["loop"] = "call"]
  /\ UNCHANGED <<backlog, items, handler, flags, mu, timer>>

Reject ==
  /\ runner["loop"] = "idle"
  /\ Wake("soon")
  /\ timer' = "soon"
  /\ UNCHANGED <<backlog, items, handler, flags, mu, runner>>

HourPassed ==
  /\ runner["loop"] = "idle"
  /\ timer = "hour"
  /\ runner' = [runner EXCEPT !["loop"] = "call"]
  /\ UNCHANGED <<backlog, items, handler, flags, mu, run, timer>>

Pass(r) == Lock(r) \/ UpdateServiceMap(r) \/ UpdateEndpointsMap(r) \/ Program(r)

Next == \/ \E k \in Kinds, n \in Names : OnUpdate(k, n)
        \/ \E k \in Kinds : CheckInitialized(k)
        \/ \E k \in Kinds : Sync(k)
        \/ OnServiceSynced
        \/ OnEndpointsConfigSynced
        \/ \E r \in Runners : Lock(r)
        \/ \E r \in Runners : UpdateServiceMap(r)
        \/ \E r \in Runners : UpdateEndpointsMap(r)
        \/ \E r \in Runners : Program(r)
        \/ SyncLoop
        \/ Accept
        \/ Reject
        \/ HourPassed

(***************************************************************************)
(* A goroutine that can go on does; a request to the limiter is not refused  *)
(* for ever.  Nothing is assumed of the informers: events, and the news that *)
(* they have synced, may or may not come.  Nor is the hourly run assumed.    *)
(***************************************************************************)
Fairness == /\ \A k \in Kinds : WF_vars(CheckInitialized(k)) /\ WF_vars(Sync(k))
            /\ \A r \in Runners : WF_vars(Pass(r))
            /\ WF_vars(SyncLoop)
            /\ SF_vars(Accept)

Spec     == Init /\ [][Next]_vars
FairSpec == Spec /\ Fairness

-----------------------------------------------------------------------------
(* Every variable has its type. *)
TypeOK ==
  /\ backlog \in [Kinds -> SUBSET Names]
  /\ items \in [Kinds -> SUBSET Names]
  /\ handler \in [Kinds -> {"ready", "check", "notify"}]
  /\ servicesSynced \in BOOLEAN /\ endpointsSynced \in BOOLEAN
  /\ endpointSlicesSynced \in BOOLEAN /\ initialized \in BOOLEAN
  /\ mu \in Runners \cup {"free"}
  /\ runner \in [Runners -> {"new", "idle", "waiting", "call", "services",
                             "endpoints", "program", "done"}]
  /\ run \in BOOLEAN
  /\ timer \in {"off", "soon", "hour"}

(* A change of kind k that nobody has taken yet is going to be: the handler   *)
(* is about to ask, a request or the timer of a refused one is pending, or a  *)
(* runner is about to take the changes of that kind.                        *)
Due(k) ==
  \/ handler[k] \in {"check", "notify"}
  \/ run
  \/ runner["loop"] = "idle" /\ timer = "soon"
  \/ \E r \in Runners : runner[r] \in {"call", "services"} \cup {k}

(* No change is left behind: once the Proxier is initialized, a pending       *)
(* change always has a pass coming, although the handlers record it, look at  *)
(* the flag and ask without proxier.mu, the requests are merged in a channel  *)
(* of one, and the flag may be set between any two of these.               *)
NoLostChange == initialized => \A k \in Kinds : items[k] # {} => Due(k)

InPass(r) == runner[r] \in {"services", "endpoints", "program"}

(* No goroutine reads the maps or programs HAProxy before both informers have  *)
(* reported synced, in whichever order they do and whoever is asked for a      *)
(* pass meanwhile.                                                         *)
NoPassBeforeSync ==
  (\E r \in Runners : InPass(r)) => \A k \in Kinds : runner[k] # "waiting"

(* What the comments of config.go promise besides (44, 61, 78): synced is      *)
(* called after the handlers of all initial objects, so that a pass never     *)
(* works from partial data and deletes services still to be delivered.       *)
NoPartialProgramming ==
  (\E r \in Runners : InPass(r)) => \A k \in Kinds : backlog[k] = {}

(* Once both informers have synced the Proxier is initialized, in whichever   *)
(* order they did: nothing would ever set the flag later.                  *)
SyncedMeansInitialized ==
  (\A k \in Kinds : runner[k] # "waiting") => initialized

(* A recorded change is taken by a pass, or taken back, in the end.          *)
ChangesTaken ==
  \A k \in Kinds, n \in Names :
    (initialized /\ n \in items[k]) ~> n \notin items[k]
=============================================================================
