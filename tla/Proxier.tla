------------------------------ MODULE Proxier ------------------------------
(***************************************************************************)
(* One instance of kube-haproxy programming one HAProxy: syncProxyRules     *)
(* (haproxy/proxier.go), call by call, against the configuration kept       *)
(* behind the Data Plane API.                                               *)
(*                                                                         *)
(* A pass takes the services and endpoints the trackers hold, creates or    *)
(* replaces the backend, the frontend, the bind and the servers of every    *)
(* service, and then deletes each frontend (and its backend) that belongs   *)
(* to no service it managed to program.  The pass holds proxier.mu, so no   *)
(* two passes overlap; what interleaves with it is the fate of every single *)
(* call and a crash of the process between any two of them, after which a   *)
(* new process, possibly with other options, meets whatever is left in      *)
(* HAProxy.                                                                *)
(*                                                                         *)
(* A name n \in Names stands for the string namespace.service.port that the *)
(* pass derives from a ServicePortName; the objects BACKEND.n, FRONTEND.n   *)
(* and BIND.n are the entries of the functions below at n, and the server   *)
(* POD.ip:port is the entry at the endpoint ip:port.                        *)
(***************************************************************************)
EXTENDS Naturals, DataplaneAPI

CONSTANTS
  Names,        \* services, by the name the pass gives them
  Endpoints,    \* ip:port pairs
  Ports,        \* ports a service may listen on
  Protocols,    \* protocols of service ports, in lower case
  ValidModes,   \* frontend modes HAProxy accepts
  Algorithms,   \* values of --server-algorithm
  Checks,       \* values of the Check field of a server
  Modes,        \* values of --mode; "of" is only-fetch
  Bypassed,     \* names skipped in mode "of" (default.kubernetes, kube-dns)
  MaxFaults,    \* bound: disturbed calls in one pass
  None          \* no such object

ASSUME FaultsAssumption == MaxFaults \in Nat
ASSUME NoneAssumption   == /\ None \notin Names /\ None \notin Ports
                           /\ None \notin Protocols /\ None \notin Algorithms
                           /\ None \notin Checks
                           /\ None \notin [protocol : Protocols, port : Ports]

VARIABLES
  backends,      \* HAProxy: balance algorithm of BACKEND.n (its mode is tcp)
  frontends,     \* HAProxy: mode of FRONTEND.n (its default backend is BACKEND.n)
  binds,         \* HAProxy: port of BIND.n (its address is always 0.0.0.0)
  servers,       \* HAProxy: Check field of each server of BACKEND.n
  options,       \* serverAlgorithm, isHealthCheck and mode of the running process
  serviceMap,    \* the services of the pass
  endpointsMap,  \* the endpoints of the pass
  srvList,       \* gracefuldeleteManager.srvList
  pc,            \* where the pass is
  svc,           \* the service being programmed or cleaned
  todo,          \* services of the range over serviceMap still to come
  active,        \* activeServices
  cur,           \* curEndpoints of syncEndpoint
  adds,          \* newEndpoints still to be looked at
  dels,          \* curEndpoints \ newEndpoints still to be deleted
  legacy,        \* currentServices \ activeServices still to be deleted
  faults,        \* history: disturbed calls of this pass
  was,           \* history: names programmed as wanted when the pass began
  clean          \* history: undisturbed passes in a row with the same inputs

store  == <<backends, frontends, binds, servers>>
inputs == <<options, serviceMap, endpointsMap>>
locals == <<svc, todo, active, cur, adds, dels, legacy>>
ghosts == <<was, clean>>
vars   == <<store, inputs, srvList, pc, locals, faults, ghosts>>

-----------------------------------------------------------------------------
Option(S)    == S \cup {None}
Services     == Option([protocol : Protocols, port : Ports])
Absent       == [e \in Endpoints |-> None]
NoServices   == [n \in Names |-> None]
Options      == [algorithm : Algorithms, check : Checks, mode : Modes]

(* The services the pass ranges over: all but those mode "of" skips. *)
Wanted == {n \in Names : /\ serviceMap[n] # None
                         /\ ~(options.mode = "of" /\ n \in Bypassed)}

(* HAProxy has the frontend side of n, exactly as the service asks. *)
Programmed(n) == /\ serviceMap[n] # None
                 /\ backends[n]  = options.algorithm
                 /\ frontends[n] = serviceMap[n].protocol
                 /\ binds[n]     = serviceMap[n].port

(* The server of endpoint e as syncEndpoint builds it is configured in n. *)
Serving(n, e) == servers[n][e] = options.check

Init == /\ backends = NoServices /\ frontends = NoServices /\ binds = NoServices
        /\ servers = [n \in Names |-> Absent]
        /\ options \in Options
        /\ serviceMap = NoServices
        /\ endpointsMap = [n \in Names |-> {}]
        /\ srvList = {}
        /\ pc = "idle" /\ svc = None
        /\ todo = {} /\ active = {} /\ adds = {} /\ dels = {} /\ legacy = {}
        /\ cur = Absent
        /\ faults = 0 /\ was = {} /\ clean = 0

-----------------------------------------------------------------------------
(* The calls of haproxy.go: the undisturbed answers to each, given what the *)
(* configuration holds.  A backend is always accepted; the frontend's mode  *)
(* is the protocol of the service port, which HAProxy may not know; a bind   *)
(* needs its frontend and a server its backend.                            *)

AddBackend(n)  == Post(backends[n] # None, TRUE)
AddFrontend(n) == Post(frontends[n] # None, serviceMap[n].protocol \in ValidModes)
AddBind(n)     == Post(binds[n] # None, frontends[n] # None)
AddServerToBackend(n, e) == Post(servers[n][e] # None, backends[n] # None)

(* The PUT of a backend goes to the URL of a server, that of a frontend is  *)
(* sent as a POST to an existing frontend: no route changes anything.       *)
ReplaceBackend  == {Reply("notFound", FALSE)}
ReplaceFrontend == {Reply("unknown", FALSE)}
replaceBind     == Put

(* A mutant: the deletion sent to a URL that has no route.                  *)
DeleteFrontendMisrouted(n) == {Reply("notFound", FALSE)}

DeleteFrontend(n) == Delete(frontends[n] # None)
DeleteBackend(n)  == Delete(backends[n] # None)
DeleteServerFromBackend(n, e) == Delete(servers[n][e] # None)

(***************************************************************************)
(* One stage of syncService: read the object; create it when the read finds *)
(* none, replace it when it differs.  A read that fails looks like an        *)
(* object that is absent.  The result is what the configuration holds       *)
(* afterwards, whether syncService goes on, and the faults it took.         *)
(***************************************************************************)
Result(a, old, new, ok, misread) ==
  [value |-> IF a.answer.applied THEN new ELSE old, ok |-> ok,
   cost |-> a.cost + misread]

Stage(old, want, post, put) ==
  LET created(misread) ==
        {Result(a, old, want, AddSucceeded(a.answer.code), misread) : a \in Attempts(post)}
      replaced ==
        {Result(a, old, want, ReplaceSucceeded(a.answer.code), 0) : a \in Attempts(put)}
      kept == {[value |-> old, ok |-> TRUE, cost |-> 0]}
  IN  IF old = None THEN created(0)
      ELSE created(1) \cup (IF old = want THEN kept ELSE replaced)

(* Spend the faults of a call; at most MaxFaults in a pass. *)
Spend(cost) == /\ faults + cost <= MaxFaults
               /\ faults' = faults + cost

-----------------------------------------------------------------------------
(* syncProxyRules up to the range over serviceMap: UpdateServiceMap and      *)
(* endpointsMap.Update bring in whatever happened since the last pass.      *)
StartSync ==
  /\ pc = "idle"
  /\ serviceMap' \in [Names -> Services]
  /\ endpointsMap' \in [Names -> SUBSET Endpoints]
  /\ UNCHANGED <<store, options, srvList, svc, cur, adds, dels, legacy>>
  /\ todo' = Wanted'
  /\ active' = {}
  /\ faults' = 0
  /\ was' = {n \in Wanted' : Programmed(n)'}
  /\ clean' = IF <<serviceMap', endpointsMap'>> = <<serviceMap, endpointsMap>>
              THEN clean ELSE 0
  /\ pc' = "pick"

(* syncService, backend part, of the next service of the range. *)
SyncBackend(n) ==
  /\ pc = "pick"
  /\ n \in todo
  /\ \E r \in Stage(backends[n], options.algorithm, AddBackend(n), ReplaceBackend) :
       /\ Spend(r.cost)
       /\ backends' = [backends EXCEPT ![n] = r.value]
       /\ pc' = IF r.ok THEN "frontend" ELSE "pick"
  /\ svc' = n
  /\ todo' = todo \ {n}
  /\ UNCHANGED <<frontends, binds, servers, inputs, srvList, active, cur, adds,
                 dels, legacy, ghosts>>

(* syncService, frontend part. *)
SyncFrontend ==
  /\ pc = "frontend"
  /\ \E r \in Stage(frontends[svc], serviceMap[svc].protocol, AddFrontend(svc),
                    ReplaceFrontend) :
       /\ Spend(r.cost)
       /\ frontends' = [frontends EXCEPT ![svc] = r.value]
       /\ pc' = IF r.ok THEN "bind" ELSE "pick"
  /\ UNCHANGED <<backends, binds, servers, inputs, srvList, locals, ghosts>>

(* syncService, bind part: when it succeeds the service is an active one. *)
SyncBind ==
  /\ pc = "bind"
  /\ \E r \in Stage(binds[svc], serviceMap[svc].port, AddBind(svc), replaceBind) :
       /\ Spend(r.cost)
       /\ binds' = [binds EXCEPT ![svc] = r.value]
       /\ pc' = IF r.ok THEN "servers" ELSE "pick"
       /\ active' = IF r.ok THEN active \cup {svc} ELSE active
  /\ UNCHANGED <<backends, frontends, servers, inputs, srvList, svc, todo, cur,
                 adds, dels, legacy, ghosts>>

-----------------------------------------------------------------------------
(* syncEndpoint.  A server equals another when every field does, so one with *)
(* the same name and another Check is both to be added and to be deleted.   *)

(* Mutants: everything listed is deleted; servers are compared by name only. *)
ObsoleteAll(n, c)    == {e \in Endpoints : c[e] # None}
ObsoleteByName(n, c) == {e \in Endpoints : c[e] # None /\ e \notin endpointsMap[n]}

(* curEndpoints.Difference(newEndpoints). *)
Obsolete(n, c) == {e \in Endpoints :
                     c[e] # None /\ ~(e \in endpointsMap[n] /\ c[e] = options.check)}

GetServers ==
  /\ pc = "servers"
  /\ \/ cur' = servers[svc] /\ Spend(0)
     \/ cur' = Absent /\ Spend(1)
  /\ adds' = endpointsMap[svc]
  /\ dels' = Obsolete(svc, cur')
  /\ pc' = "sync"
  /\ UNCHANGED <<store, inputs, srvList, svc, todo, active, legacy, ghosts>>

srvItem(n, e, check) == [backendName |-> n, endpoint |-> e, check |-> check]

(* MoveRSOutofGracefulDeleteList: the server on the list is deleted, and     *)
(* stays deleted in this pass.                                             *)
MoveRSOutofGracefulDeleteList(e) ==
  \E a \in Attempts(DeleteServerFromBackend(svc, e)) :
    /\ Spend(a.cost)
    /\ servers' = IF a.answer.applied
                  THEN [servers EXCEPT ![svc][e] = None] ELSE servers
    /\ srvList' = IF HandleError(a.answer.code).err THEN srvList
                  ELSE srvList \ {srvItem(svc, e, options.check)}

(* One round of the loop over newEndpoints; a failed addition is logged. *)
AddServer(e) ==
  /\ pc = "sync"
  /\ e \in adds
  /\ adds' = adds \ {e}
  /\ IF cur[e] = options.check
     THEN IF srvItem(svc, e, options.check) \in srvList
          THEN MoveRSOutofGracefulDeleteList(e)
          ELSE Spend(0) /\ UNCHANGED <<servers, srvList>>
     ELSE /\ \E a \in Attempts(AddServerToBackend(svc, e)) :
               /\ Spend(a.cost)
               /\ servers' = IF a.answer.applied
                             THEN [servers EXCEPT ![svc][e] = options.check]
                             ELSE servers
          /\ UNCHANGED srvList
  /\ UNCHANGED <<backends, frontends, binds, inputs, pc, svc, todo, active, cur,
                 dels, legacy, ghosts>>

(* graceTerminateSrvList.add, which adds only what the list already holds. *)
add(item) == srvList' = IF item \in srvList THEN srvList \cup {item} ELSE srvList

(* A mutant: the deletion left to the list without trying it first.          *)
GracefulDeleteLater(e) ==
  Spend(0) /\ UNCHANGED servers /\ add(srvItem(svc, e, cur[e]))

(***************************************************************************)
(* GracefulDeleteSrv with deleteSrvFunc: the deletion is by name; a read     *)
(* that finds no server, and an answer of 204, count as a failure.          *)
(***************************************************************************)
GracefulDeleteSrv(e) ==
  \/ /\ servers[svc][e] # None
     /\ \E a \in Attempts(DeleteServerFromBackend(svc, e)) :
          /\ Spend(a.cost)
          /\ servers' = IF a.answer.applied
                        THEN [servers EXCEPT ![svc][e] = None] ELSE servers
          /\ IF DeleteSucceeded(a.answer.code)
             THEN UNCHANGED srvList ELSE add(srvItem(svc, e, cur[e]))
  \/ /\ Spend(IF servers[svc][e] = None THEN 0 ELSE 1)
     /\ UNCHANGED servers
     /\ add(srvItem(svc, e, cur[e]))

(* One round of the loop over curEndpoints \ newEndpoints. *)
DeleteServer(e) ==
  /\ pc = "sync"
  /\ adds = {}
  /\ e \in dels
  /\ dels' = dels \ {e}
  /\ IF srvItem(svc, e, cur[e]) \in srvList
     THEN Spend(0) /\ UNCHANGED <<servers, srvList>>
     ELSE GracefulDeleteSrv(e)
  /\ UNCHANGED <<backends, frontends, binds, inputs, pc, svc, todo, active, cur,
                 adds, legacy, ghosts>>

EndEndpoint ==
  /\ pc = "sync"
  /\ adds = {} /\ dels = {}
  /\ pc' = "pick"
  /\ cur' = Absent
  /\ UNCHANGED <<store, inputs, srvList, svc, todo, active, adds, dels, legacy,
                 faults, ghosts>>

-----------------------------------------------------------------------------
(* GetServices and cleanLegacyService.  The list of services is empty when   *)
(* either list is, or when either read fails; an entry is a frontend with    *)
(* the backend it names.                                                   *)

(* Mutants: the frontend "stats" is not skipped (None stands for it); a       *)
(* frontend is listed only with its backend.                               *)
GetServicesAndStats  == {n \in Names : frontends[n] # None} \cup {None}
GetServicesComplete  == {n \in Names : frontends[n] # None /\ backends[n] # None}

GetServices == IF \/ \A n \in Names : backends[n] = None
                  \/ \A n \in Names : frontends[n] = None
               THEN {} ELSE {n \in Names : frontends[n] # None}

ListServices ==
  /\ pc = "pick"
  /\ todo = {}
  /\ \/ legacy' = GetServices \ active /\ Spend(0)
     \/ legacy' = {} /\ Spend(1)
  /\ pc' = "clean"
  /\ UNCHANGED <<store, inputs, srvList, svc, todo, active, cur, adds, dels, ghosts>>

(* cleanLegacyService, DeleteFrontend: the result is ignored. *)
CleanFrontend(n) ==
  /\ pc = "clean"
  /\ n \in legacy
  /\ \E a \in Attempts(DeleteFrontend(n)) :
       /\ Spend(a.cost)
       /\ IF a.answer.applied
          THEN /\ frontends' = [frontends EXCEPT ![n] = None]
               /\ binds' = [binds EXCEPT ![n] = None]
          ELSE UNCHANGED <<frontends, binds>>
  /\ svc' = n
  /\ legacy' = legacy \ {n}
  /\ pc' = "cleanBackend"
  /\ UNCHANGED <<backends, servers, inputs, srvList, todo, active, cur, adds,
                 dels, ghosts>>

(* cleanLegacyService, DeleteBackend: the result is ignored. *)
CleanBackend ==
  /\ pc = "cleanBackend"
  /\ \E a \in Attempts(DeleteBackend(svc)) :
       /\ Spend(a.cost)
       /\ IF a.answer.applied
          THEN /\ backends' = [backends EXCEPT ![svc] = None]
               /\ servers' = [servers EXCEPT ![svc] = Absent]
          ELSE UNCHANGED <<backends, servers>>
  /\ pc' = "clean"
  /\ UNCHANGED <<frontends, binds, inputs, srvList, locals, ghosts>>

EndSync ==
  /\ pc = "clean"
  /\ legacy = {}
  /\ pc' = "idle"
  /\ svc' = None /\ cur' = Absent /\ active' = {}
  /\ clean' = IF faults > 0 THEN 0 ELSE IF clean < 2 THEN clean + 1 ELSE clean
  /\ UNCHANGED <<store, inputs, srvList, todo, adds, dels, legacy, faults, was>>

(* The process ends at any point and a new one starts, perhaps with other   *)
(* options: HAProxy keeps what it has, everything else is new.              *)
Restart ==
  /\ options' \in Options
  /\ serviceMap' = NoServices
  /\ endpointsMap' = [n \in Names |-> {}]
  /\ srvList' = {}
  /\ pc' = "idle" /\ svc' = None /\ cur' = Absent
  /\ todo' = {} /\ active' = {} /\ adds' = {} /\ dels' = {} /\ legacy' = {}
  /\ faults' = 0 /\ was' = {} /\ clean' = 0
  /\ UNCHANGED store

Next == \/ StartSync
        \/ \E n \in Names : SyncBackend(n)
        \/ SyncFrontend
        \/ SyncBind
        \/ GetServers
        \/ \E e \in Endpoints : AddServer(e)
        \/ \E e \in Endpoints : DeleteServer(e)
        \/ EndEndpoint
        \/ ListServices
        \/ \E n \in Names : CleanFrontend(n)
        \/ CleanBackend
        \/ EndSync
        \/ Restart

Spec == Init /\ [][Next]_vars

-----------------------------------------------------------------------------
(* Every variable has its type. *)
TypeOK ==
  /\ backends  \in [Names -> Option(Algorithms)]
  /\ frontends \in [Names -> Option(Protocols)]
  /\ binds     \in [Names -> Option(Ports)]
  /\ servers   \in [Names -> [Endpoints -> Option(Checks)]]
  /\ options \in Options
  /\ serviceMap \in [Names -> Services]
  /\ endpointsMap \in [Names -> SUBSET Endpoints]
  /\ srvList \in SUBSET [backendName : Names, endpoint : Endpoints,
                         check : Option(Checks)]
  /\ pc \in {"idle", "pick", "frontend", "bind", "servers", "sync", "clean",
             "cleanBackend"}
  /\ svc \in Option(Names)
  /\ todo \subseteq Names /\ active \subseteq Names /\ legacy \subseteq Names
  /\ cur \in [Endpoints -> Option(Checks)]
  /\ adds \subseteq Endpoints /\ dels \subseteq Endpoints
  /\ faults \in 0..MaxFaults
  /\ was \subseteq Names
  /\ clean \in 0..2

(* A service that HAProxy already has exactly as it is wanted keeps its     *)
(* backend, frontend and bind all through a pass, each step of it included, *)
(* when at most one call of the pass is disturbed: a failed read leads      *)
(* syncService to create the object again, and the 409 that answers counts  *)
(* as a success.  (Two disturbed calls are enough to lose the service.)      *)
LiveServiceSurvives ==
  faults <= 1 => \A n \in was : Programmed(n)

(* syncEndpoint and the cleanup never take away a server that is wanted, has *)
(* the wanted fields and belongs to a service the pass programmed: only the *)
(* difference of the two sets is deleted, by name, and no other name.        *)
NoLiveServerRemoved ==
  [][\A n \in active : \A e \in endpointsMap[n] :
        Serving(n, e) => servers'[n][e] = options.check]_vars

(* Without disturbed calls a frontend never lacks the backend it forwards   *)
(* to, whatever the service turned into and wherever the process ended: the *)
(* backend comes first and goes last.                                      *)
NoDanglingFrontend ==
  \A n \in Names : frontends[n] # None => backends[n] # None

(* The service is one HAProxy can have: wanted, with a mode it accepts. *)
Servable(n) == n \in Wanted /\ serviceMap[n].protocol \in ValidModes

(* HAProxy has service n with exactly the wanted servers. *)
Converged(n) == /\ Programmed(n)
                /\ \A e \in Endpoints :
                     servers[n][e] = IF e \in endpointsMap[n] THEN options.check
                                     ELSE None

(* One pass without a disturbed call gives every servable service exactly   *)
(* what it wants, whatever earlier passes, failed calls and crashes left    *)
(* behind, as long as the options have always been the same.               *)
OnePassConverges ==
  pc = "idle" /\ clean >= 1 => \A n \in Names : Servable(n) => Converged(n)

(* After isHealthCheck has changed two such passes are needed: the first    *)
(* deletes the old server by the name it shares with the new one.           *)
TwoPassesConverge ==
  pc = "idle" /\ clean >= 2 => \A n \in Names : Servable(n) => Converged(n)

(* A pass without a disturbed call leaves no frontend or bind of a service   *)
(* that is gone or that HAProxy cannot have; the exception is a HAProxy      *)
(* without any backend, and no service to have, as GetServices lists nothing *)
(* then.                                                                   *)
LegacyRemoved ==
  pc = "idle" /\ clean >= 1
    => \/ \A n \in Names : ~Servable(n) => frontends[n] = None /\ binds[n] = None
       \/ \A n \in Names : ~Servable(n) /\ backends[n] = None

-----------------------------------------------------------------------------
(* The pass as PassView has it: all objects of a name at once, and what each   *)
(* servable service is to have.                                            *)
Held == [backend : Option(Algorithms), frontend : Option(Protocols),
         bind : Option(Ports), servers : [Endpoints -> Option(Checks)]]
ASSUME HeldAssumption == None \notin Held
Gone == {h \in Held : h.frontend = None /\ h.bind = None}
Bare == {h \in Held : h.backend = None}

held == [n \in Names |-> [backend |-> backends[n], frontend |-> frontends[n],
                          bind |-> binds[n], servers |-> servers[n]]]

Asked(n) == [backend  |-> options.algorithm,
             frontend |-> serviceMap[n].protocol,
             bind     |-> serviceMap[n].port,
             servers  |-> [e \in Endpoints |->
                             IF e \in endpointsMap[n] THEN options.check ELSE None]]

wanted == [n \in Names |-> IF pc # "idle" /\ Servable(n) THEN Asked(n) ELSE None]

phase == IF pc = "idle" THEN IF clean > 0 THEN "done" ELSE "idle"
         ELSE IF faults = 0 THEN "plain" ELSE "disturbed"

View == INSTANCE PassView

(* A pass, one call after the other, implements PassView, as long as the       *)
(* options have always been the same: until a call is disturbed it leaves a    *)
(* service alone that is as wanted, whichever half of which other service it   *)
(* is creating or cleaning up, and it does not return before all are.         *)
ImplementsPassView == View!Spec

-----------------------------------------------------------------------------
(* What comments of the code say, and the code does not do. *)

(* proxier.go:466, "Clean up legacy IPVS services": the cleanup deletes only *)
(* frontends of services that are gone.                                    *)
OnlyLegacyCleaned ==
  [][\A n \in Names : frontends[n] # None /\ frontends'[n] = None
                        => n \notin Wanted]_vars

(* proxier.go:466 again: after an undisturbed pass every legacy service is   *)
(* gone, its backend included.                                             *)
LegacyCleaned ==
  pc = "idle" /\ clean >= 1
    => \A n \in Names \ Wanted : frontends[n] = None /\ backends[n] = None

(* graceful_termination.go:124, "add rs to graceful terminate list": a       *)
(* server the pass wanted to delete and could not is on the list.           *)
FailedDeletionQueued ==
  [][\A e \in dels \ dels' : (pc = "sync" /\ pc' = "sync" /\ servers'[svc][e] # None)
        => srvItem(svc, e, cur[e]) \in srvList']_vars

=============================================================================
