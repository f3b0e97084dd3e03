--------------------------- MODULE ProxierProofs ---------------------------
(* Proofs about Proxier, for any services, endpoints, options and faults. *)
EXTENDS Proxier, TLAPS

-----------------------------------------------------------------------------
(* The answers of the Data Plane API, and what handleError makes of them. *)

LEMMA ReplyType ==
  ASSUME NEW code \in Codes, NEW applied \in BOOLEAN
  PROVE  Reply(code, applied) \in Answer
BY DEF Reply, Answer

LEMMA AnswerTypes ==
  ASSUME NEW exists \in BOOLEAN, NEW valid \in BOOLEAN
  PROVE  /\ Post(exists, valid) \subseteq Answer
         /\ Delete(exists) \subseteq Answer
         /\ Put \subseteq Answer
         /\ ReplaceBackend \subseteq Answer
         /\ ReplaceFrontend \subseteq Answer
<1>1. /\ Reply("accepted", TRUE) \in Answer /\ Reply("noContent", TRUE) \in Answer
      /\ Reply("badRequest", FALSE) \in Answer /\ Reply("conflict", FALSE) \in Answer
      /\ Reply("notFound", FALSE) \in Answer /\ Reply("unknown", FALSE) \in Answer
  BY ReplyType DEF Codes
<1>2. QED
  BY <1>1 DEF Post, Delete, Put, ReplaceBackend, ReplaceFrontend

(* What is known of an attempted call: without a fault its answer is one of   *)
(* the undisturbed ones, and it changes the configuration only if one of them *)
(* does.                                                                   *)
LEMMA AttemptFacts ==
  ASSUME NEW S \in SUBSET Answer, NEW a \in Attempts(S)
  PROVE  /\ a.answer \in Answer
         /\ a.cost \in {0, 1}
         /\ a.cost = 0 => a.answer \in S
         /\ a.answer.applied => \E x \in S : x.applied
<1>1. CASE \E x \in S : a = [answer |-> x, cost |-> 0]
  BY <1>1
<1>2. CASE \E x \in Disturbed(S) : a = [answer |-> x, cost |-> 1]
  <2>1. PICK x \in Disturbed(S) : a = [answer |-> x, cost |-> 1]
    BY <1>2
  <2>2. CASE x \in {Reply("conflict", FALSE), Reply("unreachable", FALSE)}
    <3>1. /\ Reply("conflict", FALSE) \in Answer
          /\ Reply("unreachable", FALSE) \in Answer
      BY ReplyType DEF Codes
    <3>2. x \in Answer
      BY <2>2, <3>1
    <3>3. x.applied = FALSE
      BY <2>2 DEF Reply
    <3>4. QED
      BY <2>1, <3>2, <3>3
  <2>3. CASE \E y \in S : x = Reply("unreachable", y.applied)
    <3>1. PICK y \in S : x = Reply("unreachable", y.applied)
      BY <2>3
    <3>2. y.applied \in BOOLEAN
      BY DEF Answer
    <3>3. x \in Answer
      BY <3>1, <3>2, ReplyType DEF Codes
    <3>4. x.applied = y.applied
      BY <3>1 DEF Reply
    <3>5. QED
      BY <2>1, <3>3, <3>4
  <2>4. QED
    BY <2>2, <2>3 DEF Disturbed
<1>3. QED
  BY <1>1, <1>2 DEF Attempts

LEMMA ConflictSucceeds == AddSucceeded("conflict")
BY DEF AddSucceeded, HandleError

LEMMA SuccessTypes ==
  ASSUME NEW code \in Codes
  PROVE  AddSucceeded(code) \in BOOLEAN /\ ReplaceSucceeded(code) \in BOOLEAN
BY DEF AddSucceeded, ReplaceSucceeded

-----------------------------------------------------------------------------
(* A stage of syncService, whatever object it is about: it leaves the object   *)
(* as it was or makes it the wanted one.                                    *)
LEMMA StageFacts ==
  ASSUME NEW old, NEW want, NEW post \in SUBSET Answer, NEW put \in SUBSET Answer,
         NEW r \in Stage(old, want, post, put)
  PROVE  /\ r.value \in {old, want}
         /\ r.ok \in BOOLEAN
         /\ r.cost \in 0..2
<1>1. CASE \E misread \in {0, 1}, a \in Attempts(post) :
             r = Result(a, old, want, AddSucceeded(a.answer.code), misread)
  <2>1. PICK misread \in {0, 1}, a \in Attempts(post) :
          r = Result(a, old, want, AddSucceeded(a.answer.code), misread)
    BY <1>1
  <2>2. a.answer.code \in Codes /\ a.cost \in {0, 1}
    BY AttemptFacts DEF Answer
  <2>3. QED
    BY <2>1, <2>2, SuccessTypes DEF Result
<1>2. CASE \E a \in Attempts(put) :
             r = Result(a, old, want, ReplaceSucceeded(a.answer.code), 0)
  <2>1. PICK a \in Attempts(put) :
          r = Result(a, old, want, ReplaceSucceeded(a.answer.code), 0)
    BY <1>2
  <2>2. a.answer.code \in Codes /\ a.cost \in {0, 1}
    BY AttemptFacts DEF Answer
  <2>3. QED
    BY <2>1, <2>2, SuccessTypes DEF Result
<1>3. CASE r = [value |-> old, ok |-> TRUE, cost |-> 0]
  BY <1>3
<1>4. QED
  BY <1>1, <1>2, <1>3 DEF Stage

(* An object that is as wanted stays so, and the stage succeeds, when at most   *)
(* one call is disturbed: a failed read is followed by an undisturbed POST,    *)
(* whose 409 counts as a success.                                          *)
LEMMA StageKeeps ==
  ASSUME NEW want, want # None, NEW put \in SUBSET Answer,
         NEW post, post = {Reply("conflict", FALSE)},
         NEW r \in Stage(want, want, post, put), r.cost <= 1
  PROVE  r.value = want /\ r.ok
<1>1. post \in SUBSET Answer
  BY ReplyType DEF Codes
<1>2. r.value \in {want, want}
  <2>1. r \in Stage(want, want, post, put)
    OBVIOUS
  <2>2. QED
    BY <1>1, <2>1, StageFacts
<1>3. CASE \E a \in Attempts(post) :
             r = Result(a, want, want, AddSucceeded(a.answer.code), 1)
  <2>1. PICK a \in Attempts(post) :
          r = Result(a, want, want, AddSucceeded(a.answer.code), 1)
    BY <1>3
  <2>2. a.cost \in {0, 1} /\ (a.cost = 0 => a.answer \in post)
    BY <1>1, AttemptFacts
  <2>3. a.cost = 0
    BY <2>1, <2>2 DEF Result
  <2>4. a.answer = Reply("conflict", FALSE)
    BY <2>2, <2>3
  <2>5. QED
    BY <1>2, <2>1, <2>4, ConflictSucceeds DEF Result, Reply
<1>4. CASE r = [value |-> want, ok |-> TRUE, cost |-> 0]
  BY <1>4
<1>5. QED
  BY <1>3, <1>4 DEF Stage

LEMMA CallTypes ==
  ASSUME NEW n, NEW e
  PROVE  /\ AddBackend(n) \in SUBSET Answer
         /\ AddFrontend(n) \in SUBSET Answer
         /\ AddBind(n) \in SUBSET Answer
         /\ AddServerToBackend(n, e) \in SUBSET Answer
         /\ ReplaceBackend \in SUBSET Answer
         /\ ReplaceFrontend \in SUBSET Answer
         /\ replaceBind \in SUBSET Answer
         /\ DeleteFrontend(n) \in SUBSET Answer
         /\ DeleteBackend(n) \in SUBSET Answer
         /\ DeleteServerFromBackend(n, e) \in SUBSET Answer
<1>1. /\ Reply("accepted", TRUE) \in Answer /\ Reply("noContent", TRUE) \in Answer
      /\ Reply("badRequest", FALSE) \in Answer /\ Reply("conflict", FALSE) \in Answer
      /\ Reply("notFound", FALSE) \in Answer /\ Reply("unknown", FALSE) \in Answer
  BY ReplyType DEF Codes
<1>2. AddBackend(n) \in SUBSET Answer
  BY <1>1 DEF AddBackend, Post
<1>3. AddFrontend(n) \in SUBSET Answer
  BY <1>1 DEF AddFrontend, Post
<1>4. AddBind(n) \in SUBSET Answer
  BY <1>1 DEF AddBind, Post
<1>5. AddServerToBackend(n, e) \in SUBSET Answer
  BY <1>1 DEF AddServerToBackend, Post
<1>6. /\ ReplaceBackend \in SUBSET Answer
      /\ ReplaceFrontend \in SUBSET Answer
      /\ replaceBind \in SUBSET Answer
  BY <1>1 DEF ReplaceBackend, ReplaceFrontend, replaceBind, Put
<1>7. DeleteFrontend(n) \in SUBSET Answer
  BY <1>1 DEF DeleteFrontend, Delete
<1>8. DeleteBackend(n) \in SUBSET Answer
  BY <1>1 DEF DeleteBackend, Delete
<1>9. DeleteServerFromBackend(n, e) \in SUBSET Answer
  BY <1>1 DEF DeleteServerFromBackend, Delete
<1>10. QED
  BY <1>2, <1>3, <1>4, <1>5, <1>6, <1>7, <1>8, <1>9

-----------------------------------------------------------------------------
(* Where the pass is: svc is the service it works on, todo the services still *)
(* to come, active those it programmed.  The last conjunct says that nothing  *)
(* ever enters srvList, because add only adds what the list already holds.    *)
PassOK ==
  /\ todo \subseteq Wanted
  /\ active \subseteq Wanted
  /\ pc \in {"frontend", "bind"} => svc \in Wanted
  /\ pc \in {"servers", "sync"} => svc \in active
  /\ pc = "cleanBackend" => svc \in Names \ active
  /\ pc \in {"idle", "clean", "cleanBackend"} => todo = {}
  /\ legacy \cap active = {}
  /\ pc \notin {"clean", "cleanBackend"} => legacy = {}
  /\ srvList = {}

LEMMA WantedFacts ==
  ASSUME TypeOK, NEW n \in Wanted
  PROVE  /\ n \in Names
         /\ serviceMap[n] # None
         /\ serviceMap[n].protocol \in Protocols
         /\ serviceMap[n].port \in Ports
<1>1. n \in Names /\ serviceMap[n] # None
  BY DEF Wanted
<1>2. serviceMap[n] \in [protocol : Protocols, port : Ports]
  BY <1>1 DEF TypeOK, Services, Option
<1>3. QED
  BY <1>1, <1>2

LEMMA InitPassOK == Init => TypeOK /\ PassOK
<1> SUFFICES ASSUME Init PROVE TypeOK /\ PassOK
  OBVIOUS
<1>1. TypeOK
  BY FaultsAssumption DEF Init, TypeOK, NoServices, Absent, Option, Services
<1>2. PassOK
  BY DEF Init, PassOK
<1>3. QED
  BY <1>1, <1>2

(* Faults stay within the bound. *)
LEMMA SpendType ==
  ASSUME TypeOK, NEW c \in Nat, Spend(c)
  PROVE  faults' \in 0..MaxFaults
BY FaultsAssumption DEF TypeOK, Spend

LEMMA StartSyncType == TypeOK /\ PassOK /\ StartSync => TypeOK' /\ PassOK'
<1> SUFFICES ASSUME TypeOK, PassOK, StartSync PROVE TypeOK' /\ PassOK'
  OBVIOUS
<1>1. Wanted' \subseteq Names
  BY DEF Wanted
<1>2. TypeOK'
  BY <1>1, FaultsAssumption DEF TypeOK, StartSync, store
<1>3. PassOK'
  BY DEF PassOK, StartSync, store
<1>4. QED
  BY <1>2, <1>3

LEMMA SyncBackendType ==
  ASSUME TypeOK, PassOK, NEW n \in Names, SyncBackend(n)
  PROVE  TypeOK' /\ PassOK'
<1>1. PICK r \in Stage(backends[n], options.algorithm, AddBackend(n), ReplaceBackend) :
        /\ Spend(r.cost)
        /\ backends' = [backends EXCEPT ![n] = r.value]
        /\ pc' = IF r.ok THEN "frontend" ELSE "pick"
  BY DEF SyncBackend
<1>2. r.value \in {backends[n], options.algorithm} /\ r.cost \in 0..2
  BY CallTypes, StageFacts
<1>3. faults' \in 0..MaxFaults
  BY <1>1, <1>2, SpendType
<1>4. r.value \in Option(Algorithms)
  BY <1>2 DEF TypeOK, Options, Option
<1>5. TypeOK'
  BY <1>1, <1>3, <1>4 DEF TypeOK, SyncBackend, inputs, ghosts, Option
<1>6. Wanted' = Wanted
  BY DEF SyncBackend, inputs, Wanted
<1>7. PassOK'
  BY <1>1, <1>6 DEF PassOK, SyncBackend
<1>8. QED
  BY <1>5, <1>7

LEMMA SyncFrontendType ==
  ASSUME TypeOK, PassOK, SyncFrontend
  PROVE  TypeOK' /\ PassOK'
<1>1. PICK r \in Stage(frontends[svc], serviceMap[svc].protocol, AddFrontend(svc),
                       ReplaceFrontend) :
        /\ Spend(r.cost)
        /\ frontends' = [frontends EXCEPT ![svc] = r.value]
        /\ pc' = IF r.ok THEN "bind" ELSE "pick"
  BY DEF SyncFrontend
<1>2. r.value \in {frontends[svc], serviceMap[svc].protocol} /\ r.cost \in 0..2
  BY CallTypes, StageFacts
<1>3. faults' \in 0..MaxFaults
  BY <1>1, <1>2, SpendType
<1>4. svc \in Names /\ r.value \in Option(Protocols)
  <2>1. svc \in Wanted
    BY DEF PassOK, SyncFrontend
  <2>2. svc \in Names /\ serviceMap[svc].protocol \in Protocols
    BY <2>1, WantedFacts
  <2>3. QED
    BY <1>2, <2>2 DEF TypeOK, Option
<1>5. TypeOK'
  BY <1>1, <1>3, <1>4 DEF TypeOK, SyncFrontend, inputs, locals, ghosts
<1>6. Wanted' = Wanted
  BY DEF SyncFrontend, inputs, Wanted
<1>7. PassOK'
  BY <1>1, <1>6 DEF PassOK, SyncFrontend, locals
<1>8. QED
  BY <1>5, <1>7

LEMMA SyncBindType ==
  ASSUME TypeOK, PassOK, SyncBind
  PROVE  TypeOK' /\ PassOK'
<1>1. PICK r \in Stage(binds[svc], serviceMap[svc].port, AddBind(svc), replaceBind) :
        /\ Spend(r.cost)
        /\ binds' = [binds EXCEPT ![svc] = r.value]
        /\ pc' = IF r.ok THEN "servers" ELSE "pick"
        /\ active' = IF r.ok THEN active \cup {svc} ELSE active
  BY DEF SyncBind
<1>2. r.value \in {binds[svc], serviceMap[svc].port} /\ r.cost \in 0..2
  BY CallTypes, StageFacts
<1>3. faults' \in 0..MaxFaults
  BY <1>1, <1>2, SpendType
<1>4. svc \in Names /\ svc \in Wanted /\ r.value \in Option(Ports)
  <2>1. svc \in Wanted
    BY DEF PassOK, SyncBind
  <2>2. svc \in Names /\ serviceMap[svc].port \in Ports
    BY <2>1, WantedFacts
  <2>3. QED
    BY <1>2, <2>1, <2>2 DEF TypeOK, Option
<1>5. TypeOK'
  BY <1>1, <1>3, <1>4 DEF TypeOK, SyncBind, inputs, ghosts
<1>6. Wanted' = Wanted
  BY DEF SyncBind, inputs, Wanted
<1>7. PassOK'
  BY <1>1, <1>4, <1>6 DEF PassOK, SyncBind
<1>8. QED
  BY <1>5, <1>7

LEMMA GetServersType ==
  ASSUME TypeOK, PassOK, GetServers
  PROVE  TypeOK' /\ PassOK'
<1>1. svc \in Names
  BY DEF PassOK, GetServers, Wanted
<1>2. faults' \in 0..MaxFaults
  BY SpendType DEF GetServers
<1>3. cur' \in [Endpoints -> Option(Checks)]
  BY <1>1 DEF TypeOK, GetServers, Absent, Option
<1>4. adds' \subseteq Endpoints /\ dels' \subseteq Endpoints
  BY <1>1 DEF TypeOK, GetServers, Obsolete
<1>5. TypeOK'
  BY <1>2, <1>3, <1>4 DEF TypeOK, GetServers, store, inputs, ghosts
<1>6. Wanted' = Wanted
  BY DEF GetServers, inputs, Wanted
<1>7. PassOK'
  BY <1>6 DEF PassOK, GetServers
<1>8. QED
  BY <1>5, <1>7

LEMMA ServersType ==
  ASSUME TypeOK, NEW n \in Names, NEW e \in Endpoints, NEW v \in Option(Checks)
  PROVE  [servers EXCEPT ![n][e] = v] \in [Names -> [Endpoints -> Option(Checks)]]
<1> DEFINE row == [servers[n] EXCEPT ![e] = v]
<1>1. servers[n] \in [Endpoints -> Option(Checks)]
  BY DEF TypeOK
<1>2. row \in [Endpoints -> Option(Checks)]
  BY <1>1
<1> HIDE DEF row
<1>3. [servers EXCEPT ![n] = row] \in [Names -> [Endpoints -> Option(Checks)]]
  BY <1>2 DEF TypeOK
<1>4. QED
  BY <1>3 DEF row

(* A deletion that was attempted takes the server of e away or nothing.       *)
Removed(s, e) == s \in {servers, [servers EXCEPT ![svc][e] = None]}

LEMMA RemovedType ==
  ASSUME TypeOK, svc \in Names, NEW e \in Endpoints, NEW s, Removed(s, e)
  PROVE  s \in [Names -> [Endpoints -> Option(Checks)]]
<1>1. None \in Option(Checks)
  BY DEF Option
<1>2. [servers EXCEPT ![svc][e] = None] \in [Names -> [Endpoints -> Option(Checks)]]
  BY <1>1, ServersType
<1>3. servers \in [Names -> [Endpoints -> Option(Checks)]]
  BY DEF TypeOK
<1>4. QED
  BY <1>2, <1>3 DEF Removed

(* add never adds: what it is given is on the list already.                  *)
LEMMA AddKeepsList ==
  ASSUME NEW item, add(item), srvList = {}
  PROVE  srvList' = {}
BY DEF add

LEMMA AddServerEffect ==
  ASSUME TypeOK, PassOK, NEW e \in Endpoints, AddServer(e)
  PROVE  /\ faults' \in 0..MaxFaults
         /\ \/ servers' = servers
            \/ /\ cur[e] # options.check
               /\ servers' = [servers EXCEPT ![svc][e] = options.check]
         /\ srvList' = {}
<1>1. srvList = {}
  BY DEF PassOK
<1>2. CASE cur[e] = options.check
  <2>1. Spend(0) /\ UNCHANGED <<servers, srvList>>
    BY <1>1, <1>2 DEF AddServer
  <2>2. QED
    BY <1>1, <2>1, SpendType
<1>3. CASE cur[e] # options.check
  <2>1. UNCHANGED srvList
    BY <1>3 DEF AddServer
  <2>2. PICK a \in Attempts(AddServerToBackend(svc, e)) :
          /\ Spend(a.cost)
          /\ servers' = IF a.answer.applied
                        THEN [servers EXCEPT ![svc][e] = options.check]
                        ELSE servers
    BY <1>3 DEF AddServer
  <2>3. a.cost \in {0, 1}
    BY CallTypes, AttemptFacts
  <2>4. QED
    BY <1>1, <1>3, <2>1, <2>2, <2>3, SpendType
<1>4. QED
  BY <1>2, <1>3

LEMMA AddServerType ==
  ASSUME TypeOK, PassOK, NEW e \in Endpoints, AddServer(e)
  PROVE  TypeOK' /\ PassOK'
<1>1. svc \in Names
  BY DEF PassOK, AddServer, Wanted
<1>2. servers' \in [Names -> [Endpoints -> Option(Checks)]]
  <2>1. options.check \in Option(Checks)
    BY DEF TypeOK, Options, Option
  <2>2. servers \in [Names -> [Endpoints -> Option(Checks)]]
    BY DEF TypeOK
  <2>3. [servers EXCEPT ![svc][e] = options.check]
          \in [Names -> [Endpoints -> Option(Checks)]]
    BY <1>1, <2>1, ServersType
  <2>4. QED
    BY <2>2, <2>3, AddServerEffect
<1>3. TypeOK'
  BY <1>2, AddServerEffect DEF TypeOK, AddServer, inputs, ghosts
<1>4. Wanted' = Wanted
  BY DEF AddServer, inputs, Wanted
<1>5. PassOK'
  BY <1>4, AddServerEffect DEF PassOK, AddServer
<1>6. QED
  BY <1>3, <1>5

LEMMA DeleteServerEffect ==
  ASSUME TypeOK, PassOK, NEW e \in Endpoints, DeleteServer(e)
  PROVE  faults' \in 0..MaxFaults /\ Removed(servers', e) /\ srvList' = {}
<1>1. srvList = {} /\ GracefulDeleteSrv(e)
  BY DEF PassOK, DeleteServer
<1>2. CASE /\ servers[svc][e] # None
           /\ \E a \in Attempts(DeleteServerFromBackend(svc, e)) :
                /\ Spend(a.cost)
                /\ servers' = IF a.answer.applied
                              THEN [servers EXCEPT ![svc][e] = None] ELSE servers
                /\ IF DeleteSucceeded(a.answer.code)
                   THEN UNCHANGED srvList ELSE add(srvItem(svc, e, cur[e]))
  <2>1. PICK a \in Attempts(DeleteServerFromBackend(svc, e)) :
          /\ Spend(a.cost)
          /\ servers' = IF a.answer.applied
                        THEN [servers EXCEPT ![svc][e] = None] ELSE servers
          /\ IF DeleteSucceeded(a.answer.code)
             THEN UNCHANGED srvList ELSE add(srvItem(svc, e, cur[e]))
    BY <1>2
  <2>2. a.cost \in {0, 1}
    BY CallTypes, AttemptFacts
  <2>3. QED
    BY <1>1, <2>1, <2>2, SpendType, AddKeepsList DEF Removed
<1>3. CASE /\ Spend(IF servers[svc][e] = None THEN 0 ELSE 1)
           /\ UNCHANGED servers
           /\ add(srvItem(svc, e, cur[e]))
  BY <1>1, <1>3, SpendType, AddKeepsList DEF Removed
<1>4. QED
  BY <1>1, <1>2, <1>3 DEF GracefulDeleteSrv

LEMMA DeleteServerType ==
  ASSUME TypeOK, PassOK, NEW e \in Endpoints, DeleteServer(e)
  PROVE  TypeOK' /\ PassOK'
<1>1. svc \in Names
  BY DEF PassOK, DeleteServer, Wanted
<1>2. servers' \in [Names -> [Endpoints -> Option(Checks)]]
  BY <1>1, DeleteServerEffect, RemovedType
<1>3. TypeOK'
  BY <1>2, DeleteServerEffect DEF TypeOK, DeleteServer, inputs, ghosts
<1>4. Wanted' = Wanted
  BY DEF DeleteServer, inputs, Wanted
<1>5. PassOK'
  BY <1>4, DeleteServerEffect DEF PassOK, DeleteServer
<1>6. QED
  BY <1>3, <1>5

LEMMA EndEndpointType ==
  ASSUME TypeOK, PassOK, EndEndpoint
  PROVE  TypeOK' /\ PassOK'
<1>1. TypeOK'
  BY DEF TypeOK, EndEndpoint, store, inputs, ghosts, Absent, Option
<1>2. Wanted' = Wanted
  BY DEF EndEndpoint, inputs, Wanted
<1>3. PassOK'
  BY <1>2 DEF PassOK, EndEndpoint
<1>4. QED
  BY <1>1, <1>3

LEMMA ListServicesType ==
  ASSUME TypeOK, PassOK, ListServices
  PROVE  TypeOK' /\ PassOK'
<1>1. legacy' \subseteq Names /\ legacy' \cap active = {}
  BY DEF ListServices, GetServices
<1>2. faults' \in 0..MaxFaults
  BY SpendType DEF ListServices
<1>3. TypeOK'
  BY <1>1, <1>2 DEF TypeOK, ListServices, store, inputs, ghosts
<1>4. Wanted' = Wanted
  BY DEF ListServices, inputs, Wanted
<1>5. PassOK'
  BY <1>1, <1>4 DEF PassOK, ListServices
<1>6. QED
  BY <1>3, <1>5

LEMMA CleanFrontendType ==
  ASSUME TypeOK, PassOK, NEW n \in Names, CleanFrontend(n)
  PROVE  TypeOK' /\ PassOK'
<1>1. PICK a \in Attempts(DeleteFrontend(n)) :
        /\ Spend(a.cost)
        /\ IF a.answer.applied
           THEN /\ frontends' = [frontends EXCEPT ![n] = None]
                /\ binds' = [binds EXCEPT ![n] = None]
           ELSE UNCHANGED <<frontends, binds>>
  BY DEF CleanFrontend
<1>2. a.cost \in {0, 1}
  BY CallTypes, AttemptFacts
<1>3. faults' \in 0..MaxFaults
  BY <1>1, <1>2, SpendType
<1>4. /\ frontends' \in [Names -> Option(Protocols)]
      /\ binds' \in [Names -> Option(Ports)]
  BY <1>1 DEF TypeOK, Option
<1>5. TypeOK'
  BY <1>3, <1>4 DEF TypeOK, CleanFrontend, inputs, ghosts, Option
<1>6. Wanted' = Wanted
  BY DEF CleanFrontend, inputs, Wanted
<1>7. PassOK'
  BY <1>6 DEF PassOK, CleanFrontend
<1>8. QED
  BY <1>5, <1>7

LEMMA CleanBackendType ==
  ASSUME TypeOK, PassOK, CleanBackend
  PROVE  TypeOK' /\ PassOK'
<1>1. PICK a \in Attempts(DeleteBackend(svc)) :
        /\ Spend(a.cost)
        /\ IF a.answer.applied
           THEN /\ backends' = [backends EXCEPT ![svc] = None]
                /\ servers' = [servers EXCEPT ![svc] = Absent]
           ELSE UNCHANGED <<backends, servers>>
  BY DEF CleanBackend
<1>2. a.cost \in {0, 1}
  BY CallTypes, AttemptFacts
<1>3. faults' \in 0..MaxFaults
  BY <1>1, <1>2, SpendType
<1>4. /\ backends' \in [Names -> Option(Algorithms)]
      /\ servers' \in [Names -> [Endpoints -> Option(Checks)]]
  <2>1. Absent \in [Endpoints -> Option(Checks)]
    BY DEF Absent, Option
  <2>2. None \in Option(Algorithms)
    BY DEF Option
  <2>3. QED
    BY <1>1, <2>1, <2>2 DEF TypeOK
<1>5. TypeOK'
  BY <1>3, <1>4 DEF TypeOK, CleanBackend, inputs, locals, ghosts
<1>6. Wanted' = Wanted
  BY DEF CleanBackend, inputs, Wanted
<1>7. PassOK'
  BY <1>6 DEF PassOK, CleanBackend, locals
<1>8. QED
  BY <1>5, <1>7

LEMMA EndSyncType ==
  ASSUME TypeOK, PassOK, EndSync
  PROVE  TypeOK' /\ PassOK'
<1>1. clean' \in 0..2
  BY DEF TypeOK, EndSync
<1>2. TypeOK'
  BY <1>1 DEF TypeOK, EndSync, store, inputs, Absent, Option
<1>3. Wanted' = Wanted
  BY DEF EndSync, inputs, Wanted
<1>4. PassOK'
  BY <1>3 DEF PassOK, EndSync
<1>5. QED
  BY <1>2, <1>4

LEMMA RestartType ==
  ASSUME TypeOK, PassOK, Restart
  PROVE  TypeOK' /\ PassOK'
<1>1. TypeOK'
  BY FaultsAssumption DEF TypeOK, Restart, store, NoServices, Absent, Option, Services
<1>2. PassOK'
  BY DEF PassOK, Restart
<1>3. QED
  BY <1>1, <1>2

LEMMA NextType == TypeOK /\ PassOK /\ [Next]_vars => TypeOK' /\ PassOK'
<1> SUFFICES ASSUME TypeOK, PassOK, [Next]_vars PROVE TypeOK' /\ PassOK'
  OBVIOUS
<1>1. CASE StartSync
  BY <1>1, StartSyncType
<1>2. CASE \E n \in Names : SyncBackend(n)
  BY <1>2, SyncBackendType
<1>3. CASE SyncFrontend
  BY <1>3, SyncFrontendType
<1>4. CASE SyncBind
  BY <1>4, SyncBindType
<1>5. CASE GetServers
  BY <1>5, GetServersType
<1>6. CASE \E e \in Endpoints : AddServer(e)
  BY <1>6, AddServerType
<1>7. CASE \E e \in Endpoints : DeleteServer(e)
  BY <1>7, DeleteServerType
<1>8. CASE EndEndpoint
  BY <1>8, EndEndpointType
<1>9. CASE ListServices
  BY <1>9, ListServicesType
<1>10. CASE \E n \in Names : CleanFrontend(n)
  BY <1>10, CleanFrontendType
<1>11. CASE CleanBackend
  BY <1>11, CleanBackendType
<1>12. CASE EndSync
  BY <1>12, EndSyncType
<1>13. CASE Restart
  BY <1>13, RestartType
<1>14. CASE UNCHANGED vars
  BY <1>14 DEF vars, store, inputs, locals, ghosts, TypeOK, PassOK, Wanted
<1>15. QED
  BY <1>1, <1>2, <1>3, <1>4, <1>5, <1>6, <1>7, <1>8, <1>9, <1>10, <1>11, <1>12,
     <1>13, <1>14 DEF Next

(* The pass is where its variables say it is. *)
LEMMA SpecPassOK == Spec => [](TypeOK /\ PassOK)
BY InitPassOK, NextType, PTL DEF Spec

(* Every variable has its type, for any services, endpoints and options. *)
THEOREM SpecTypeOK == Spec => []TypeOK
BY SpecPassOK, PTL

=============================================================================
