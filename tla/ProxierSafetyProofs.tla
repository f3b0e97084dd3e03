------------------------ MODULE ProxierSafetyProofs ------------------------
(* Proofs that a pass does not disturb what it should leave alone: live        *)
(* services, live servers and, without faults, the backends in use.          *)
EXTENDS ProxierProofs

-----------------------------------------------------------------------------
(* What a stage can change, and when.                                       *)

(* A stage changes its object only if one of its calls is one that the        *)
(* server, undisturbed, accepts.                                            *)
LEMMA StageChanges ==
  ASSUME NEW old, NEW want, NEW post \in SUBSET Answer, NEW put \in SUBSET Answer,
         NEW r \in Stage(old, want, post, put), r.value # old
  PROVE  (\E x \in post : x.applied) \/ (\E x \in put : x.applied)
<1>1. CASE \E misread \in {0, 1}, a \in Attempts(post) :
             r = Result(a, old, want, AddSucceeded(a.answer.code), misread)
  <2>1. PICK misread \in {0, 1}, a \in Attempts(post) :
          r = Result(a, old, want, AddSucceeded(a.answer.code), misread)
    BY <1>1
  <2>2. a.answer.applied
    BY <2>1 DEF Result
  <2>3. QED
    BY <2>2, AttemptFacts
<1>2. CASE \E a \in Attempts(put) :
             r = Result(a, old, want, ReplaceSucceeded(a.answer.code), 0)
  <2>1. PICK a \in Attempts(put) :
          r = Result(a, old, want, ReplaceSucceeded(a.answer.code), 0)
    BY <1>2
  <2>2. a.answer.applied
    BY <2>1 DEF Result
  <2>3. QED
    BY <2>2, AttemptFacts
<1>3. CASE r = [value |-> old, ok |-> TRUE, cost |-> 0]
  BY <1>3
<1>4. QED
  BY <1>1, <1>2, <1>3 DEF Stage

(* An undisturbed creation that is accepted creates the wanted object.        *)
LEMMA StageCreates ==
  ASSUME NEW want, NEW put \in SUBSET Answer,
         NEW post, post = {Reply("accepted", TRUE)},
         NEW r \in Stage(None, want, post, put), r.cost = 0
  PROVE  r.value = want
<1>1. post \in SUBSET Answer
  BY ReplyType DEF Codes
<1>2. PICK a \in Attempts(post) :
        r = Result(a, None, want, AddSucceeded(a.answer.code), 0)
  BY DEF Stage
<1>3. a.cost \in {0, 1} /\ (a.cost = 0 => a.answer \in post)
  BY <1>1, AttemptFacts
<1>4. a.cost = 0
  BY <1>2, <1>3 DEF Result
<1>5. a.answer.applied
  BY <1>3, <1>4 DEF Reply
<1>6. QED
  BY <1>2, <1>5 DEF Result

(* Spending leaves the faults of a pass at most 1 only if they were before,   *)
(* and the call took at most one.                                           *)
LEMMA SpendLow ==
  ASSUME TypeOK, NEW c \in 0..2, Spend(c)
  PROVE  /\ faults' <= 1 => faults <= 1 /\ c <= 1
         /\ MaxFaults = 0 => c = 0
BY FaultsAssumption DEF TypeOK, Spend

-----------------------------------------------------------------------------
(* HAProxy has no frontend with a mode it does not know. *)
ModesOK == \A n \in Names : frontends[n] # None => frontends[n] \in ValidModes

(* The service of the pass that is neither to come nor among the active ones. *)
InHand == IF pc \in {"frontend", "bind"} THEN {svc} ELSE {}

(* The services that were as wanted when the pass began still are, and none    *)
(* of them has been dropped by the pass: this is what keeps them from being    *)
(* taken for legacy.                                                        *)
KeptOK == faults <= 1 => \A n \in was : /\ n \in Names
                                        /\ Programmed(n)
                                        /\ pc # "idle" => n \in todo \cup active \cup InHand

LEMMA SyncBackendKept ==
  ASSUME TypeOK, PassOK, ModesOK, KeptOK, NEW m \in Names, SyncBackend(m)
  PROVE  ModesOK' /\ KeptOK'
<1>1. PICK r \in Stage(backends[m], options.algorithm, AddBackend(m), ReplaceBackend) :
        /\ Spend(r.cost)
        /\ backends' = [backends EXCEPT ![m] = r.value]
        /\ pc' = IF r.ok THEN "frontend" ELSE "pick"
  BY DEF SyncBackend
<1>2. r.value \in {backends[m], options.algorithm} /\ r.cost \in 0..2
  BY CallTypes, StageFacts
<1>3. ModesOK'
  BY DEF ModesOK, SyncBackend
<1>4. SUFFICES ASSUME faults' <= 1, NEW n \in was'
               PROVE  /\ n \in Names
                      /\ Programmed(n)'
                      /\ pc' # "idle" => n \in (todo \cup active \cup InHand)'
  BY <1>3 DEF KeptOK
<1>5. faults <= 1 /\ r.cost <= 1
  BY <1>1, <1>2, <1>4, SpendLow
<1>6. n \in Names /\ n \in was /\ Programmed(n) /\ n \in todo \cup active
  BY <1>4, <1>5 DEF KeptOK, SyncBackend, ghosts, InHand
<1>7. /\ frontends' = frontends /\ binds' = binds /\ serviceMap' = serviceMap
      /\ options' = options /\ active' = active /\ todo' = todo \ {m} /\ svc' = m
  BY DEF SyncBackend, inputs
<1>8. CASE n # m
  <2>1. backends'[n] = backends[n]
    BY <1>1, <1>6, <1>8 DEF TypeOK
  <2>2. QED
    BY <1>6, <1>7, <1>8, <2>1 DEF Programmed, InHand
<1>9. CASE n = m
  <2>1. backends[m] = options.algorithm /\ options.algorithm # None
    BY <1>6, <1>9, NoneAssumption DEF Programmed, TypeOK, Options
  <2>2. AddBackend(m) = {Reply("conflict", FALSE)}
    BY <2>1 DEF AddBackend, Post
  <2>3. r \in Stage(options.algorithm, options.algorithm, AddBackend(m), ReplaceBackend)
    BY <2>1
  <2>4. r.value = options.algorithm /\ r.ok
    BY <1>5, <2>1, <2>2, <2>3, CallTypes, StageKeeps
  <2>5. backends'[m] = options.algorithm /\ pc' = "frontend"
    BY <1>1, <2>4 DEF TypeOK
  <2>6. QED
    BY <1>6, <1>7, <1>9, <2>5 DEF Programmed, InHand
<1>10. QED
  BY <1>8, <1>9

LEMMA SyncFrontendKept ==
  ASSUME TypeOK, PassOK, ModesOK, KeptOK, SyncFrontend
  PROVE  ModesOK' /\ KeptOK'
<1> DEFINE want == serviceMap[svc].protocol
<1>1. PICK r \in Stage(frontends[svc], want, AddFrontend(svc), ReplaceFrontend) :
        /\ Spend(r.cost)
        /\ frontends' = [frontends EXCEPT ![svc] = r.value]
        /\ pc' = IF r.ok THEN "bind" ELSE "pick"
  BY DEF SyncFrontend
<1>2. r.value \in {frontends[svc], want} /\ r.cost \in 0..2
  BY CallTypes, StageFacts
<1>3. svc \in Names
  BY DEF PassOK, SyncFrontend, Wanted
<1>4. ModesOK'
  <2>1. r.value # frontends[svc] => want \in ValidModes
    <3>1. ASSUME r.value # frontends[svc]
          PROVE  \E x \in AddFrontend(svc) \cup ReplaceFrontend : x.applied
      BY <3>1, CallTypes, StageChanges
    <3>2. want \notin ValidModes
            => \A x \in AddFrontend(svc) \cup ReplaceFrontend : ~x.applied
      BY DEF AddFrontend, ReplaceFrontend, Post, Reply
    <3>3. QED
      BY <3>1, <3>2
  <2>2. \A n \in Names : frontends'[n] = IF n = svc THEN r.value ELSE frontends[n]
    BY <1>1 DEF TypeOK
  <2>3. QED
    BY <1>2, <1>3, <2>1, <2>2 DEF ModesOK
<1>5. SUFFICES ASSUME faults' <= 1, NEW n \in was'
               PROVE  /\ n \in Names
                      /\ Programmed(n)'
                      /\ pc' # "idle" => n \in (todo \cup active \cup InHand)'
  BY <1>4 DEF KeptOK
<1>6. faults <= 1 /\ r.cost <= 1
  BY <1>1, <1>2, <1>5, SpendLow
<1>7. n \in Names /\ Programmed(n) /\ n \in todo \cup active \cup {svc}
  BY <1>5, <1>6 DEF KeptOK, SyncFrontend, ghosts, InHand
<1>8. /\ backends' = backends /\ binds' = binds /\ serviceMap' = serviceMap
      /\ options' = options /\ active' = active /\ todo' = todo /\ svc' = svc
  BY DEF SyncFrontend, inputs, locals
<1>9. CASE n # svc
  <2>1. frontends'[n] = frontends[n]
    BY <1>1, <1>7, <1>9 DEF TypeOK
  <2>2. QED
    BY <1>7, <1>8, <1>9, <2>1 DEF Programmed, InHand
<1>10. CASE n = svc
  <2>1. frontends[svc] = want /\ want # None
    <3>1. svc \in Wanted
      BY DEF PassOK, SyncFrontend
    <3>2. want \in Protocols
      BY <3>1, WantedFacts
    <3>3. QED
      BY <1>7, <1>10, <3>2, NoneAssumption DEF Programmed
  <2>2. AddFrontend(svc) = {Reply("conflict", FALSE)}
    BY <1>3, <2>1 DEF AddFrontend, Post, ModesOK
  <2>3. r \in Stage(want, want, AddFrontend(svc), ReplaceFrontend)
    BY <2>1
  <2>4. r.value = want /\ r.ok
    BY <1>6, <2>1, <2>2, <2>3, CallTypes, StageKeeps
  <2>5. frontends'[svc] = want /\ pc' = "bind"
    BY <1>1, <1>3, <2>4 DEF TypeOK
  <2>6. QED
    BY <1>7, <1>8, <1>10, <2>5 DEF Programmed, InHand
<1>11. QED
  BY <1>9, <1>10

LEMMA SyncBindKept ==
  ASSUME TypeOK, PassOK, ModesOK, KeptOK, SyncBind
  PROVE  ModesOK' /\ KeptOK'
<1> DEFINE want == serviceMap[svc].port
<1>1. PICK r \in Stage(binds[svc], want, AddBind(svc), replaceBind) :
        /\ Spend(r.cost)
        /\ binds' = [binds EXCEPT ![svc] = r.value]
        /\ pc' = IF r.ok THEN "servers" ELSE "pick"
        /\ active' = IF r.ok THEN active \cup {svc} ELSE active
  BY DEF SyncBind
<1>2. r.value \in {binds[svc], want} /\ r.cost \in 0..2
  BY CallTypes, StageFacts
<1>3. svc \in Wanted /\ svc \in Names
  BY DEF PassOK, SyncBind, Wanted
<1>4. ModesOK'
  BY DEF ModesOK, SyncBind
<1>5. SUFFICES ASSUME faults' <= 1, NEW n \in was'
               PROVE  /\ n \in Names
                      /\ Programmed(n)'
                      /\ pc' # "idle" => n \in (todo \cup active \cup InHand)'
  BY <1>4 DEF KeptOK
<1>6. faults <= 1 /\ r.cost <= 1
  BY <1>1, <1>2, <1>5, SpendLow
<1>7. n \in Names /\ Programmed(n) /\ n \in todo \cup active \cup {svc}
  BY <1>5, <1>6 DEF KeptOK, SyncBind, ghosts, InHand
<1>8. /\ backends' = backends /\ frontends' = frontends /\ serviceMap' = serviceMap
      /\ options' = options /\ todo' = todo /\ svc' = svc
  BY DEF SyncBind, inputs
<1>9. CASE n # svc
  <2>1. binds'[n] = binds[n]
    BY <1>1, <1>7, <1>9 DEF TypeOK
  <2>2. n \in todo' \cup active'
    BY <1>1, <1>7, <1>8, <1>9
  <2>3. QED
    BY <1>7, <1>8, <1>9, <2>1, <2>2 DEF Programmed, InHand
<1>10. CASE n = svc
  <2>1. /\ binds[svc] = want /\ want # None
        /\ frontends[svc] # None
    <3>1. want \in Ports /\ serviceMap[svc].protocol \in Protocols
      BY <1>3, WantedFacts
    <3>2. QED
      BY <1>7, <1>10, <3>1, NoneAssumption DEF Programmed
  <2>2. AddBind(svc) = {Reply("conflict", FALSE)}
    BY <2>1 DEF AddBind, Post
  <2>3. r \in Stage(want, want, AddBind(svc), replaceBind)
    BY <2>1
  <2>4. r.value = want /\ r.ok
    BY <1>6, <2>1, <2>2, <2>3, CallTypes, StageKeeps
  <2>5. binds'[svc] = want /\ pc' = "servers" /\ active' = active \cup {svc}
    BY <1>1, <1>3, <2>4 DEF TypeOK
  <2>6. QED
    BY <1>7, <1>8, <1>10, <2>5 DEF Programmed, InHand
<1>11. QED
  BY <1>9, <1>10

(* The steps that leave the services alone. *)
LEMMA FrameKept ==
  ASSUME ModesOK, KeptOK, TypeOK,
         UNCHANGED <<backends, frontends, binds, inputs, todo, active, was>>,
         pc \notin {"idle", "frontend", "bind"},
         faults' <= 1 => faults <= 1
  PROVE  ModesOK' /\ KeptOK'
<1>1. ModesOK'
  BY DEF ModesOK
<1>2. KeptOK'
  BY DEF KeptOK, Programmed, inputs, InHand
<1>3. QED
  BY <1>1, <1>2

LEMMA StartSyncKept ==
  ASSUME TypeOK, PassOK, ModesOK, KeptOK, StartSync
  PROVE  ModesOK' /\ KeptOK'
<1>1. ModesOK'
  BY DEF ModesOK, StartSync, store
<1>2. was' \subseteq Wanted' /\ todo' = Wanted' /\ \A n \in was' : Programmed(n)'
  BY DEF StartSync
<1>3. Wanted' \subseteq Names
  BY DEF Wanted
<1>4. KeptOK'
  BY <1>2, <1>3 DEF KeptOK
<1>5. QED
  BY <1>1, <1>4

LEMMA CleanFrontendKept ==
  ASSUME TypeOK, PassOK, ModesOK, KeptOK, NEW m \in Names, CleanFrontend(m)
  PROVE  ModesOK' /\ KeptOK'
<1>1. PICK a \in Attempts(DeleteFrontend(m)) :
        /\ Spend(a.cost)
        /\ IF a.answer.applied
           THEN /\ frontends' = [frontends EXCEPT ![m] = None]
                /\ binds' = [binds EXCEPT ![m] = None]
           ELSE UNCHANGED <<frontends, binds>>
  BY DEF CleanFrontend
<1>2. a.cost \in 0..2
  BY CallTypes, AttemptFacts
<1>3. /\ \A n \in Names : n # m => frontends'[n] = frontends[n] /\ binds'[n] = binds[n]
      /\ frontends'[m] \in {frontends[m], None}
  BY <1>1 DEF TypeOK
<1>4. ModesOK'
  BY <1>3 DEF ModesOK
<1>5. SUFFICES ASSUME faults' <= 1, NEW n \in was'
               PROVE  /\ n \in Names
                      /\ Programmed(n)'
                      /\ pc' # "idle" => n \in (todo \cup active \cup InHand)'
  BY <1>4 DEF KeptOK
<1>6. faults <= 1
  BY <1>1, <1>2, <1>5, SpendLow
<1>7. n \in Names /\ Programmed(n) /\ n \in todo \cup active
  BY <1>5, <1>6 DEF KeptOK, CleanFrontend, ghosts, InHand
<1>8. n # m
  BY <1>7 DEF PassOK, CleanFrontend
<1>9. QED
  BY <1>3, <1>7, <1>8 DEF CleanFrontend, inputs, Programmed

LEMMA CleanBackendKept ==
  ASSUME TypeOK, PassOK, ModesOK, KeptOK, CleanBackend
  PROVE  ModesOK' /\ KeptOK'
<1>1. PICK a \in Attempts(DeleteBackend(svc)) :
        /\ Spend(a.cost)
        /\ IF a.answer.applied
           THEN /\ backends' = [backends EXCEPT ![svc] = None]
                /\ servers' = [servers EXCEPT ![svc] = Absent]
           ELSE UNCHANGED <<backends, servers>>
  BY DEF CleanBackend
<1>2. a.cost \in 0..2
  BY CallTypes, AttemptFacts
<1>3. \A n \in Names : n # svc => backends'[n] = backends[n]
  BY <1>1 DEF TypeOK
<1>4. ModesOK'
  BY DEF ModesOK, CleanBackend
<1>5. SUFFICES ASSUME faults' <= 1, NEW n \in was'
               PROVE  /\ n \in Names
                      /\ Programmed(n)'
                      /\ pc' # "idle" => n \in (todo \cup active \cup InHand)'
  BY <1>4 DEF KeptOK
<1>6. faults <= 1
  BY <1>1, <1>2, <1>5, SpendLow
<1>7. n \in Names /\ Programmed(n) /\ n \in todo \cup active
  BY <1>5, <1>6 DEF KeptOK, CleanBackend, ghosts, InHand
<1>8. n # svc
  BY <1>7 DEF PassOK, CleanBackend
<1>9. QED
  BY <1>3, <1>7, <1>8 DEF CleanBackend, inputs, locals, Programmed

LEMMA NextKept ==
  ASSUME TypeOK, PassOK, ModesOK, KeptOK, [Next]_vars
  PROVE  ModesOK' /\ KeptOK'
<1> DEFINE Still == UNCHANGED <<backends, frontends, binds, inputs, todo, active, was>>
<1>1. CASE StartSync
  BY <1>1, StartSyncKept
<1>2. CASE \E n \in Names : SyncBackend(n)
  BY <1>2, SyncBackendKept
<1>3. CASE SyncFrontend
  BY <1>3, SyncFrontendKept
<1>4. CASE SyncBind
  BY <1>4, SyncBindKept
<1>5. CASE GetServers
  <2>1. Still /\ pc = "servers"
    BY <1>5 DEF GetServers, store, ghosts
  <2>2. faults' <= 1 => faults <= 1
    BY <1>5, SpendLow DEF GetServers
  <2>3. QED
    BY <2>1, <2>2, FrameKept
<1>6. CASE \E e \in Endpoints : AddServer(e)
  <2>1. PICK e \in Endpoints : AddServer(e)
    BY <1>6
  <2>2. Still /\ pc = "sync"
    BY <2>1 DEF AddServer, ghosts
  <2>3. faults' <= 1 => faults <= 1
    <3>1. CASE cur[e] = options.check
      BY <2>1, <3>1, SpendLow DEF AddServer, PassOK
    <3>2. CASE cur[e] # options.check
      <4>1. PICK a \in Attempts(AddServerToBackend(svc, e)) : Spend(a.cost)
        BY <2>1, <3>2 DEF AddServer
      <4>2. a.cost \in 0..2
        BY CallTypes, AttemptFacts
      <4>3. QED
        BY <4>1, <4>2, SpendLow
    <3>3. QED
      BY <3>1, <3>2
  <2>4. QED
    BY <2>2, <2>3, FrameKept
<1>7. CASE \E e \in Endpoints : DeleteServer(e)
  <2>1. PICK e \in Endpoints : DeleteServer(e)
    BY <1>7
  <2>2. Still /\ pc = "sync"
    BY <2>1 DEF DeleteServer, ghosts
  <2>3. faults' <= 1 => faults <= 1
    <3>1. GracefulDeleteSrv(e)
      BY <2>1 DEF DeleteServer, PassOK
    <3>2. CASE \E a \in Attempts(DeleteServerFromBackend(svc, e)) : Spend(a.cost)
      <4>1. PICK a \in Attempts(DeleteServerFromBackend(svc, e)) : Spend(a.cost)
        BY <3>2
      <4>2. a.cost \in 0..2
        BY CallTypes, AttemptFacts
      <4>3. QED
        BY <4>1, <4>2, SpendLow
    <3>3. CASE Spend(IF servers[svc][e] = None THEN 0 ELSE 1)
      BY <3>3, SpendLow
    <3>4. QED
      BY <3>1, <3>2, <3>3 DEF GracefulDeleteSrv
  <2>4. QED
    BY <2>2, <2>3, FrameKept
<1>8. CASE EndEndpoint
  <2>1. Still /\ pc = "sync" /\ faults' = faults
    BY <1>8 DEF EndEndpoint, store, ghosts
  <2>2. QED
    BY <2>1, FrameKept
<1>9. CASE ListServices
  <2>1. Still /\ pc = "pick"
    BY <1>9 DEF ListServices, store, ghosts
  <2>2. faults' <= 1 => faults <= 1
    BY <1>9, SpendLow DEF ListServices
  <2>3. QED
    BY <2>1, <2>2, FrameKept
<1>10. CASE \E n \in Names : CleanFrontend(n)
  BY <1>10, CleanFrontendKept
<1>11. CASE CleanBackend
  BY <1>11, CleanBackendKept
<1>12. CASE EndSync
  BY <1>12 DEF EndSync, store, inputs, ModesOK, KeptOK, Programmed
<1>13. CASE Restart
  BY <1>13 DEF Restart, store, ModesOK, KeptOK
<1>14. CASE UNCHANGED vars
  BY <1>14 DEF vars, store, inputs, locals, ghosts, ModesOK, KeptOK, Programmed, InHand
<1>15. QED
  BY <1>1, <1>2, <1>3, <1>4, <1>5, <1>6, <1>7, <1>8, <1>9, <1>10, <1>11, <1>12,
     <1>13, <1>14 DEF Next

(* A service that is as wanted when a pass begins stays so at every step of    *)
(* the pass, if at most one call of it is disturbed.                         *)
THEOREM SpecLiveServiceSurvives == Spec => []LiveServiceSurvives
<1>1. Init => ModesOK /\ KeptOK
  BY DEF Init, NoServices, ModesOK, KeptOK
<1>2. TypeOK /\ PassOK /\ ModesOK /\ KeptOK /\ [Next]_vars => ModesOK' /\ KeptOK'
  BY NextKept
<1>3. KeptOK => LiveServiceSurvives
  BY DEF KeptOK, LiveServiceSurvives
<1>4. QED
  BY <1>1, <1>2, <1>3, SpecPassOK, PTL DEF Spec

-----------------------------------------------------------------------------
(* The servers still to be deleted are as they were listed, and are not the    *)
(* wanted ones.                                                             *)
SyncOK ==
  pc = "sync" => \A e \in dels :
                   /\ cur[e] # None
                   /\ servers[svc][e] = cur[e]
                   /\ ~(e \in endpointsMap[svc] /\ cur[e] = options.check)

LEMMA ServerAt ==
  ASSUME TypeOK, svc \in Names, NEW e \in Endpoints, NEW v,
         NEW n \in Names, NEW f \in Endpoints
  PROVE  [servers EXCEPT ![svc][e] = v][n][f]
           = IF n = svc /\ f = e THEN v ELSE servers[n][f]
<1> DEFINE row == [servers[svc] EXCEPT ![e] = v]
<1>1. servers[svc] \in [Endpoints -> Option(Checks)]
  BY DEF TypeOK
<1>2. row[f] = IF f = e THEN v ELSE servers[svc][f]
  BY <1>1
<1> HIDE DEF row
<1>3. [servers EXCEPT ![svc] = row][n] = IF n = svc THEN row ELSE servers[n]
  BY DEF TypeOK
<1>4. QED
  BY <1>2, <1>3 DEF row

(* The loop over newEndpoints changes no server that exists.                 *)
LEMMA AddServerKeeps ==
  ASSUME TypeOK, PassOK, NEW e \in Endpoints, AddServer(e),
         NEW n \in Names, NEW f \in Endpoints, servers[n][f] # None
  PROVE  servers'[n][f] = servers[n][f]
<1>1. svc \in Names /\ srvList = {}
  BY DEF PassOK, AddServer, Wanted
<1>2. CASE cur[e] = options.check
  BY <1>1, <1>2 DEF AddServer
<1>3. CASE cur[e] # options.check
  <2>1. PICK a \in Attempts(AddServerToBackend(svc, e)) :
          servers' = IF a.answer.applied
                     THEN [servers EXCEPT ![svc][e] = options.check]
                     ELSE servers
    BY <1>3 DEF AddServer
  <2>2. CASE ~a.answer.applied
    BY <2>1, <2>2
  <2>3. CASE a.answer.applied
    <3>1. \E x \in AddServerToBackend(svc, e) : x.applied
      BY <2>3, CallTypes, AttemptFacts
    <3>2. servers[svc][e] = None
      BY <3>1 DEF AddServerToBackend, Post, Reply
    <3>3. QED
      BY <1>1, <2>1, <2>3, <3>2, ServerAt
  <2>4. QED
    BY <2>2, <2>3
<1>4. QED
  BY <1>2, <1>3

(* The loop over curEndpoints \ newEndpoints changes no server but its own.   *)
LEMMA DeleteServerKeeps ==
  ASSUME TypeOK, PassOK, NEW e \in Endpoints, DeleteServer(e),
         NEW n \in Names, NEW f \in Endpoints, n # svc \/ f # e
  PROVE  servers'[n][f] = servers[n][f]
<1>1. svc \in Names
  BY DEF PassOK, DeleteServer, Wanted
<1>2. [servers EXCEPT ![svc][e] = None][n][f] = servers[n][f]
  BY <1>1, ServerAt
<1>3. QED
  BY <1>2, DeleteServerEffect DEF Removed

LEMMA NextSync ==
  ASSUME TypeOK, PassOK, SyncOK, [Next]_vars
  PROVE  SyncOK'
<1>1. CASE GetServers
  <2>1. svc \in Names
    BY <1>1 DEF PassOK, GetServers, Wanted
  <2>2. cur' = servers[svc] \/ cur' = Absent
    BY <1>1 DEF GetServers
  <2>3. \A e \in Obsolete(svc, cur') :
          /\ cur'[e] # None
          /\ servers[svc][e] = cur'[e]
          /\ ~(e \in endpointsMap[svc] /\ cur'[e] = options.check)
    BY <2>1, <2>2 DEF Obsolete, Absent
  <2>4. QED
    BY <1>1, <2>3 DEF SyncOK, GetServers, store, inputs
<1>2. CASE \E e \in Endpoints : AddServer(e)
  <2>1. PICK e \in Endpoints : AddServer(e)
    BY <1>2
  <2>2. /\ pc = "sync" /\ svc \in Names
        /\ dels' = dels /\ cur' = cur /\ svc' = svc
        /\ endpointsMap' = endpointsMap /\ options' = options
    BY <2>1 DEF AddServer, inputs, PassOK, Wanted
  <2>3. \A f \in dels : servers'[svc][f] = servers[svc][f]
    <3>1. SUFFICES ASSUME NEW f \in dels PROVE servers'[svc][f] = servers[svc][f]
      OBVIOUS
    <3>2. f \in Endpoints /\ servers[svc][f] # None
      BY <2>2 DEF SyncOK, TypeOK
    <3>3. QED
      BY <2>1, <2>2, <3>2, AddServerKeeps
  <2>4. QED
    BY <2>2, <2>3 DEF SyncOK
<1>3. CASE \E e \in Endpoints : DeleteServer(e)
  <2>1. PICK e \in Endpoints : DeleteServer(e)
    BY <1>3
  <2>2. /\ pc = "sync" /\ svc \in Names
        /\ dels' = dels \ {e} /\ cur' = cur /\ svc' = svc
        /\ endpointsMap' = endpointsMap /\ options' = options
    BY <2>1 DEF DeleteServer, inputs, PassOK, Wanted
  <2>3. \A f \in dels' : servers'[svc][f] = servers[svc][f]
    <3>1. SUFFICES ASSUME NEW f \in dels' PROVE servers'[svc][f] = servers[svc][f]
      OBVIOUS
    <3>2. f \in Endpoints /\ f # e
      BY <2>2 DEF TypeOK
    <3>3. QED
      BY <2>1, <2>2, <3>2, DeleteServerKeeps
  <2>4. QED
    BY <2>2, <2>3 DEF SyncOK
<1>4. CASE pc' # "sync"
  BY <1>4 DEF SyncOK
<1>5. CASE UNCHANGED vars
  BY <1>5 DEF vars, store, inputs, locals, SyncOK
<1>6. QED
  <2>1. ASSUME Next PROVE \/ pc' # "sync"
                          \/ GetServers
                          \/ \E e \in Endpoints : AddServer(e)
                          \/ \E e \in Endpoints : DeleteServer(e)
    BY <2>1 DEF Next, StartSync, SyncBackend, SyncFrontend, SyncBind, EndEndpoint,
                ListServices, CleanFrontend, CleanBackend, EndSync, Restart
  <2>2. QED
    BY <1>1, <1>2, <1>3, <1>4, <1>5, <2>1

LEMMA NextKeepsServers ==
  ASSUME TypeOK, PassOK, SyncOK, [Next]_vars,
         NEW n \in active, NEW e \in endpointsMap[n], Serving(n, e)
  PROVE  servers'[n][e] = options.check
<1>1. n \in Names /\ e \in Endpoints /\ n \in Wanted
  BY DEF TypeOK, PassOK
<1>2. servers[n][e] = options.check /\ servers[n][e] # None
  BY NoneAssumption DEF Serving, TypeOK, Options
<1>3. CASE \E f \in Endpoints : AddServer(f)
  BY <1>1, <1>2, <1>3, AddServerKeeps
<1>4. CASE \E f \in Endpoints : DeleteServer(f)
  <2>1. PICK f \in Endpoints : DeleteServer(f)
    BY <1>4
  <2>2. f \in dels /\ pc = "sync"
    BY <2>1 DEF DeleteServer
  <2>3. n # svc \/ e # f
    BY <1>2, <2>2 DEF SyncOK
  <2>4. QED
    BY <1>1, <1>2, <2>1, <2>3, DeleteServerKeeps
<1>5. CASE CleanBackend
  <2>1. svc # n
    BY <1>5 DEF PassOK, CleanBackend
  <2>2. servers' \in {servers, [servers EXCEPT ![svc] = Absent]}
    BY <1>5 DEF CleanBackend
  <2>3. servers'[n] = servers[n]
    BY <1>1, <2>1, <2>2 DEF TypeOK
  <2>4. QED
    BY <1>2, <2>3
<1>6. CASE UNCHANGED servers
  BY <1>2, <1>6
<1>7. QED
  <2>1. ASSUME Next PROVE \/ UNCHANGED servers
                          \/ \E f \in Endpoints : AddServer(f)
                          \/ \E f \in Endpoints : DeleteServer(f)
                          \/ CleanBackend
    BY <2>1 DEF Next, StartSync, SyncBackend, SyncFrontend, SyncBind, GetServers,
                EndEndpoint, ListServices, CleanFrontend, EndSync, Restart, store
  <2>2. QED
    BY <1>3, <1>4, <1>5, <1>6, <2>1 DEF vars, store

(* No step takes away a wanted server, with the wanted fields, of a service    *)
(* the pass has programmed, whatever calls are disturbed.                    *)
THEOREM SpecNoLiveServerRemoved == Spec => NoLiveServerRemoved
<1>1. Init => SyncOK
  BY DEF Init, SyncOK
<1>2. TypeOK /\ PassOK /\ SyncOK /\ [Next]_vars => SyncOK'
  BY NextSync
<1>3. TypeOK /\ PassOK /\ SyncOK /\ [Next]_vars
        => [\A n \in active : \A e \in endpointsMap[n] :
              Serving(n, e) => servers'[n][e] = options.check]_vars
  BY NextKeepsServers
<1>4. QED
  BY <1>1, <1>2, <1>3, SpecPassOK, PTL DEF Spec, NoLiveServerRemoved

-----------------------------------------------------------------------------
(* Without faults the backend of a service is there before its frontend, and   *)
(* the frontend is gone before its backend.                                 *)
PlainOK == /\ NoDanglingFrontend
           /\ pc = "frontend" => backends[svc] # None
           /\ pc = "cleanBackend" => frontends[svc] = None

LEMMA SyncBackendPlain ==
  ASSUME MaxFaults = 0, TypeOK, PassOK, PlainOK, NEW m \in Names, SyncBackend(m)
  PROVE  PlainOK'
<1>1. PICK r \in Stage(backends[m], options.algorithm, AddBackend(m), ReplaceBackend) :
        /\ Spend(r.cost)
        /\ backends' = [backends EXCEPT ![m] = r.value]
        /\ pc' = IF r.ok THEN "frontend" ELSE "pick"
  BY DEF SyncBackend
<1>2. r.value \in {backends[m], options.algorithm} /\ r.cost \in 0..2
  BY CallTypes, StageFacts
<1>3. r.cost = 0
  BY <1>1, <1>2, SpendLow
<1>4. options.algorithm # None
  BY NoneAssumption DEF TypeOK, Options
<1>5. r.value # None
  <2>1. CASE backends[m] # None
    BY <1>2, <1>4, <2>1
  <2>2. CASE backends[m] = None
    <3>1. AddBackend(m) = {Reply("accepted", TRUE)}
      BY <2>2 DEF AddBackend, Post
    <3>2. r \in Stage(None, options.algorithm, AddBackend(m), ReplaceBackend)
      BY <2>2
    <3>3. QED
      BY <1>3, <1>4, <3>1, <3>2, CallTypes, StageCreates
  <2>3. QED
    BY <2>1, <2>2
<1>6. \A n \in Names : backends'[n] = IF n = m THEN r.value ELSE backends[n]
  BY <1>1 DEF TypeOK
<1>7. frontends' = frontends /\ svc' = m /\ pc' # "cleanBackend"
  BY <1>1 DEF SyncBackend
<1>8. QED
  BY <1>5, <1>6, <1>7 DEF PlainOK, NoDanglingFrontend

LEMMA SyncFrontendPlain ==
  ASSUME TypeOK, PassOK, PlainOK, SyncFrontend
  PROVE  PlainOK'
<1>1. \A n \in Names : n # svc => frontends'[n] = frontends[n]
  BY DEF SyncFrontend, TypeOK
<1>2. /\ backends' = backends /\ backends[svc] # None
      /\ pc' \notin {"frontend", "cleanBackend"}
  BY DEF SyncFrontend, PlainOK
<1>3. QED
  BY <1>1, <1>2 DEF PlainOK, NoDanglingFrontend

LEMMA CleanFrontendPlain ==
  ASSUME MaxFaults = 0, TypeOK, PassOK, PlainOK, NEW m \in Names, CleanFrontend(m)
  PROVE  PlainOK'
<1>1. PICK a \in Attempts(DeleteFrontend(m)) :
        /\ Spend(a.cost)
        /\ IF a.answer.applied
           THEN /\ frontends' = [frontends EXCEPT ![m] = None]
                /\ binds' = [binds EXCEPT ![m] = None]
           ELSE UNCHANGED <<frontends, binds>>
  BY DEF CleanFrontend
<1>2. a.cost \in 0..2 /\ (a.cost = 0 => a.answer \in DeleteFrontend(m))
  BY CallTypes, AttemptFacts
<1>3. a.answer \in DeleteFrontend(m)
  BY <1>1, <1>2, SpendLow
<1>4. frontends'[m] = None
  <2>1. CASE frontends[m] = None
    BY <1>1, <2>1 DEF TypeOK
  <2>2. CASE frontends[m] # None
    <3>1. a.answer.applied
      BY <1>3, <2>2 DEF DeleteFrontend, Delete, Reply
    <3>2. QED
      BY <1>1, <3>1 DEF TypeOK
  <2>3. QED
    BY <2>1, <2>2
<1>5. \A n \in Names : n # m => frontends'[n] = frontends[n]
  BY <1>1 DEF TypeOK
<1>6. QED
  BY <1>4, <1>5 DEF PlainOK, NoDanglingFrontend, CleanFrontend

LEMMA CleanBackendPlain ==
  ASSUME TypeOK, PassOK, PlainOK, CleanBackend
  PROVE  PlainOK'
<1>1. \A n \in Names : n # svc => backends'[n] = backends[n]
  BY DEF CleanBackend, TypeOK
<1>2. frontends' = frontends /\ frontends[svc] = None /\ pc' = "clean"
  BY DEF CleanBackend, PlainOK
<1>3. QED
  BY <1>1, <1>2 DEF PlainOK, NoDanglingFrontend

LEMMA NextPlain ==
  ASSUME MaxFaults = 0, TypeOK, PassOK, PlainOK, [Next]_vars
  PROVE  PlainOK'
<1>1. CASE \E n \in Names : SyncBackend(n)
  BY <1>1, SyncBackendPlain
<1>2. CASE SyncFrontend
  BY <1>2, SyncFrontendPlain
<1>3. CASE \E n \in Names : CleanFrontend(n)
  BY <1>3, CleanFrontendPlain
<1>4. CASE CleanBackend
  BY <1>4, CleanBackendPlain
<1>5. CASE UNCHANGED vars
  BY <1>5 DEF vars, store, locals, PlainOK, NoDanglingFrontend
<1>6. CASE /\ UNCHANGED <<backends, frontends>>
           /\ pc' \notin {"frontend", "cleanBackend"}
  BY <1>6 DEF PlainOK, NoDanglingFrontend
<1>7. QED
  <2>1. ASSUME Next
        PROVE  \/ \E n \in Names : SyncBackend(n)
               \/ SyncFrontend
               \/ \E n \in Names : CleanFrontend(n)
               \/ CleanBackend
               \/ /\ UNCHANGED <<backends, frontends>>
                  /\ pc' \notin {"frontend", "cleanBackend"}
    BY <2>1 DEF Next, StartSync, SyncBind, GetServers, AddServer, DeleteServer,
                EndEndpoint, ListServices, EndSync, Restart, store
  <2>2. QED
    BY <1>1, <1>2, <1>3, <1>4, <1>5, <1>6, <2>1

(* Without disturbed calls no frontend ever lacks its backend, whatever the    *)
(* services turn into and wherever the process ends.                         *)
THEOREM SpecNoDanglingFrontend ==
  ASSUME MaxFaults = 0
  PROVE  Spec => []NoDanglingFrontend
<1>1. Init => PlainOK
  BY DEF Init, NoServices, PlainOK, NoDanglingFrontend
<1>2. TypeOK /\ PassOK /\ PlainOK /\ [Next]_vars => PlainOK'
  BY NextPlain
<1>3. PlainOK => NoDanglingFrontend
  BY DEF PlainOK
<1>4. QED
  BY <1>1, <1>2, <1>3, SpecPassOK, PTL DEF Spec

=============================================================================
