---------------------- MODULE ProxierConvergenceProofs ----------------------
(* Proofs of what a pass without a disturbed call achieves, whatever it meets:  *)
(* the frontends of services that are gone are removed, and every service that *)
(* HAProxy can have gets exactly what it wants.                              *)
EXTENDS ProxierSafetyProofs

-----------------------------------------------------------------------------
(* Calls that are not disturbed.                                            *)

(* A pass without a fault had none before, and its call took none.           *)
LEMMA SpendZero ==
  ASSUME TypeOK, NEW c \in 0..2, Spend(c), faults' = 0
  PROVE  faults = 0 /\ c = 0
BY FaultsAssumption DEF TypeOK, Spend

(* A stage without a fault reads right and makes one call, or none.          *)
LEMMA StagePlain ==
  ASSUME NEW old, NEW want, NEW post \in SUBSET Answer, NEW put \in SUBSET Answer,
         NEW r \in Stage(old, want, post, put), r.cost = 0
  PROVE  \/ /\ old = None
            /\ \E x \in post : /\ r.ok = AddSucceeded(x.code)
                               /\ r.value = IF x.applied THEN want ELSE old
         \/ /\ old # None /\ old = want
            /\ r.ok /\ r.value = want
         \/ /\ old # None /\ old # want
            /\ \E x \in put : /\ r.ok = ReplaceSucceeded(x.code)
                              /\ r.value = IF x.applied THEN want ELSE old
<1>1. ASSUME NEW misread \in {0, 1}, NEW a \in Attempts(post),
             r = Result(a, old, want, AddSucceeded(a.answer.code), misread)
      PROVE  /\ misread = 0
             /\ \E x \in post : /\ r.ok = AddSucceeded(x.code)
                                /\ r.value = IF x.applied THEN want ELSE old
  <2>1. a.cost \in {0, 1} /\ (a.cost = 0 => a.answer \in post)
    BY AttemptFacts
  <2>2. misread = 0 /\ a.cost = 0
    BY <1>1, <2>1 DEF Result
  <2>3. QED
    BY <1>1, <2>1, <2>2 DEF Result
<1>2. ASSUME NEW a \in Attempts(put),
             r = Result(a, old, want, ReplaceSucceeded(a.answer.code), 0)
      PROVE  \E x \in put : /\ r.ok = ReplaceSucceeded(x.code)
                            /\ r.value = IF x.applied THEN want ELSE old
  <2>1. a.cost \in {0, 1} /\ (a.cost = 0 => a.answer \in put)
    BY AttemptFacts
  <2>2. QED
    BY <1>2, <2>1 DEF Result
<1>3. CASE old = None
  <2>1. PICK a \in Attempts(post) :
          r = Result(a, old, want, AddSucceeded(a.answer.code), 0)
    BY <1>3 DEF Stage
  <2>2. QED
    BY <1>1, <1>3, <2>1
<1>4. CASE old # None /\ old = want
  <2>1. ~\E a \in Attempts(post) :
          r = Result(a, old, want, AddSucceeded(a.answer.code), 1)
    BY <1>1
  <2>2. r = [value |-> old, ok |-> TRUE, cost |-> 0]
    BY <1>4, <2>1 DEF Stage
  <2>3. r.ok /\ r.value = want
    BY <1>4, <2>2
  <2>4. QED
    BY <1>4, <2>3
<1>5. CASE old # None /\ old # want
  <2>1. ~\E a \in Attempts(post) :
          r = Result(a, old, want, AddSucceeded(a.answer.code), 1)
    BY <1>1
  <2>2. PICK a \in Attempts(put) :
          r = Result(a, old, want, ReplaceSucceeded(a.answer.code), 0)
    BY <1>5, <2>1 DEF Stage
  <2>3. QED
    BY <1>2, <1>5, <2>2
<1>6. QED
  BY <1>3, <1>4, <1>5

(* Without a fault the backend of a service is there after its stage.         *)
LEMMA BackendMade ==
  ASSUME TypeOK, NEW m \in Names,
         NEW r \in Stage(backends[m], options.algorithm, AddBackend(m), ReplaceBackend),
         r.cost = 0
  PROVE  /\ r.value # None
         /\ backends[m] \in {None, options.algorithm}
              => r.ok /\ r.value = options.algorithm
<1>1. options.algorithm # None
  BY NoneAssumption DEF TypeOK, Options
<1>2. CASE backends[m] = None
  <2>1. AddBackend(m) = {Reply("accepted", TRUE)}
    BY <1>2 DEF AddBackend, Post
  <2>2. \E x \in AddBackend(m) :
          /\ r.ok = AddSucceeded(x.code)
          /\ r.value = IF x.applied THEN options.algorithm ELSE backends[m]
    BY <1>2, CallTypes, StagePlain
  <2>3. AddSucceeded("accepted")
    BY DEF AddSucceeded, HandleError
  <2>4. QED
    BY <1>1, <2>1, <2>2, <2>3 DEF Reply
<1>3. CASE backends[m] # None
  <2>1. r.value \in {backends[m], options.algorithm}
    BY CallTypes, StageFacts
  <2>2. backends[m] = options.algorithm => r.ok /\ r.value = options.algorithm
    BY <1>3, CallTypes, StagePlain
  <2>3. QED
    BY <1>1, <1>3, <2>1, <2>2
<1>4. QED
  BY <1>2, <1>3

(* Without a fault the stage of a frontend succeeds only with a mode HAProxy   *)
(* knows, and if no other mode is in its place it does succeed.               *)
LEMMA FrontendMade ==
  ASSUME TypeOK, ModesOK, NEW m \in Wanted,
         NEW r \in Stage(frontends[m], serviceMap[m].protocol, AddFrontend(m),
                         ReplaceFrontend),
         r.cost = 0
  PROVE  /\ r.ok => /\ serviceMap[m].protocol \in ValidModes
                    /\ r.value = serviceMap[m].protocol
         /\ serviceMap[m].protocol \in ValidModes
              /\ frontends[m] \in {None, serviceMap[m].protocol} => r.ok
<1> DEFINE want == serviceMap[m].protocol
<1>1. m \in Names /\ want # None
  BY WantedFacts, NoneAssumption
<1>2. CASE frontends[m] = None
  <2>1. PICK x \in AddFrontend(m) :
          /\ r.ok = AddSucceeded(x.code)
          /\ r.value = IF x.applied THEN want ELSE frontends[m]
    BY <1>2, CallTypes, StagePlain
  <2>2. CASE want \in ValidModes
    <3>1. x = Reply("accepted", TRUE)
      BY <1>2, <2>2 DEF AddFrontend, Post
    <3>2. AddSucceeded("accepted")
      BY DEF AddSucceeded, HandleError
    <3>3. QED
      BY <2>1, <2>2, <3>1, <3>2 DEF Reply
  <2>3. CASE want \notin ValidModes
    <3>1. x = Reply("badRequest", FALSE)
      BY <2>3 DEF AddFrontend, Post
    <3>2. ~AddSucceeded("badRequest")
      BY DEF AddSucceeded, HandleError
    <3>3. QED
      BY <2>1, <2>3, <3>1, <3>2 DEF Reply
  <2>4. QED
    BY <2>2, <2>3
<1>3. CASE frontends[m] = want
  <2>1. want \in ValidModes
    BY <1>1, <1>3 DEF ModesOK
  <2>2. r.ok /\ r.value = want
    BY <1>1, <1>3, CallTypes, StagePlain
  <2>3. QED
    BY <2>1, <2>2
<1>4. CASE frontends[m] # None /\ frontends[m] # want
  <2>1. \E x \in ReplaceFrontend : r.ok = ReplaceSucceeded(x.code)
    BY <1>4, CallTypes, StagePlain
  <2>2. ~ReplaceSucceeded("unknown")
    BY DEF ReplaceSucceeded, HandleError
  <2>3. ~r.ok
    BY <2>1, <2>2 DEF ReplaceFrontend, Reply
  <2>4. QED
    BY <1>4, <2>3
<1>5. QED
  BY <1>2, <1>3, <1>4

(* Without a fault the stage of a bind succeeds if its frontend is there.      *)
LEMMA BindMade ==
  ASSUME TypeOK, NEW m \in Wanted, frontends[m] # None,
         NEW r \in Stage(binds[m], serviceMap[m].port, AddBind(m), replaceBind),
         r.cost = 0
  PROVE  r.ok /\ r.value = serviceMap[m].port
<1> DEFINE want == serviceMap[m].port
<1>1. AddSucceeded("accepted") /\ ReplaceSucceeded("accepted")
  BY DEF AddSucceeded, ReplaceSucceeded, HandleError
<1>2. CASE binds[m] = None
  <2>1. AddBind(m) = {Reply("accepted", TRUE)}
    BY <1>2 DEF AddBind, Post
  <2>2. \E x \in AddBind(m) : /\ r.ok = AddSucceeded(x.code)
                              /\ r.value = IF x.applied THEN want ELSE binds[m]
    BY <1>2, CallTypes, StagePlain
  <2>3. QED
    BY <1>1, <2>1, <2>2 DEF Reply
<1>3. CASE binds[m] # None /\ binds[m] = want
  BY <1>3, CallTypes, StagePlain
<1>4. CASE binds[m] # None /\ binds[m] # want
  <2>1. \E x \in replaceBind : /\ r.ok = ReplaceSucceeded(x.code)
                               /\ r.value = IF x.applied THEN want ELSE binds[m]
    BY <1>4, CallTypes, StagePlain
  <2>2. QED
    BY <1>1, <2>1 DEF replaceBind, Put, Reply
<1>5. QED
  BY <1>2, <1>3, <1>4

-----------------------------------------------------------------------------
(* The steps of syncEndpoint change nothing but servers.                     *)
ServerStep == \/ GetServers
              \/ \E e \in Endpoints : AddServer(e)
              \/ \E e \in Endpoints : DeleteServer(e)
              \/ EndEndpoint

LEMMA ServerStepEffect ==
  ASSUME TypeOK, PassOK, ServerStep
  PROVE  /\ UNCHANGED <<backends, frontends, binds, inputs, todo, active, legacy,
                        svc, clean>>
         /\ pc \in {"servers", "sync"}
         /\ pc' \in {"sync", "pick"}
         /\ faults' = 0 => faults = 0
<1>1. CASE GetServers
  <2>1. faults' = 0 => faults = 0
    BY <1>1, SpendZero DEF GetServers
  <2>2. QED
    BY <1>1, <2>1 DEF GetServers, store, ghosts
<1>2. CASE \E e \in Endpoints : AddServer(e)
  <2>1. PICK e \in Endpoints : AddServer(e)
    BY <1>2
  <2>2. faults' = 0 => faults = 0
    <3>1. CASE cur[e] = options.check
      BY <2>1, <3>1, SpendZero DEF AddServer, PassOK
    <3>2. CASE cur[e] # options.check
      <4>1. PICK a \in Attempts(AddServerToBackend(svc, e)) : Spend(a.cost)
        BY <2>1, <3>2 DEF AddServer
      <4>2. a.cost \in 0..2
        BY CallTypes, AttemptFacts
      <4>3. QED
        BY <4>1, <4>2, SpendZero
    <3>3. QED
      BY <3>1, <3>2
  <2>3. QED
    BY <2>1, <2>2 DEF AddServer, ghosts
<1>3. CASE \E e \in Endpoints : DeleteServer(e)
  <2>1. PICK e \in Endpoints : DeleteServer(e)
    BY <1>3
  <2>2. faults' = 0 => faults = 0
    <3>1. GracefulDeleteSrv(e)
      BY <2>1 DEF DeleteServer, PassOK
    <3>2. CASE \E a \in Attempts(DeleteServerFromBackend(svc, e)) : Spend(a.cost)
      <4>1. PICK a \in Attempts(DeleteServerFromBackend(svc, e)) : Spend(a.cost)
        BY <3>2
      <4>2. a.cost \in 0..2
        BY CallTypes, AttemptFacts
      <4>3. QED
        BY <4>1, <4>2, SpendZero
    <3>3. CASE Spend(IF servers[svc][e] = None THEN 0 ELSE 1)
      BY <3>3, SpendZero
    <3>4. QED
      BY <3>1, <3>2, <3>3 DEF GracefulDeleteSrv
  <2>3. QED
    BY <2>1, <2>2 DEF DeleteServer, ghosts
<1>4. CASE EndEndpoint
  BY <1>4 DEF EndEndpoint, store, ghosts
<1>5. QED
  BY <1>1, <1>2, <1>3, <1>4 DEF ServerStep

-----------------------------------------------------------------------------
(* No bind without its frontend. *)
BindsOK == \A n \in Names : binds[n] # None => frontends[n] # None

(* The frontends of services HAProxy cannot have are gone, but for those in S,  *)
(* or there are no such services and no backends.                            *)
Sweepless  == \A n \in Names : ~Servable(n) /\ backends[n] = None
GoneBut(S) == \/ \A n \in Names \ S : ~Servable(n) => frontends[n] = None
              \/ Sweepless

(* What leads there: in a pass without a fault every servable service gets its  *)
(* backend, so that the list of services is not taken for empty, and only       *)
(* servable services become active.                                         *)
SweptOK ==
  /\ pc = "idle" /\ clean >= 1 => GoneBut({})
  /\ faults = 0 =>
       /\ pc \notin {"idle", "clean", "cleanBackend"} =>
            /\ \A m \in Names \ todo : Servable(m) => backends[m] # None
            /\ \A m \in active : Servable(m)
       /\ pc = "bind" => Servable(svc)
       /\ pc \in {"clean", "cleanBackend"} => GoneBut(legacy)
       /\ pc = "cleanBackend" => frontends[svc] = None

LEMMA SameServable ==
  ASSUME UNCHANGED inputs, NEW n
  PROVE  Servable(n)' = Servable(n)
BY DEF inputs, Servable, Wanted

LEMMA StartSyncSwept ==
  ASSUME TypeOK, PassOK, StartSync
  PROVE  SweptOK'
<1>1. pc' = "pick" /\ todo' = Wanted' /\ active' = {}
  BY DEF StartSync
<1>2. \A m \in Names : Servable(m)' => m \in todo'
  BY <1>1 DEF Servable
<1>3. QED
  BY <1>1, <1>2 DEF SweptOK

LEMMA SyncBackendSwept ==
  ASSUME TypeOK, PassOK, SweptOK, NEW n \in Names, SyncBackend(n)
  PROVE  SweptOK'
<1>1. PICK r \in Stage(backends[n], options.algorithm, AddBackend(n), ReplaceBackend) :
        /\ Spend(r.cost)
        /\ backends' = [backends EXCEPT ![n] = r.value]
        /\ pc' = IF r.ok THEN "frontend" ELSE "pick"
  BY DEF SyncBackend
<1>2. r.cost \in 0..2
  BY CallTypes, StageFacts
<1>3. \A m \in Names : Servable(m)' = Servable(m)
  BY SameServable DEF SyncBackend
<1>4. /\ pc = "pick" /\ pc' \in {"frontend", "pick"}
      /\ todo' = todo \ {n} /\ active' = active
  BY <1>1 DEF SyncBackend
<1>5. SUFFICES ASSUME faults' = 0
               PROVE  /\ \A m \in Names \ todo' : Servable(m) => backends'[m] # None
                      /\ \A m \in active : Servable(m)
  <2>1. active \subseteq Names
    BY DEF TypeOK
  <2>2. QED
    BY <1>3, <1>4, <1>5, <2>1 DEF SweptOK
<1>6. faults = 0 /\ r.cost = 0
  BY <1>1, <1>2, <1>5, SpendZero
<1>7. r.value # None
  BY <1>6, BackendMade
<1>8. \A m \in Names : backends'[m] = IF m = n THEN r.value ELSE backends[m]
  BY <1>1 DEF TypeOK
<1>9. QED
  BY <1>4, <1>6, <1>7, <1>8 DEF SweptOK

LEMMA SyncFrontendSwept ==
  ASSUME TypeOK, PassOK, ModesOK, SweptOK, SyncFrontend
  PROVE  SweptOK'
<1>1. PICK r \in Stage(frontends[svc], serviceMap[svc].protocol, AddFrontend(svc),
                       ReplaceFrontend) :
        /\ Spend(r.cost)
        /\ pc' = IF r.ok THEN "bind" ELSE "pick"
  BY DEF SyncFrontend
<1>2. r.cost \in 0..2 /\ svc \in Wanted /\ svc \in Names
  BY CallTypes, StageFacts DEF PassOK, SyncFrontend, Wanted
<1>3. \A m \in Names : Servable(m)' = Servable(m)
  BY SameServable DEF SyncFrontend
<1>4. /\ pc = "frontend" /\ pc' \in {"bind", "pick"} /\ active \subseteq Names
      /\ todo' = todo /\ active' = active /\ backends' = backends /\ svc' = svc
  BY <1>1 DEF SyncFrontend, locals, TypeOK
<1>5. ASSUME faults' = 0
      PROVE  faults = 0 /\ (pc' = "bind" => Servable(svc))
  <2>1. faults = 0 /\ r.cost = 0
    BY <1>1, <1>2, <1>5, SpendZero
  <2>2. pc' = "bind" => serviceMap[svc].protocol \in ValidModes
    BY <1>1, <1>2, <2>1, FrontendMade
  <2>3. QED
    BY <1>2, <2>1, <2>2 DEF Servable
<1>6. QED
  BY <1>2, <1>3, <1>4, <1>5 DEF SweptOK

LEMMA SyncBindSwept ==
  ASSUME TypeOK, PassOK, SweptOK, SyncBind
  PROVE  SweptOK'
<1>1. PICK r \in Stage(binds[svc], serviceMap[svc].port, AddBind(svc), replaceBind) :
        /\ Spend(r.cost)
        /\ pc' = IF r.ok THEN "servers" ELSE "pick"
        /\ active' = IF r.ok THEN active \cup {svc} ELSE active
  BY DEF SyncBind
<1>2. r.cost \in 0..2 /\ svc \in Names
  BY CallTypes, StageFacts DEF PassOK, SyncBind, Wanted
<1>3. \A m \in Names : Servable(m)' = Servable(m)
  BY SameServable DEF SyncBind
<1>4. /\ pc = "bind" /\ pc' \in {"servers", "pick"} /\ active \subseteq Names
      /\ active' \subseteq active \cup {svc}
      /\ todo' = todo /\ backends' = backends
  BY <1>1 DEF SyncBind, TypeOK
<1>5. faults' = 0 => faults = 0
  BY <1>1, <1>2, SpendZero
<1>6. QED
  BY <1>2, <1>3, <1>4, <1>5 DEF SweptOK

LEMMA ServerStepSwept ==
  ASSUME TypeOK, PassOK, SweptOK, ServerStep
  PROVE  SweptOK'
<1>1. /\ UNCHANGED <<backends, inputs, todo, active>>
      /\ pc \in {"servers", "sync"} /\ pc' \in {"sync", "pick"}
      /\ faults' = 0 => faults = 0
  BY ServerStepEffect
<1>2. \A m \in Names : Servable(m)' = Servable(m)
  BY <1>1, SameServable
<1>3. active \subseteq Names
  BY DEF TypeOK
<1>4. QED
  BY <1>1, <1>2, <1>3 DEF SweptOK

LEMMA ListServicesSwept ==
  ASSUME TypeOK, PassOK, SweptOK, ListServices
  PROVE  SweptOK'
<1>1. \A m \in Names : Servable(m)' = Servable(m)
  BY SameServable DEF ListServices
<1>2. /\ pc = "pick" /\ pc' = "clean" /\ todo = {} /\ frontends' = frontends
  BY DEF ListServices, store
<1>3. SUFFICES ASSUME faults' = 0 PROVE GoneBut(legacy)'
  BY <1>1, <1>2 DEF SweptOK
<1>4. faults = 0 /\ ~Spend(1)
  BY <1>3, SpendZero, FaultsAssumption DEF ListServices, TypeOK, Spend
<1>5. legacy' = GetServices \ active /\ backends' = backends
  BY <1>4 DEF ListServices, store
<1>6. /\ \A m \in Names : Servable(m) => backends[m] # None
      /\ \A m \in active : Servable(m)
  BY <1>2, <1>4 DEF SweptOK
<1>7. CASE \A m \in Names : backends[m] = None
  <2>1. Sweepless'
    BY <1>1, <1>5, <1>6, <1>7 DEF Sweepless
  <2>2. QED
    BY <2>1 DEF GoneBut
<1>8. CASE \A m \in Names : frontends[m] = None
  BY <1>2, <1>8 DEF GoneBut
<1>9. CASE GetServices = {m \in Names : frontends[m] # None}
  <2>1. \A n \in Names \ legacy' : ~Servable(n)' => frontends'[n] = None
    BY <1>1, <1>2, <1>5, <1>6, <1>9
  <2>2. QED
    BY <2>1 DEF GoneBut
<1>10. QED
  BY <1>7, <1>8, <1>9 DEF GetServices

LEMMA CleanFrontendSwept ==
  ASSUME TypeOK, PassOK, SweptOK, NEW n \in Names, CleanFrontend(n)
  PROVE  SweptOK'
<1>1. PICK a \in Attempts(DeleteFrontend(n)) :
        /\ Spend(a.cost)
        /\ IF a.answer.applied
           THEN /\ frontends' = [frontends EXCEPT ![n] = None]
                /\ binds' = [binds EXCEPT ![n] = None]
           ELSE UNCHANGED <<frontends, binds>>
  BY DEF CleanFrontend
<1>2. a.cost \in 0..2 /\ (a.cost = 0 => a.answer \in DeleteFrontend(n))
  BY CallTypes, AttemptFacts
<1>3. \A m \in Names : Servable(m)' = Servable(m)
  BY SameServable DEF CleanFrontend
<1>4. pc = "clean" /\ pc' = "cleanBackend" /\ legacy' = legacy \ {n} /\ svc' = n
  BY DEF CleanFrontend
<1>5. \A m \in Names : m # n => frontends'[m] = frontends[m]
  BY <1>1 DEF TypeOK
<1>6. ASSUME faults' = 0 PROVE faults = 0 /\ frontends'[n] = None
  <2>1. faults = 0 /\ a.answer \in DeleteFrontend(n)
    BY <1>1, <1>2, <1>6, SpendZero
  <2>2. CASE frontends[n] = None
    BY <1>1, <2>1, <2>2 DEF TypeOK
  <2>3. CASE frontends[n] # None
    <3>1. a.answer.applied
      BY <2>1, <2>3 DEF DeleteFrontend, Delete, Reply
    <3>2. QED
      BY <1>1, <2>1, <3>1 DEF TypeOK
  <2>4. QED
    BY <2>2, <2>3
<1>7. Sweepless => Sweepless'
  BY <1>3 DEF CleanFrontend, Sweepless
<1>8. ASSUME faults' = 0 PROVE GoneBut(legacy)'
  <2>1. GoneBut(legacy)
    BY <1>4, <1>6, <1>8 DEF SweptOK
  <2>2. QED
    BY <1>3, <1>4, <1>5, <1>6, <1>7, <1>8, <2>1 DEF GoneBut
<1>9. QED
  BY <1>4, <1>6, <1>8 DEF SweptOK

LEMMA CleanBackendSwept ==
  ASSUME TypeOK, PassOK, SweptOK, CleanBackend
  PROVE  SweptOK'
<1>1. PICK a \in Attempts(DeleteBackend(svc)) : Spend(a.cost)
  BY DEF CleanBackend
<1>2. a.cost \in 0..2
  BY CallTypes, AttemptFacts
<1>3. \A m \in Names : Servable(m)' = Servable(m)
  BY SameServable DEF CleanBackend
<1>4. /\ pc = "cleanBackend" /\ pc' = "clean"
      /\ legacy' = legacy /\ frontends' = frontends
  BY DEF CleanBackend, locals
<1>5. faults' = 0 => faults = 0
  BY <1>1, <1>2, SpendZero
<1>6. Sweepless => Sweepless'
  <2>1. \A m \in Names : backends'[m] \in {backends[m], None}
    BY DEF CleanBackend, TypeOK
  <2>2. QED
    BY <1>3, <2>1 DEF Sweepless
<1>7. GoneBut(legacy) => GoneBut(legacy)'
  BY <1>3, <1>4, <1>6 DEF GoneBut
<1>8. QED
  BY <1>4, <1>5, <1>7 DEF SweptOK

LEMMA EndSyncSwept ==
  ASSUME TypeOK, PassOK, SweptOK, EndSync
  PROVE  SweptOK'
<1>1. \A m \in Names : Servable(m)' = Servable(m)
  BY SameServable DEF EndSync
<1>2. /\ pc = "clean" /\ pc' = "idle" /\ legacy = {}
      /\ frontends' = frontends /\ backends' = backends
      /\ clean' >= 1 => faults = 0
  BY FaultsAssumption DEF EndSync, store, TypeOK
<1>3. GoneBut(legacy) => GoneBut({})'
  BY <1>1, <1>2 DEF GoneBut, Sweepless
<1>4. QED
  BY <1>2, <1>3 DEF SweptOK

LEMMA NextSwept ==
  ASSUME TypeOK, PassOK, ModesOK, SweptOK, [Next]_vars
  PROVE  SweptOK'
<1>1. CASE StartSync
  BY <1>1, StartSyncSwept
<1>2. CASE \E n \in Names : SyncBackend(n)
  BY <1>2, SyncBackendSwept
<1>3. CASE SyncFrontend
  BY <1>3, SyncFrontendSwept
<1>4. CASE SyncBind
  BY <1>4, SyncBindSwept
<1>5. CASE ServerStep
  BY <1>5, ServerStepSwept
<1>6. CASE ListServices
  BY <1>6, ListServicesSwept
<1>7. CASE \E n \in Names : CleanFrontend(n)
  BY <1>7, CleanFrontendSwept
<1>8. CASE CleanBackend
  BY <1>8, CleanBackendSwept
<1>9. CASE EndSync
  BY <1>9, EndSyncSwept
<1>10. CASE Restart
  BY <1>10 DEF Restart, SweptOK
<1>11. CASE UNCHANGED vars
  BY <1>11 DEF vars, store, inputs, locals, ghosts, SweptOK, GoneBut, Sweepless, Servable,
                Wanted
<1>12. QED
  BY <1>1, <1>2, <1>3, <1>4, <1>5, <1>6, <1>7, <1>8, <1>9, <1>10, <1>11
     DEF Next, ServerStep

LEMMA NextBinds ==
  ASSUME TypeOK, PassOK, BindsOK, [Next]_vars
  PROVE  BindsOK'
<1>1. CASE SyncFrontend
  <2>1. PICK r \in Stage(frontends[svc], serviceMap[svc].protocol, AddFrontend(svc),
                         ReplaceFrontend) :
          frontends' = [frontends EXCEPT ![svc] = r.value]
    BY <1>1 DEF SyncFrontend
  <2>2. r.value \in {frontends[svc], serviceMap[svc].protocol}
    BY CallTypes, StageFacts
  <2>3. serviceMap[svc].protocol # None
    BY <1>1, WantedFacts, NoneAssumption DEF PassOK, SyncFrontend
  <2>4. \A n \in Names : frontends'[n] = IF n = svc THEN r.value ELSE frontends[n]
    BY <2>1 DEF TypeOK
  <2>5. binds' = binds
    BY <1>1 DEF SyncFrontend
  <2>6. QED
    BY <2>2, <2>3, <2>4, <2>5 DEF BindsOK
<1>2. CASE SyncBind
  <2>1. PICK r \in Stage(binds[svc], serviceMap[svc].port, AddBind(svc), replaceBind) :
          binds' = [binds EXCEPT ![svc] = r.value]
    BY <1>2 DEF SyncBind
  <2>2. frontends' = frontends /\ \A n \in Names : n # svc => binds'[n] = binds[n]
    BY <1>2, <2>1 DEF SyncBind, TypeOK
  <2>3. svc \in Names
    BY <1>2 DEF PassOK, SyncBind, Wanted
  <2>4. CASE binds[svc] # None
    BY <2>2, <2>3, <2>4 DEF BindsOK
  <2>5. CASE binds[svc] = None /\ frontends[svc] = None
    <3>1. AddBind(svc) = {Reply("badRequest", FALSE)}
      BY <2>5 DEF AddBind, Post
    <3>2. PICK a \in Attempts(AddBind(svc)) :
            r = Result(a, None, serviceMap[svc].port, AddSucceeded(a.answer.code), 0)
      BY <2>5 DEF Stage
    <3>3. ~a.answer.applied
      BY <3>1, CallTypes, AttemptFacts DEF Reply
    <3>4. binds'[svc] = None
      BY <2>1, <2>3, <3>2, <3>3 DEF Result, TypeOK
    <3>5. QED
      BY <2>2, <2>3, <3>4 DEF BindsOK
  <2>6. QED
    BY <2>2, <2>4, <2>5 DEF BindsOK
<1>3. CASE \E n \in Names : CleanFrontend(n)
  <2>1. PICK n \in Names : CleanFrontend(n)
    BY <1>3
  <2>2. \/ /\ frontends' = [frontends EXCEPT ![n] = None]
           /\ binds' = [binds EXCEPT ![n] = None]
        \/ UNCHANGED <<frontends, binds>>
    BY <2>1 DEF CleanFrontend
  <2>3. QED
    BY <2>2 DEF BindsOK, TypeOK
<1>4. CASE UNCHANGED <<frontends, binds>>
  BY <1>4 DEF BindsOK
<1>5. QED
  <2>1. ASSUME Next
        PROVE  \/ SyncFrontend \/ SyncBind
               \/ \E n \in Names : CleanFrontend(n)
               \/ UNCHANGED <<frontends, binds>>
    BY <2>1 DEF Next, StartSync, SyncBackend, GetServers, AddServer, DeleteServer,
                EndEndpoint, ListServices, CleanBackend, EndSync, Restart, store
  <2>2. QED
    BY <1>1, <1>2, <1>3, <1>4, <2>1 DEF vars, store

(* After a pass without a disturbed call no frontend and no bind is left of a  *)
(* service that is gone or that HAProxy cannot have, unless there is no        *)
(* service it can have and no backend, whatever the options were and are.     *)
THEOREM SpecLegacyRemoved == Spec => []LegacyRemoved
<1> DEFINE IInv == ModesOK /\ KeptOK /\ BindsOK /\ SweptOK
<1>1. Init => IInv
  BY DEF Init, NoServices, ModesOK, KeptOK, BindsOK, SweptOK
<1>2. TypeOK /\ PassOK /\ IInv /\ [Next]_vars => IInv'
  BY NextKept, NextBinds, NextSwept
<1>3. IInv => LegacyRemoved
  BY DEF BindsOK, SweptOK, GoneBut, Sweepless, LegacyRemoved
<1>4. QED
  BY <1>1, <1>2, <1>3, SpecPassOK, PTL DEF Spec

-----------------------------------------------------------------------------
(* What a service is to have.  A first pass gives it its frontend side and      *)
(* only servers that are wanted, a second one all of them: a server with       *)
(* another Check field is in the way of the wanted one until it is deleted.    *)

OneOf(S) == \A x, y \in S : x = y

(* No server of n has another Check field than the wanted one.                *)
Tidy(n) == \A e \in Endpoints : servers[n][e] \in {None, options.check}

Shaped(n) == /\ Programmed(n)
             /\ Tidy(n)
             /\ \A e \in Endpoints \ endpointsMap[n] : servers[n][e] = None

Filled(n) == \A e \in endpointsMap[n] : Serving(n, e)

(* The pass meets tidy servers: there is no other check, or the pass before     *)
(* was undisturbed and had the same inputs.                                 *)
Uniform == OneOf(Checks) \/ clean >= 1

Settled(n) == Shaped(n) /\ (Uniform => Filled(n))

(* The service in hand between the range over serviceMap and the next round.   *)
Hand == IF pc \in {"frontend", "bind", "servers", "sync"} THEN {svc} ELSE {}

(* The server of e in syncEndpoint: as listed as long as one of the loops is    *)
(* to come to it, then as wanted, or gone if it was not.                      *)
Looked(e) ==
  /\ Uniform => cur[e] \in {None, options.check}
  /\ e \in dels => e \in Obsolete(svc, cur)
  /\ e \in adds => e \in endpointsMap[svc] /\ (e \in Obsolete(svc, cur) => e \in dels)
  /\ servers[svc][e] = IF e \in adds \cup dels THEN cur[e]
                       ELSE IF e \in endpointsMap[svc] /\ cur[e] \in {None, options.check}
                       THEN options.check ELSE None

IdleOK == pc = "idle" /\ clean >= 1 =>
            \A n \in Names : Servable(n) =>
              Shaped(n) /\ (OneOf(Checks) \/ clean >= 2 => Filled(n))

PlainPass == pc # "idle" /\ faults = 0

TidyOK == PlainPass /\ Uniform => \A n \in Names : Servable(n) => Tidy(n)
DoneOK == PlainPass => \A n \in Names \ (todo \cup Hand) :
                         Servable(n) => n \in active /\ Settled(n)
HandOK == PlainPass =>
            /\ pc \in {"frontend", "bind"} => backends[svc] = options.algorithm
            /\ pc = "bind" => frontends[svc] = serviceMap[svc].protocol
            /\ pc \in {"servers", "sync"} => Programmed(svc)
            /\ pc = "sync" => \A e \in Endpoints : Looked(e)

ConvergeOK == IdleOK /\ TidyOK /\ DoneOK /\ HandOK

(* With one check there is nothing else a server could have.                 *)
LEMMA OneCheckIsTidy ==
  ASSUME TypeOK, OneOf(Checks), NEW n \in Names
  PROVE  Tidy(n)
BY DEF TypeOK, Tidy, OneOf, Options, Option

(* What a step leaves alone stays settled. *)
LEMMA SettledKept ==
  ASSUME TypeOK, UNCHANGED <<inputs, clean>>, NEW n \in Names,
         backends'[n] = backends[n], frontends'[n] = frontends[n],
         binds'[n] = binds[n],
         \A e \in Endpoints : servers'[n][e] = servers[n][e]
  PROVE  Settled(n)' = Settled(n)
<1>1. endpointsMap[n] \subseteq Endpoints
  BY DEF TypeOK
<1>2. /\ Programmed(n)' = Programmed(n)
      /\ Uniform' = Uniform
  BY DEF inputs, Programmed, Uniform
<1>3. Tidy(n)' = Tidy(n) /\ Filled(n)' = Filled(n)
  BY <1>1 DEF inputs, Tidy, Filled, Serving
<1>4. (\A e \in Endpoints \ endpointsMap[n] : servers[n][e] = None)'
        = (\A e \in Endpoints \ endpointsMap[n] : servers[n][e] = None)
  BY DEF inputs
<1>5. QED
  BY <1>2, <1>3, <1>4 DEF Settled, Shaped

(* A step of a pass that leaves every server as it was, or takes it away, or     *)
(* gives it the wanted field, keeps the servers tidy.                         *)
LEMMA TidyKept ==
  ASSUME TypeOK, TidyOK, UNCHANGED <<inputs, clean>>, pc # "idle",
         faults' = 0 => faults = 0,
         \A n \in Names : \A e \in Endpoints :
           servers'[n][e] \in {servers[n][e], None, options.check}
  PROVE  TidyOK'
<1>1. \A n \in Names : Servable(n)' = Servable(n)
  BY SameServable
<1>2. Uniform' = Uniform /\ options' = options
  BY DEF Uniform, inputs
<1>3. \A n \in Names : Tidy(n) => Tidy(n)'
  BY <1>2 DEF Tidy
<1>4. QED
  BY <1>1, <1>2, <1>3 DEF TidyOK, PlainPass

LEMMA StartSyncConverge ==
  ASSUME TypeOK, PassOK, ConvergeOK, StartSync
  PROVE  ConvergeOK'
<1>1. /\ pc = "idle" /\ pc' = "pick" /\ todo' = Wanted'
      /\ servers' = servers /\ options' = options
  BY DEF StartSync, store
<1>2. \A n \in Names : Servable(n)' => n \in todo'
  BY <1>1 DEF Servable
<1>3. TidyOK'
  <2>1. SUFFICES ASSUME Uniform', NEW n \in Names, Servable(n)' PROVE Tidy(n)'
    BY DEF TidyOK
  <2>2. Tidy(n)' = Tidy(n)
    BY <1>1 DEF Tidy
  <2>3. CASE OneOf(Checks)
    BY <2>2, <2>3, OneCheckIsTidy
  <2>4. CASE clean' >= 1
    <3>1. clean >= 1 /\ UNCHANGED inputs
      BY <2>4 DEF StartSync, inputs
    <3>2. Servable(n)
      BY <2>1, <3>1, SameServable
    <3>3. QED
      BY <1>1, <2>2, <3>1, <3>2 DEF ConvergeOK, IdleOK, Shaped
  <2>5. QED
    BY <2>1, <2>3, <2>4 DEF Uniform
<1>4. DoneOK'
  BY <1>2 DEF DoneOK
<1>5. IdleOK' /\ HandOK'
  BY <1>1 DEF IdleOK, HandOK
<1>6. QED
  BY <1>3, <1>4, <1>5 DEF ConvergeOK

LEMMA SyncBackendConverge ==
  ASSUME OneOf(Algorithms), TypeOK, PassOK, ConvergeOK,
         NEW m \in Names, SyncBackend(m)
  PROVE  ConvergeOK'
<1>1. PICK r \in Stage(backends[m], options.algorithm, AddBackend(m), ReplaceBackend) :
        /\ Spend(r.cost)
        /\ backends' = [backends EXCEPT ![m] = r.value]
        /\ pc' = IF r.ok THEN "frontend" ELSE "pick"
  BY DEF SyncBackend
<1>2. r.cost \in 0..2
  BY CallTypes, StageFacts
<1>3. /\ UNCHANGED <<frontends, binds, servers, inputs, active, clean>>
      /\ pc = "pick" /\ todo' = todo \ {m} /\ svc' = m /\ options' = options
  BY DEF SyncBackend, ghosts, inputs
<1>4. ASSUME faults' = 0
      PROVE  faults = 0 /\ pc' = "frontend" /\ backends'[m] = options.algorithm
  <2>1. faults = 0 /\ r.cost = 0
    BY <1>1, <1>2, <1>4, SpendZero
  <2>2. backends[m] \in {None, options.algorithm}
    BY DEF TypeOK, OneOf, Options, Option
  <2>3. r.ok /\ r.value = options.algorithm
    BY <2>1, <2>2, BackendMade
  <2>4. QED
    BY <1>1, <2>1, <2>3 DEF TypeOK
<1>5. TidyOK'
  BY <1>3, <1>4, TidyKept DEF ConvergeOK
<1>6. DoneOK'
  <2>1. SUFFICES ASSUME faults' = 0, NEW n \in Names \ (todo' \cup Hand'), Servable(n)'
                 PROVE  n \in active' /\ Settled(n)'
    BY DEF DoneOK, PlainPass
  <2>2. n # m /\ n \notin todo /\ faults = 0 /\ Servable(n)
    BY <1>3, <1>4, <2>1, SameServable DEF Hand
  <2>3. n \in active /\ Settled(n)
    BY <1>3, <2>2 DEF ConvergeOK, DoneOK, PlainPass, Hand
  <2>4. backends'[n] = backends[n]
    BY <1>1, <2>2 DEF TypeOK
  <2>5. QED
    BY <1>3, <2>3, <2>4, SettledKept
<1>7. IdleOK' /\ HandOK'
  BY <1>1, <1>3, <1>4 DEF IdleOK, HandOK, PlainPass
<1>8. QED
  BY <1>5, <1>6, <1>7 DEF ConvergeOK

LEMMA SyncFrontendConverge ==
  ASSUME OneOf(Protocols \cap ValidModes), TypeOK, PassOK, ModesOK, ConvergeOK,
         SyncFrontend
  PROVE  ConvergeOK'
<1>1. PICK r \in Stage(frontends[svc], serviceMap[svc].protocol, AddFrontend(svc),
                       ReplaceFrontend) :
        /\ Spend(r.cost)
        /\ frontends' = [frontends EXCEPT ![svc] = r.value]
        /\ pc' = IF r.ok THEN "bind" ELSE "pick"
  BY DEF SyncFrontend
<1>2. r.cost \in 0..2 /\ svc \in Wanted /\ svc \in Names
  BY CallTypes, StageFacts DEF PassOK, SyncFrontend, Wanted
<1>3. /\ UNCHANGED <<backends, binds, servers, inputs, todo, active, svc, clean>>
      /\ pc = "frontend" /\ options' = options /\ serviceMap' = serviceMap
  BY DEF SyncFrontend, ghosts, locals, inputs
<1>4. ASSUME faults' = 0
      PROVE  /\ faults = 0
             /\ Servable(svc) => pc' = "bind"
             /\ pc' = "bind" => frontends'[svc] = serviceMap[svc].protocol
  <2>1. faults = 0 /\ r.cost = 0
    BY <1>1, <1>2, <1>4, SpendZero
  <2>2. Servable(svc) => frontends[svc] \in {None, serviceMap[svc].protocol}
    BY <1>2, WantedFacts DEF TypeOK, ModesOK, Servable, OneOf, Option
  <2>3. /\ r.ok => r.value = serviceMap[svc].protocol
        /\ Servable(svc) => r.ok
    BY <1>2, <2>1, <2>2, FrontendMade DEF Servable
  <2>4. QED
    BY <1>1, <1>2, <2>1, <2>3 DEF TypeOK
<1>5. TidyOK'
  BY <1>3, <1>4, TidyKept DEF ConvergeOK
<1>6. DoneOK'
  <2>1. SUFFICES ASSUME faults' = 0, NEW n \in Names \ (todo' \cup Hand'), Servable(n)'
                 PROVE  n \in active' /\ Settled(n)'
    BY DEF DoneOK, PlainPass
  <2>2. n # svc /\ n \notin todo /\ faults = 0 /\ Servable(n)
    BY <1>3, <1>4, <2>1, SameServable DEF Hand
  <2>3. n \in active /\ Settled(n)
    BY <1>3, <2>2 DEF ConvergeOK, DoneOK, PlainPass, Hand
  <2>4. frontends'[n] = frontends[n]
    BY <1>1, <2>2 DEF TypeOK
  <2>5. QED
    BY <1>3, <2>3, <2>4, SettledKept
<1>7. IdleOK' /\ HandOK'
  BY <1>1, <1>3, <1>4 DEF ConvergeOK, IdleOK, HandOK, PlainPass
<1>8. QED
  BY <1>5, <1>6, <1>7 DEF ConvergeOK

LEMMA SyncBindConverge ==
  ASSUME TypeOK, PassOK, ConvergeOK, SyncBind
  PROVE  ConvergeOK'
<1>1. PICK r \in Stage(binds[svc], serviceMap[svc].port, AddBind(svc), replaceBind) :
        /\ Spend(r.cost)
        /\ binds' = [binds EXCEPT ![svc] = r.value]
        /\ pc' = IF r.ok THEN "servers" ELSE "pick"
        /\ active' = IF r.ok THEN active \cup {svc} ELSE active
  BY DEF SyncBind
<1>2. r.cost \in 0..2 /\ svc \in Wanted /\ svc \in Names
  BY CallTypes, StageFacts DEF PassOK, SyncBind, Wanted
<1>3. /\ UNCHANGED <<backends, frontends, servers, inputs, todo, svc, clean>>
      /\ pc = "bind" /\ options' = options /\ serviceMap' = serviceMap
  BY DEF SyncBind, ghosts, inputs
<1>4. ASSUME faults' = 0
      PROVE  faults = 0 /\ pc' = "servers" /\ Programmed(svc)'
  <2>1. faults = 0 /\ r.cost = 0
    BY <1>1, <1>2, <1>4, SpendZero
  <2>2. /\ backends[svc] = options.algorithm
        /\ frontends[svc] = serviceMap[svc].protocol
    BY <1>3, <2>1 DEF ConvergeOK, HandOK, PlainPass
  <2>3. frontends[svc] # None
    BY <1>2, <2>2, WantedFacts, NoneAssumption
  <2>4. r.ok /\ r.value = serviceMap[svc].port
    BY <1>2, <2>1, <2>3, BindMade
  <2>5. binds'[svc] = serviceMap[svc].port
    BY <1>1, <1>2, <2>4 DEF TypeOK
  <2>6. serviceMap[svc] # None
    BY <1>2 DEF Wanted
  <2>7. QED
    BY <1>1, <1>3, <2>1, <2>2, <2>4, <2>5, <2>6 DEF Programmed
<1>5. TidyOK'
  BY <1>3, <1>4, TidyKept DEF ConvergeOK
<1>6. DoneOK'
  <2>1. SUFFICES ASSUME faults' = 0, NEW n \in Names \ (todo' \cup Hand'), Servable(n)'
                 PROVE  n \in active' /\ Settled(n)'
    BY DEF DoneOK, PlainPass
  <2>2. n # svc /\ n \notin todo /\ faults = 0 /\ Servable(n)
    BY <1>3, <1>4, <2>1, SameServable DEF Hand
  <2>3. n \in active /\ n \in active' /\ Settled(n)
    BY <1>1, <1>3, <2>2 DEF ConvergeOK, DoneOK, PlainPass, Hand
  <2>4. binds'[n] = binds[n]
    BY <1>1, <2>2 DEF TypeOK
  <2>5. QED
    BY <1>3, <2>3, <2>4, SettledKept
<1>7. IdleOK' /\ HandOK'
  BY <1>1, <1>3, <1>4 DEF IdleOK, HandOK, PlainPass
<1>8. QED
  BY <1>5, <1>6, <1>7 DEF ConvergeOK

(* What the steps of syncEndpoint have in common: the other services.          *)
LEMMA ServerStepFrame ==
  ASSUME TypeOK, PassOK, ConvergeOK, ServerStep,
         \A n \in Names : \A e \in Endpoints :
           /\ servers'[n][e] \in {servers[n][e], None, options.check}
           /\ n # svc => servers'[n][e] = servers[n][e]
  PROVE  /\ IdleOK' /\ TidyOK'
         /\ \A n \in Names \ (todo' \cup {svc}) :
              faults' = 0 /\ Servable(n)' => n \in active' /\ Settled(n)'
         /\ faults' = 0 => faults = 0 /\ Programmed(svc)'
<1>1. /\ UNCHANGED <<backends, frontends, binds, inputs, todo, active, svc, clean>>
      /\ pc \in {"servers", "sync"} /\ pc' \in {"sync", "pick"}
      /\ faults' = 0 => faults = 0
  BY ServerStepEffect
<1>2. IdleOK' /\ TidyOK'
  BY <1>1, TidyKept DEF ConvergeOK, IdleOK
<1>3. ASSUME faults' = 0, NEW n \in Names \ (todo' \cup {svc}), Servable(n)'
      PROVE  n \in active' /\ Settled(n)'
  <2>1. Servable(n)
    BY <1>1, <1>3, SameServable
  <2>2. n \in active /\ Settled(n)
    BY <1>1, <1>3, <2>1 DEF ConvergeOK, DoneOK, PlainPass, Hand
  <2>3. QED
    BY <1>1, <1>3, <2>2, SettledKept
<1>4. faults' = 0 => Programmed(svc)'
  BY <1>1 DEF ConvergeOK, HandOK, PlainPass, Programmed, inputs
<1>5. QED
  BY <1>1, <1>2, <1>3, <1>4

LEMMA GetServersConverge ==
  ASSUME TypeOK, PassOK, SweptOK, ConvergeOK, GetServers
  PROVE  ConvergeOK'
<1>1. /\ servers' = servers /\ svc' = svc /\ pc = "servers" /\ pc' = "sync"
      /\ UNCHANGED <<inputs, clean>> /\ options' = options
      /\ endpointsMap' = endpointsMap
      /\ svc \in Names /\ svc \in active
  BY DEF GetServers, store, ghosts, inputs, PassOK, TypeOK
<1>2. /\ IdleOK' /\ TidyOK'
      /\ \A n \in Names \ (todo' \cup {svc}) :
           faults' = 0 /\ Servable(n)' => n \in active' /\ Settled(n)'
      /\ faults' = 0 => faults = 0 /\ Programmed(svc)'
  <2>1. ServerStep
    BY DEF ServerStep
  <2>2. \A n \in Names : \A e \in Endpoints :
           /\ servers'[n][e] \in {servers[n][e], None, options.check}
           /\ n # svc => servers'[n][e] = servers[n][e]
    BY <1>1
  <2>3. QED
    BY <2>1, <2>2, ServerStepFrame
<1>3. ASSUME faults' = 0, NEW e \in Endpoints PROVE Looked(e)'
  <2>1. faults = 0 /\ ~Spend(1)
    BY <1>2, <1>3, FaultsAssumption DEF Spend, TypeOK
  <2>2. cur' = servers[svc] /\ adds' = endpointsMap[svc] /\ dels' = Obsolete(svc, cur')
    BY <2>1 DEF GetServers
  <2>3. dels' = {f \in Endpoints : cur'[f] # None
                   /\ ~(f \in endpointsMap[svc] /\ cur'[f] = options.check)}
    BY <2>2 DEF Obsolete
  <2>4. Obsolete(svc, cur)' = dels'
    BY <1>1, <2>3 DEF Obsolete
  <2>5. Uniform' => cur'[e] \in {None, options.check}
    <3>1. Uniform' = Uniform
      BY <1>1 DEF Uniform
    <3>2. Servable(svc)
      BY <1>1, <2>1 DEF SweptOK
    <3>3. Uniform => Tidy(svc)
      BY <1>1, <2>1, <3>2 DEF ConvergeOK, TidyOK, PlainPass
    <3>4. QED
      BY <2>2, <3>1, <3>3 DEF Tidy
  <2>6. servers'[svc'][e] = IF e \in adds' \cup dels' THEN cur'[e]
          ELSE IF e \in endpointsMap'[svc'] /\ cur'[e] \in {None, options'.check}
          THEN options'.check ELSE None
    BY <1>1, <2>2, <2>3
  <2>7. QED
    BY <1>1, <2>2, <2>4, <2>5, <2>6 DEF Looked
<1>4. QED
  BY <1>1, <1>2, <1>3 DEF ConvergeOK, DoneOK, HandOK, PlainPass, Hand

LEMMA AddServerConverge ==
  ASSUME TypeOK, PassOK, ConvergeOK, NEW e \in Endpoints, AddServer(e)
  PROVE  ConvergeOK'
<1>1. /\ svc' = svc /\ pc = "sync" /\ pc' = "sync" /\ cur' = cur
      /\ UNCHANGED <<inputs, clean>> /\ options' = options
      /\ endpointsMap' = endpointsMap
      /\ svc \in Names /\ srvList = {}
      /\ e \in adds /\ adds' = adds \ {e} /\ dels' = dels
  BY DEF AddServer, ghosts, inputs, PassOK, TypeOK
<1>2. \A n \in Names : \A f \in Endpoints :
        [servers EXCEPT ![svc][e] = options.check][n][f]
          = IF n = svc /\ f = e THEN options.check ELSE servers[n][f]
  BY <1>1, ServerAt
<1>3. \A n \in Names : \A f \in Endpoints :
        /\ servers'[n][f] \in {servers[n][f], None, options.check}
        /\ n # svc \/ f # e => servers'[n][f] = servers[n][f]
  BY <1>2, AddServerEffect
<1>4. /\ IdleOK' /\ TidyOK'
      /\ \A n \in Names \ (todo' \cup {svc}) :
           faults' = 0 /\ Servable(n)' => n \in active' /\ Settled(n)'
      /\ faults' = 0 => faults = 0 /\ Programmed(svc)'
  <2>1. ServerStep
    BY DEF ServerStep
  <2>2. QED
    BY <1>3, <2>1, ServerStepFrame
<1>5. Obsolete(svc, cur)' = Obsolete(svc, cur) /\ Uniform' = Uniform
  BY <1>1 DEF Obsolete, Uniform
<1>6. ASSUME faults' = 0, NEW f \in Endpoints PROVE Looked(f)'
  <2>1. faults = 0 /\ Looked(f) /\ Looked(e) /\ Programmed(svc)
    BY <1>1, <1>4, <1>6 DEF ConvergeOK, HandOK, PlainPass
  <2>2. servers[svc][e] = cur[e] /\ e \in endpointsMap[svc]
    BY <1>1, <2>1 DEF Looked
  <2>3. CASE f # e
    BY <1>1, <1>3, <1>5, <2>1, <2>3 DEF Looked
  <2>4. CASE f = e /\ cur[e] = options.check
    <3>1. servers' = servers
      BY <1>1, <2>4 DEF AddServer
    <3>2. e \notin dels
      BY <2>1, <2>2, <2>4 DEF Looked, Obsolete
    <3>3. QED
      BY <1>1, <1>5, <2>1, <2>2, <2>4, <3>1, <3>2 DEF Looked
  <2>5. CASE f = e /\ cur[e] # options.check
    <3>1. PICK a \in Attempts(AddServerToBackend(svc, e)) :
            /\ Spend(a.cost)
            /\ servers' = IF a.answer.applied
                          THEN [servers EXCEPT ![svc][e] = options.check]
                          ELSE servers
      BY <2>5 DEF AddServer
    <3>2. a.cost \in 0..2 /\ (a.cost = 0 => a.answer \in AddServerToBackend(svc, e))
      BY CallTypes, AttemptFacts
    <3>3. a.answer \in AddServerToBackend(svc, e)
      BY <1>6, <3>1, <3>2, SpendZero
    <3>4. backends[svc] # None
      BY <2>1, NoneAssumption DEF Programmed, TypeOK, Options
    <3>5. CASE cur[e] = None
      <4>1. a.answer.applied
        BY <2>2, <3>3, <3>4, <3>5 DEF AddServerToBackend, Post, Reply
      <4>2. servers'[svc][e] = options.check
        BY <1>1, <1>2, <3>1, <4>1
      <4>3. e \notin dels
        BY <2>1, <3>5 DEF Looked, Obsolete
      <4>4. QED
        BY <1>1, <1>5, <2>1, <2>2, <2>5, <3>5, <4>2, <4>3 DEF Looked
    <3>6. CASE cur[e] # None
      <4>1. ~a.answer.applied
        BY <2>2, <3>3, <3>4, <3>6 DEF AddServerToBackend, Post, Reply
      <4>2. servers' = servers
        BY <3>1, <4>1
      <4>3. e \in dels
        BY <1>1, <2>1, <2>5, <3>6 DEF Looked, Obsolete
      <4>4. QED
        BY <1>1, <1>5, <2>1, <2>2, <2>5, <4>2, <4>3 DEF Looked
    <3>7. QED
      BY <3>5, <3>6
  <2>6. QED
    BY <2>3, <2>4, <2>5
<1>7. QED
  BY <1>1, <1>4, <1>6 DEF ConvergeOK, DoneOK, HandOK, PlainPass, Hand

LEMMA DeleteServerConverge ==
  ASSUME TypeOK, PassOK, ConvergeOK, NEW e \in Endpoints, DeleteServer(e)
  PROVE  ConvergeOK'
<1>1. /\ svc' = svc /\ pc = "sync" /\ pc' = "sync" /\ cur' = cur
      /\ UNCHANGED <<inputs, clean>> /\ options' = options
      /\ endpointsMap' = endpointsMap
      /\ svc \in Names /\ srvList = {}
      /\ adds = {} /\ adds' = {} /\ e \in dels /\ dels' = dels \ {e}
  BY DEF DeleteServer, ghosts, inputs, PassOK, TypeOK
<1>2. \A n \in Names : \A f \in Endpoints :
        [servers EXCEPT ![svc][e] = None][n][f]
          = IF n = svc /\ f = e THEN None ELSE servers[n][f]
  BY <1>1, ServerAt
<1>3. \A n \in Names : \A f \in Endpoints :
        /\ servers'[n][f] \in {servers[n][f], None, options.check}
        /\ n # svc \/ f # e => servers'[n][f] = servers[n][f]
  BY <1>2, DeleteServerEffect DEF Removed
<1>4. /\ IdleOK' /\ TidyOK'
      /\ \A n \in Names \ (todo' \cup {svc}) :
           faults' = 0 /\ Servable(n)' => n \in active' /\ Settled(n)'
      /\ faults' = 0 => faults = 0 /\ Programmed(svc)'
  <2>1. ServerStep
    BY DEF ServerStep
  <2>2. QED
    BY <1>3, <2>1, ServerStepFrame
<1>5. Obsolete(svc, cur)' = Obsolete(svc, cur) /\ Uniform' = Uniform
  BY <1>1 DEF Obsolete, Uniform
<1>6. ASSUME faults' = 0, NEW f \in Endpoints PROVE Looked(f)'
  <2>1. faults = 0 /\ Looked(f) /\ Looked(e)
    BY <1>1, <1>4, <1>6 DEF ConvergeOK, HandOK, PlainPass
  <2>2. CASE f # e
    BY <1>1, <1>3, <1>5, <2>1, <2>2 DEF Looked
  <2>3. CASE f = e
    <3>1. /\ servers[svc][e] = cur[e] /\ cur[e] # None
          /\ ~(e \in endpointsMap[svc] /\ cur[e] = options.check)
      BY <1>1, <2>1 DEF Looked, Obsolete
    <3>2. GracefulDeleteSrv(e)
      BY <1>1 DEF DeleteServer
    <3>3. ~Spend(1)
      BY <1>6, <2>1, FaultsAssumption DEF Spend, TypeOK
    <3>4. PICK a \in Attempts(DeleteServerFromBackend(svc, e)) :
            /\ Spend(a.cost)
            /\ servers' = IF a.answer.applied
                          THEN [servers EXCEPT ![svc][e] = None] ELSE servers
      BY <3>1, <3>2, <3>3 DEF GracefulDeleteSrv
    <3>5. a.cost \in 0..2
            /\ (a.cost = 0 => a.answer \in DeleteServerFromBackend(svc, e))
      BY CallTypes, AttemptFacts
    <3>6. a.answer \in DeleteServerFromBackend(svc, e)
      BY <1>6, <3>4, <3>5, SpendZero
    <3>7. a.answer.applied
      BY <3>1, <3>6 DEF DeleteServerFromBackend, Delete, Reply
    <3>8. servers'[svc][e] = None
      BY <1>1, <1>2, <3>4, <3>7
    <3>9. QED
      BY <1>1, <1>5, <2>1, <2>3, <3>1, <3>8 DEF Looked
  <2>4. QED
    BY <2>2, <2>3
<1>7. QED
  BY <1>1, <1>4, <1>6 DEF ConvergeOK, DoneOK, HandOK, PlainPass, Hand

LEMMA EndEndpointConverge ==
  ASSUME TypeOK, PassOK, ConvergeOK, EndEndpoint
  PROVE  ConvergeOK'
<1>1. /\ servers' = servers /\ svc' = svc /\ pc = "sync" /\ pc' = "pick"
      /\ UNCHANGED <<backends, frontends, binds, inputs, todo, active, clean>>
      /\ svc \in Names /\ svc \in active
      /\ adds = {} /\ dels = {}
  BY DEF EndEndpoint, store, ghosts, PassOK, TypeOK
<1>2. /\ IdleOK' /\ TidyOK'
      /\ \A n \in Names \ (todo' \cup {svc}) :
           faults' = 0 /\ Servable(n)' => n \in active' /\ Settled(n)'
      /\ faults' = 0 => faults = 0 /\ Programmed(svc)'
  <2>1. ServerStep
    BY DEF ServerStep
  <2>2. \A n \in Names : \A e \in Endpoints :
           /\ servers'[n][e] \in {servers[n][e], None, options.check}
           /\ n # svc => servers'[n][e] = servers[n][e]
    BY <1>1
  <2>3. QED
    BY <2>1, <2>2, ServerStepFrame
<1>3. ASSUME faults' = 0 PROVE svc \in active' /\ Settled(svc)'
  <2>1. Programmed(svc) /\ \A e \in Endpoints : Looked(e)
    BY <1>1, <1>2, <1>3 DEF ConvergeOK, HandOK, PlainPass
  <2>2. \A e \in Endpoints :
          /\ Uniform => cur[e] \in {None, options.check}
          /\ servers[svc][e]
               = IF e \in endpointsMap[svc] /\ cur[e] \in {None, options.check}
                 THEN options.check ELSE None
    BY <1>1, <2>1 DEF Looked
  <2>3. Tidy(svc)
    BY <2>2 DEF Tidy
  <2>4. Uniform => Filled(svc)
    BY <1>1, <2>2 DEF Filled, Serving, TypeOK
  <2>5. Settled(svc)
    BY <2>1, <2>2, <2>3, <2>4 DEF Settled, Shaped
  <2>6. QED
    BY <1>1, <2>5, SettledKept
<1>4. QED
  BY <1>1, <1>2, <1>3 DEF ConvergeOK, DoneOK, HandOK, PlainPass, Hand

(* The cleanup touches only services that are not active.                     *)
LEMMA CleanupConverge ==
  ASSUME TypeOK, PassOK, ConvergeOK, UNCHANGED <<inputs, active, clean>>,
         pc \in {"pick", "clean", "cleanBackend"}, todo = {}, todo' = {},
         pc' \in {"clean", "cleanBackend"},
         faults' = 0 => faults = 0,
         \A n \in Names : \A e \in Endpoints :
           servers'[n][e] \in {servers[n][e], None, options.check},
         \A n \in active :
           /\ backends'[n] = backends[n] /\ frontends'[n] = frontends[n]
           /\ binds'[n] = binds[n]
           /\ \A e \in Endpoints : servers'[n][e] = servers[n][e]
  PROVE  ConvergeOK'
<1>1. TidyOK'
  BY TidyKept DEF ConvergeOK
<1>2. DoneOK'
  <2>1. SUFFICES ASSUME faults' = 0, NEW n \in Names, Servable(n)'
                 PROVE  n \in active' /\ Settled(n)'
    BY DEF DoneOK, PlainPass
  <2>2. Servable(n)
    BY <2>1, SameServable
  <2>3. n \in active /\ Settled(n)
    BY <2>1, <2>2 DEF ConvergeOK, DoneOK, PlainPass, Hand
  <2>4. QED
    BY <2>3, SettledKept
<1>3. IdleOK' /\ HandOK'
  BY DEF IdleOK, HandOK
<1>4. QED
  BY <1>1, <1>2, <1>3 DEF ConvergeOK

LEMMA ListServicesConverge ==
  ASSUME TypeOK, PassOK, ConvergeOK, ListServices
  PROVE  ConvergeOK'
<1>1. /\ UNCHANGED <<backends, frontends, binds, servers, inputs, active, clean>>
      /\ pc = "pick" /\ pc' = "clean" /\ todo = {} /\ todo' = {}
  BY DEF ListServices, store, ghosts
<1>2. faults' = 0 => faults = 0
  BY SpendZero DEF ListServices
<1>3. QED
  BY <1>1, <1>2, CleanupConverge

LEMMA CleanFrontendConverge ==
  ASSUME TypeOK, PassOK, ConvergeOK, NEW m \in Names, CleanFrontend(m)
  PROVE  ConvergeOK'
<1>1. PICK a \in Attempts(DeleteFrontend(m)) :
        /\ Spend(a.cost)
        /\ IF a.answer.applied
           THEN /\ frontends' = [frontends EXCEPT ![m] = None]
                /\ binds' = [binds EXCEPT ![m] = None]
           ELSE UNCHANGED <<frontends, binds>>
  BY DEF CleanFrontend
<1>2. a.cost \in 0..2
  BY CallTypes, AttemptFacts
<1>3. faults' = 0 => faults = 0
  BY <1>1, <1>2, SpendZero
<1>4. /\ UNCHANGED <<backends, servers, inputs, active, clean>>
      /\ pc = "clean" /\ pc' = "cleanBackend" /\ todo = {} /\ todo' = {}
      /\ m \notin active /\ active \subseteq Names
  BY DEF CleanFrontend, ghosts, PassOK, TypeOK
<1>5. \A n \in active : frontends'[n] = frontends[n] /\ binds'[n] = binds[n]
  BY <1>1, <1>4 DEF TypeOK
<1>6. QED
  BY <1>3, <1>4, <1>5, CleanupConverge

LEMMA CleanBackendConverge ==
  ASSUME TypeOK, PassOK, ConvergeOK, CleanBackend
  PROVE  ConvergeOK'
<1>1. PICK a \in Attempts(DeleteBackend(svc)) :
        /\ Spend(a.cost)
        /\ IF a.answer.applied
           THEN /\ backends' = [backends EXCEPT ![svc] = None]
                /\ servers' = [servers EXCEPT ![svc] = Absent]
           ELSE UNCHANGED <<backends, servers>>
  BY DEF CleanBackend
<1>2. a.cost \in 0..2
  BY CallTypes, AttemptFacts
<1>3. faults' = 0 => faults = 0
  BY <1>1, <1>2, SpendZero
<1>4. /\ UNCHANGED <<frontends, binds, inputs, active, clean>>
      /\ pc = "cleanBackend" /\ pc' = "clean" /\ todo = {} /\ todo' = {}
      /\ svc \notin active /\ active \subseteq Names
  BY DEF CleanBackend, ghosts, locals, PassOK, TypeOK
<1>5. \A n \in Names :
        /\ n # svc => backends'[n] = backends[n] /\ servers'[n] = servers[n]
        /\ servers'[n] \in {servers[n], Absent}
  BY <1>1 DEF TypeOK
<1>6. \A e \in Endpoints : Absent[e] = None
  BY DEF Absent
<1>7. QED
  BY <1>3, <1>4, <1>5, <1>6, CleanupConverge

LEMMA EndSyncConverge ==
  ASSUME TypeOK, PassOK, ConvergeOK, EndSync
  PROVE  ConvergeOK'
<1>1. /\ UNCHANGED <<store, inputs>>
      /\ pc = "clean" /\ pc' = "idle" /\ todo = {}
      /\ clean' >= 1 => faults = 0
      /\ clean' >= 2 => clean >= 1
  BY FaultsAssumption DEF EndSync, TypeOK, PassOK
<1>2. IdleOK'
  <2>1. SUFFICES ASSUME clean' >= 1, NEW n \in Names, Servable(n)'
                 PROVE  Shaped(n)' /\ (OneOf(Checks) \/ clean' >= 2 => Filled(n)')
    BY DEF IdleOK
  <2>2. Servable(n)
    BY <1>1, <2>1, SameServable
  <2>3. Settled(n)
    BY <1>1, <2>1, <2>2 DEF ConvergeOK, DoneOK, PlainPass, Hand
  <2>4. Shaped(n)' = Shaped(n) /\ Filled(n)' = Filled(n)
    BY <1>1 DEF store, inputs, Shaped, Programmed, Tidy, Filled, Serving
  <2>5. QED
    BY <1>1, <2>3, <2>4 DEF Settled, Uniform
<1>3. TidyOK' /\ DoneOK' /\ HandOK'
  BY <1>1 DEF TidyOK, DoneOK, HandOK, PlainPass
<1>4. QED
  BY <1>2, <1>3 DEF ConvergeOK

LEMMA NextConverge ==
  ASSUME OneOf(Algorithms), OneOf(Protocols \cap ValidModes),
         TypeOK, PassOK, ModesOK, SweptOK, ConvergeOK, [Next]_vars
  PROVE  ConvergeOK'
<1>1. CASE StartSync
  BY <1>1, StartSyncConverge
<1>2. CASE \E n \in Names : SyncBackend(n)
  BY <1>2, SyncBackendConverge
<1>3. CASE SyncFrontend
  BY <1>3, SyncFrontendConverge
<1>4. CASE SyncBind
  BY <1>4, SyncBindConverge
<1>5. CASE GetServers
  BY <1>5, GetServersConverge
<1>6. CASE \E e \in Endpoints : AddServer(e)
  BY <1>6, AddServerConverge
<1>7. CASE \E e \in Endpoints : DeleteServer(e)
  BY <1>7, DeleteServerConverge
<1>8. CASE EndEndpoint
  BY <1>8, EndEndpointConverge
<1>9. CASE ListServices
  BY <1>9, ListServicesConverge
<1>10. CASE \E n \in Names : CleanFrontend(n)
  BY <1>10, CleanFrontendConverge
<1>11. CASE CleanBackend
  BY <1>11, CleanBackendConverge
<1>12. CASE EndSync
  BY <1>12, EndSyncConverge
<1>13. CASE Restart
  BY <1>13 DEF Restart, ConvergeOK, IdleOK, TidyOK, DoneOK, HandOK, PlainPass
<1>14. CASE UNCHANGED vars
  <2>1. /\ IdleOK' = IdleOK /\ TidyOK' = TidyOK
        /\ DoneOK' = DoneOK
    BY <1>14 DEF vars, store, inputs, locals, ghosts, IdleOK, TidyOK, DoneOK, PlainPass,
         Servable, Wanted, Shaped, Programmed, Tidy, Filled, Serving, Settled, Uniform, Hand
  <2>2. HandOK' = HandOK
    BY <1>14 DEF vars, store, inputs, locals, ghosts, HandOK, PlainPass, Programmed,
         Looked, Obsolete, Uniform
  <2>3. QED
    BY <2>1, <2>2 DEF ConvergeOK
<1>15. QED
  BY <1>1, <1>2, <1>3, <1>4, <1>5, <1>6, <1>7, <1>8, <1>9, <1>10, <1>11, <1>12,
     <1>13, <1>14 DEF Next

LEMMA SpecConvergeOK ==
  ASSUME OneOf(Algorithms), OneOf(Protocols \cap ValidModes)
  PROVE  Spec => [](TypeOK /\ ConvergeOK)
<1> DEFINE IInv == ModesOK /\ KeptOK /\ SweptOK /\ ConvergeOK
<1>1. Init => IInv
  BY DEF Init, NoServices, ModesOK, KeptOK, SweptOK, ConvergeOK, IdleOK, TidyOK,
         DoneOK, HandOK, PlainPass
<1>2. TypeOK /\ PassOK /\ IInv /\ [Next]_vars => IInv'
  BY NextKept, NextSwept, NextConverge
<1>3. QED
  BY <1>1, <1>2, SpecPassOK, PTL DEF Spec

LEMMA ShapedAndFilled ==
  ASSUME TypeOK, NEW n \in Names, Shaped(n), Filled(n)
  PROVE  Converged(n)
BY DEF TypeOK, Shaped, Filled, Serving, Converged

(* One pass without a disturbed call gives every service that HAProxy can have  *)
(* exactly what it wants, whatever crashes and failed calls left, if all         *)
(* processes have the same algorithm and health check and HAProxy knows only    *)
(* one of the protocols, which is so of tcp; their modes may differ.            *)
THEOREM SpecOnePassConverges ==
  ASSUME OneOf(Algorithms), OneOf(Checks), OneOf(Protocols \cap ValidModes)
  PROVE  Spec => []OnePassConverges
<1>1. TypeOK /\ ConvergeOK => OnePassConverges
  BY ShapedAndFilled DEF ConvergeOK, IdleOK, OnePassConverges
<1>2. QED
  BY <1>1, SpecConvergeOK, PTL

(* Two such passes in a row do so after the health check has changed as well.    *)
THEOREM SpecTwoPassesConverge ==
  ASSUME OneOf(Algorithms), OneOf(Protocols \cap ValidModes)
  PROVE  Spec => []TwoPassesConverge
<1>1. TypeOK /\ ConvergeOK => TwoPassesConverge
  BY ShapedAndFilled DEF TypeOK, ConvergeOK, IdleOK, TwoPassesConverge
<1>2. QED
  BY <1>1, SpecConvergeOK, PTL

-----------------------------------------------------------------------------
(* The refinement of PassView.                                              *)

LEMMA AskedIsHeld ==
  ASSUME TypeOK, NEW n \in Names, Servable(n)
  PROVE  Asked(n) \in Held /\ Asked(n) # None
<1>1. /\ serviceMap[n].protocol \in Protocols /\ serviceMap[n].port \in Ports
      /\ options.algorithm \in Algorithms /\ options.check \in Checks
  BY WantedFacts DEF Servable, TypeOK, Options
<1>2. QED
  BY <1>1, HeldAssumption DEF Asked, Held, Option

LEMMA ViewTypes ==
  ASSUME TypeOK
  PROVE  /\ held \in [Names -> Held]
         /\ wanted \in [Names -> Held \cup {None}]
<1>1. held \in [Names -> Held]
  BY DEF TypeOK, held, Held
<1>2. wanted \in [Names -> Held \cup {None}]
  BY AskedIsHeld DEF wanted
<1>3. QED
  BY <1>1, <1>2

(* A service has what is asked for when it is Converged.                      *)
LEMMA AskedIsConverged ==
  ASSUME TypeOK, NEW n \in Names, Servable(n)
  PROVE  held[n] = Asked(n) <=> Converged(n)
<1>1. servers[n] \in [Endpoints -> Option(Checks)] /\ serviceMap[n] # None
  BY DEF TypeOK, Servable, Wanted
<1>2. servers[n] = Asked(n).servers
        <=> \A e \in Endpoints :
              servers[n][e] = IF e \in endpointsMap[n] THEN options.check ELSE None
  BY <1>1 DEF Asked
<1>3. held[n] = Asked(n)
        <=> /\ backends[n] = options.algorithm /\ frontends[n] = serviceMap[n].protocol
            /\ binds[n] = serviceMap[n].port /\ servers[n] = Asked(n).servers
  BY DEF held, Asked
<1>4. QED
  BY <1>1, <1>2, <1>3 DEF Converged, Programmed

(* A step of a pass that takes no input changes nothing of what is wanted.     *)
LEMMA SameWanted ==
  ASSUME UNCHANGED inputs, (pc = "idle") = (pc' = "idle")
  PROVE  wanted' = wanted
<1>1. \A n \in Names : Servable(n)' = Servable(n) /\ Asked(n)' = Asked(n)
  BY SameServable DEF inputs, Asked
<1>2. QED
  BY <1>1 DEF wanted

(* The frontend side of a name without a backend.                            *)
Loose(b, f, bind) == b = None /\ (f # None \/ bind # None)

LEMMA LooseIsDangling ==
  ASSUME TypeOK, NEW n \in Names
  PROVE  held[n] \in View!Dangling <=> Loose(backends[n], frontends[n], binds[n])
<1>1. /\ held[n] \in Held /\ held[n].backend = backends[n]
      /\ held[n].frontend = frontends[n] /\ held[n].bind = binds[n]
  BY ViewTypes DEF held
<1>2. QED
  BY <1>1 DEF View!Dangling, Bare, Gone, Loose

(* A step of a pass on the objects of one name is a Call on it.                *)
LEMMA CallStep ==
  ASSUME TypeOK, TypeOK', UNCHANGED inputs, pc # "idle", pc' # "idle",
         NEW n \in Names,
         \A m \in Names \ {n} : /\ backends'[m] = backends[m]
                                /\ frontends'[m] = frontends[m]
                                /\ binds'[m] = binds[m] /\ servers'[m] = servers[m],
         faults' = 0 => faults = 0,
         faults' = 0 /\ Servable(n) /\ Converged(n) =>
           /\ backends'[n] = backends[n] /\ frontends'[n] = frontends[n]
           /\ binds'[n] = binds[n] /\ servers'[n] = servers[n],
         faults' = 0 /\ ~Servable(n) /\ frontends[n] = None /\ binds[n] = None =>
           frontends'[n] = None /\ binds'[n] = None,
         faults' = 0 /\ Loose(backends'[n], frontends'[n], binds'[n])
           => Loose(backends[n], frontends[n], binds[n])
  PROVE  View!Call(n)
<1>1. wanted' = wanted
  BY SameWanted
<1>2. held \in [Names -> Held] /\ held' \in [Names -> Held]
  <2>1. held' \in [Names -> Held]
    BY DEF TypeOK, held, Held
  <2>2. QED
    BY <2>1, ViewTypes
<1>3. held' = [held EXCEPT ![n] = held'[n]]
  <2>1. \A m \in Names \ {n} : held'[m] = held[m]
    BY DEF held
  <2>2. QED
    BY <1>2, <2>1
<1>4. View!InPass /\ phase' \in {phase, "disturbed"} /\ (phase' = "plain" <=> faults' = 0)
  BY DEF View!InPass, phase
<1>5. ASSUME faults' = 0 PROVE View!Kept(n)
  <2> held'[n] \in View!Dangling => held[n] \in View!Dangling
    <3>1. held'[n] \in View!Dangling <=> Loose(backends'[n], frontends'[n], binds'[n])
      <4>1. /\ held'[n] \in Held /\ held'[n].backend = backends'[n]
            /\ held'[n].frontend = frontends'[n] /\ held'[n].bind = binds'[n]
        BY <1>2 DEF held
      <4>2. QED
        BY <4>1 DEF View!Dangling, Bare, Gone, Loose
    <3>2. QED
      BY <1>5, <3>1, LooseIsDangling
  <2>1. CASE Servable(n)
    <3>1. wanted[n] = Asked(n) /\ wanted[n] # None
      BY <2>1, AskedIsHeld DEF wanted
    <3>2. held[n] = Asked(n) => held'[n] = held[n]
      BY <1>5, <2>1, AskedIsConverged DEF held
    <3>3. QED
      BY <3>1, <3>2 DEF View!Kept
  <2>2. CASE ~Servable(n)
    <3>1. wanted[n] = None
      BY <2>2 DEF wanted
    <3>2. held[n] \in Gone => held'[n] \in Gone
      <4>1. held[n].frontend = frontends[n] /\ held[n].bind = binds[n]
              /\ held'[n].frontend = frontends'[n] /\ held'[n].bind = binds'[n]
        BY DEF held
      <4>2. QED
        BY <1>2, <1>5, <2>2, <4>1 DEF Gone
    <3>3. QED
      BY <3>1, <3>2 DEF View!Kept
  <2>3. QED
    BY <2>1, <2>2
<1>6. QED
  BY <1>1, <1>2, <1>3, <1>4, <1>5 DEF View!Call

LEMMA StartSyncView ==
  ASSUME TypeOK', StartSync
  PROVE  View!Begin
<1>1. held' = held
  BY DEF StartSync, store, held
<1>2. phase' = "plain" /\ ~View!InPass
  BY DEF StartSync, phase, View!InPass
<1>3. wanted' \in [Names -> Held \cup {None}]
  <2>1. \A n \in Names : Servable(n)' => Asked(n)' \in Held
    <3>1. SUFFICES ASSUME NEW n \in Names, Servable(n)' PROVE Asked(n)' \in Held
      OBVIOUS
    <3>2. serviceMap'[n] \in [protocol : Protocols, port : Ports]
      BY <3>1 DEF Servable, Wanted, TypeOK, Services, Option
    <3>3. options'.algorithm \in Algorithms /\ options'.check \in Checks
      BY DEF TypeOK, Options
    <3>4. QED
      BY <3>2, <3>3 DEF Asked, Held, Option
  <2>2. QED
    BY <2>1 DEF wanted
<1>4. QED
  BY <1>1, <1>2, <1>3 DEF View!Begin

LEMMA SyncBackendView ==
  ASSUME TypeOK, TypeOK', PassOK, NEW n \in Names, SyncBackend(n)
  PROVE  View!Call(n)
<1>1. PICK r \in Stage(backends[n], options.algorithm, AddBackend(n), ReplaceBackend) :
        /\ Spend(r.cost)
        /\ backends' = [backends EXCEPT ![n] = r.value]
        /\ pc' = IF r.ok THEN "frontend" ELSE "pick"
  BY DEF SyncBackend
<1>2. r.cost \in 0..2
  BY CallTypes, StageFacts
<1>3. /\ UNCHANGED <<frontends, binds, servers, inputs>>
      /\ pc = "pick" /\ pc' \in {"frontend", "pick"}
      /\ \A m \in Names : backends'[m] = IF m = n THEN r.value ELSE backends[m]
  BY <1>1 DEF SyncBackend, TypeOK
<1>4. ASSUME faults' = 0, Converged(n) PROVE r.value = backends[n]
  <2>1. r.cost = 0
    BY <1>1, <1>2, <1>4, SpendZero
  <2>2. backends[n] \in {None, options.algorithm}
    BY <1>4 DEF Converged, Programmed
  <2>3. QED
    BY <1>4, <2>1, <2>2, BackendMade DEF Converged, Programmed
<1>5. faults' = 0 => faults = 0 /\ r.cost = 0
  BY <1>1, <1>2, SpendZero
<1>6. faults' = 0 => ~Loose(backends'[n], frontends'[n], binds'[n])
  BY <1>3, <1>5, BackendMade DEF Loose
<1>7. QED
  BY <1>3, <1>4, <1>5, <1>6, CallStep

(* While the frontend side is made in a plain pass its backend is there.       *)
LEMMA BackendStays ==
  ASSUME TypeOK, ConvergeOK, pc \in {"frontend", "bind"}, faults = 0,
         backends' = backends
  PROVE  ~Loose(backends'[svc], frontends'[svc], binds'[svc])
<1>1. backends'[svc] = options.algorithm
  BY DEF ConvergeOK, HandOK, PlainPass
<1>2. QED
  BY <1>1, NoneAssumption DEF TypeOK, Options, Loose

LEMMA SyncFrontendView ==
  ASSUME TypeOK, TypeOK', PassOK, ModesOK, ConvergeOK, SyncFrontend
  PROVE  View!Call(svc)
<1> DEFINE want == serviceMap[svc].protocol
<1>1. PICK r \in Stage(frontends[svc], want, AddFrontend(svc), ReplaceFrontend) :
        /\ Spend(r.cost)
        /\ frontends' = [frontends EXCEPT ![svc] = r.value]
        /\ pc' = IF r.ok THEN "bind" ELSE "pick"
  BY DEF SyncFrontend
<1>2. r.cost \in 0..2 /\ svc \in Wanted /\ svc \in Names
  BY CallTypes, StageFacts DEF PassOK, SyncFrontend, Wanted
<1>3. /\ UNCHANGED <<backends, binds, servers, inputs>>
      /\ pc = "frontend" /\ pc' \in {"bind", "pick"}
      /\ \A m \in Names : frontends'[m] = IF m = svc THEN r.value ELSE frontends[m]
  BY <1>1 DEF SyncFrontend, TypeOK
<1>4. faults' = 0 => faults = 0 /\ r.cost = 0
  BY <1>1, <1>2, SpendZero
<1>5. ASSUME faults' = 0, Servable(svc), Converged(svc) PROVE r.value = frontends[svc]
  BY <1>2, <1>4, <1>5, FrontendMade DEF Converged, Programmed, Servable
<1>6. ASSUME faults' = 0, ~Servable(svc), frontends[svc] = None PROVE r.value = None
  <2>1. want \notin ValidModes
    BY <1>2, <1>6 DEF Servable
  <2>2. AddFrontend(svc) = {Reply("badRequest", FALSE)}
    BY <2>1 DEF AddFrontend, Post
  <2>3. \E x \in AddFrontend(svc) : r.value = IF x.applied THEN want ELSE frontends[svc]
    BY <1>4, <1>6, CallTypes, StagePlain
  <2>4. QED
    BY <1>6, <2>2, <2>3 DEF Reply
<1>7. faults' = 0 => ~Loose(backends'[svc], frontends'[svc], binds'[svc])
  BY <1>3, <1>4, BackendStays
<1>8. QED
  BY <1>2, <1>3, <1>4, <1>5, <1>6, <1>7, CallStep

LEMMA SyncBindView ==
  ASSUME TypeOK, TypeOK', PassOK, SweptOK, ConvergeOK, SyncBind
  PROVE  View!Call(svc)
<1>1. PICK r \in Stage(binds[svc], serviceMap[svc].port, AddBind(svc), replaceBind) :
        /\ Spend(r.cost)
        /\ binds' = [binds EXCEPT ![svc] = r.value]
        /\ pc' = IF r.ok THEN "servers" ELSE "pick"
  BY DEF SyncBind
<1>2. r.cost \in 0..2 /\ svc \in Wanted /\ svc \in Names
  BY CallTypes, StageFacts DEF PassOK, SyncBind, Wanted
<1>3. /\ UNCHANGED <<backends, frontends, servers, inputs>>
      /\ pc = "bind" /\ pc' \in {"servers", "pick"}
      /\ \A m \in Names : binds'[m] = IF m = svc THEN r.value ELSE binds[m]
  BY <1>1 DEF SyncBind, TypeOK
<1>4. faults' = 0 => faults = 0 /\ r.cost = 0
  BY <1>1, <1>2, SpendZero
<1>5. faults' = 0 => Servable(svc)
  BY <1>3, <1>4 DEF SweptOK
<1>6. ASSUME faults' = 0, Converged(svc) PROVE r.value = binds[svc]
  <2>1. frontends[svc] # None
    BY <1>2, <1>6, WantedFacts, NoneAssumption DEF Converged, Programmed
  <2>2. QED
    BY <1>2, <1>4, <1>6, <2>1, BindMade DEF Converged, Programmed
<1>7. faults' = 0 => ~Loose(backends'[svc], frontends'[svc], binds'[svc])
  BY <1>3, <1>4, BackendStays
<1>8. QED
  BY <1>2, <1>3, <1>4, <1>5, <1>6, <1>7, CallStep

(* The steps of syncEndpoint, given what they leave of the servers.            *)
LEMMA ServerStepView ==
  ASSUME TypeOK, TypeOK', PassOK, ServerStep, svc \in Names,
         \A n \in Names \ {svc} : servers'[n] = servers[n],
         faults' = 0 /\ Converged(svc) => servers'[svc] = servers[svc]
  PROVE  View!Call(svc)
<1>1. /\ UNCHANGED <<backends, frontends, binds, inputs>>
      /\ pc # "idle" /\ pc' # "idle"
      /\ faults' = 0 => faults = 0
  BY ServerStepEffect
<1>2. Loose(backends'[svc], frontends'[svc], binds'[svc])
        => Loose(backends[svc], frontends[svc], binds[svc])
  BY <1>1 DEF Loose
<1>3. QED
  BY <1>1, <1>2, CallStep

LEMMA AddServerView ==
  ASSUME TypeOK, TypeOK', PassOK, ConvergeOK, NEW e \in Endpoints, AddServer(e)
  PROVE  View!Call(svc)
<1>1. svc \in Names /\ srvList = {} /\ pc = "sync" /\ e \in adds /\ ServerStep
  BY DEF AddServer, PassOK, TypeOK, ServerStep
<1>2. \A n \in Names \ {svc} : servers'[n] = servers[n]
  <2>1. servers' = servers \/ servers' = [servers EXCEPT ![svc][e] = options.check]
    BY <1>1 DEF AddServer
  <2>2. QED
    BY <2>1 DEF TypeOK
<1>3. ASSUME faults' = 0, Converged(svc) PROVE servers' = servers
  <2>1. faults = 0
    BY <1>1, <1>3, ServerStepEffect
  <2>2. Looked(e)
    BY <1>1, <2>1 DEF ConvergeOK, HandOK, PlainPass
  <2>3. servers[svc][e] = cur[e] /\ e \in endpointsMap[svc]
    BY <1>1, <2>2 DEF Looked
  <2>4. cur[e] = options.check
    BY <1>3, <2>3 DEF Converged
  <2>5. QED
    BY <1>1, <2>4 DEF AddServer
<1>4. QED
  BY <1>1, <1>2, <1>3, ServerStepView

LEMMA DeleteServerView ==
  ASSUME TypeOK, TypeOK', PassOK, ConvergeOK, NEW e \in Endpoints, DeleteServer(e)
  PROVE  View!Call(svc)
<1>1. svc \in Names /\ srvList = {} /\ pc = "sync" /\ e \in dels /\ ServerStep
  BY DEF DeleteServer, PassOK, TypeOK, ServerStep
<1>2. \A n \in Names \ {svc} : servers'[n] = servers[n]
  <2>1. servers' = servers \/ servers' = [servers EXCEPT ![svc][e] = None]
    BY <1>1 DEF DeleteServer, GracefulDeleteSrv
  <2>2. QED
    BY <2>1 DEF TypeOK
<1>3. faults' = 0 => ~Converged(svc)
  <2>1. SUFFICES ASSUME faults' = 0 PROVE ~Converged(svc)
    OBVIOUS
  <2>2. faults = 0
    BY <1>1, <2>1, ServerStepEffect
  <2>3. Looked(e)
    BY <1>1, <2>2 DEF ConvergeOK, HandOK, PlainPass
  <2>4. servers[svc][e] = cur[e] /\ e \in Obsolete(svc, cur)
    BY <1>1, <2>3 DEF Looked
  <2>5. QED
    BY <2>4 DEF Obsolete, Converged
<1>4. QED
  BY <1>1, <1>2, <1>3, ServerStepView

LEMMA SyncEndpointView ==
  ASSUME TypeOK, TypeOK', PassOK, ConvergeOK, ServerStep
  PROVE  View!Call(svc)
<1>1. CASE GetServers \/ EndEndpoint
  <2>1. svc \in Names /\ servers' = servers
    BY <1>1 DEF GetServers, EndEndpoint, store, PassOK, TypeOK
  <2>2. QED
    BY <2>1, ServerStepView
<1>2. QED
  BY <1>1, AddServerView, DeleteServerView DEF ServerStep

LEMMA ListServicesView ==
  ASSUME TypeOK, ListServices
  PROVE  View!Disturb \/ UNCHANGED View!vars
<1>1. /\ UNCHANGED <<store, inputs, clean>> /\ pc = "pick" /\ pc' = "clean"
      /\ faults' \in {faults, faults + 1}
  BY DEF ListServices, Spend, ghosts, TypeOK
<1>2. wanted' = wanted /\ held' = held
  BY <1>1, SameWanted DEF store, held
<1>3. phase' = phase \/ (View!InPass /\ phase' = "disturbed")
  BY <1>1, FaultsAssumption DEF phase, View!InPass, TypeOK
<1>4. QED
  BY <1>2, <1>3 DEF View!Disturb, View!vars

(* What the cleanup deletes in a plain pass is not servable.                  *)
LEMMA CleanupView ==
  ASSUME TypeOK, TypeOK', PassOK, ConvergeOK, UNCHANGED inputs,
         NEW n \in Names \ active, todo = {}, pc \in {"clean", "cleanBackend"},
         pc' # "idle", faults' = 0 => faults = 0,
         \A m \in Names \ {n} : /\ backends'[m] = backends[m]
                                /\ frontends'[m] = frontends[m]
                                /\ binds'[m] = binds[m] /\ servers'[m] = servers[m],
         frontends'[n] \in {frontends[n], None}, binds'[n] \in {binds[n], None},
         faults' = 0 /\ Loose(backends'[n], frontends'[n], binds'[n])
           => Loose(backends[n], frontends[n], binds[n])
  PROVE  View!Call(n)
<1>1. faults' = 0 => ~Servable(n)
  BY DEF ConvergeOK, DoneOK, PlainPass, Hand
<1>2. QED
  BY <1>1, CallStep

LEMMA CleanFrontendView ==
  ASSUME TypeOK, TypeOK', PassOK, ConvergeOK, NEW n \in Names, CleanFrontend(n)
  PROVE  View!Call(n)
<1>1. PICK a \in Attempts(DeleteFrontend(n)) :
        /\ Spend(a.cost)
        /\ IF a.answer.applied
           THEN /\ frontends' = [frontends EXCEPT ![n] = None]
                /\ binds' = [binds EXCEPT ![n] = None]
           ELSE UNCHANGED <<frontends, binds>>
  BY DEF CleanFrontend
<1>2. a.cost \in 0..2
  BY CallTypes, AttemptFacts
<1>3. faults' = 0 => faults = 0
  BY <1>1, <1>2, SpendZero
<1>4. /\ UNCHANGED <<backends, servers, inputs>>
      /\ pc = "clean" /\ pc' = "cleanBackend" /\ todo = {} /\ n \notin active
  BY DEF CleanFrontend, PassOK
<1>5. \A m \in Names : /\ m # n => frontends'[m] = frontends[m] /\ binds'[m] = binds[m]
                       /\ frontends'[m] \in {frontends[m], None}
                       /\ binds'[m] \in {binds[m], None}
  BY <1>1 DEF TypeOK
<1>6. Loose(backends'[n], frontends'[n], binds'[n])
        => Loose(backends[n], frontends[n], binds[n])
  BY <1>4, <1>5 DEF Loose
<1>7. QED
  BY <1>3, <1>4, <1>5, <1>6, CleanupView

LEMMA CleanBackendView ==
  ASSUME TypeOK, TypeOK', PassOK, BindsOK, SweptOK, ConvergeOK, CleanBackend
  PROVE  View!Call(svc)
<1>1. PICK a \in Attempts(DeleteBackend(svc)) :
        /\ Spend(a.cost)
        /\ IF a.answer.applied
           THEN /\ backends' = [backends EXCEPT ![svc] = None]
                /\ servers' = [servers EXCEPT ![svc] = Absent]
           ELSE UNCHANGED <<backends, servers>>
  BY DEF CleanBackend
<1>2. a.cost \in 0..2
  BY CallTypes, AttemptFacts
<1>3. faults' = 0 => faults = 0
  BY <1>1, <1>2, SpendZero
<1>4. /\ UNCHANGED <<frontends, binds, inputs>>
      /\ pc = "cleanBackend" /\ pc' = "clean" /\ todo = {}
      /\ svc \in Names /\ svc \notin active
  BY DEF CleanBackend, PassOK, TypeOK
<1>5. \A m \in Names : m # svc => backends'[m] = backends[m] /\ servers'[m] = servers[m]
  BY <1>1 DEF TypeOK
<1>6. faults' = 0 => ~Loose(backends'[svc], frontends'[svc], binds'[svc])
  <2>1. faults' = 0 => frontends[svc] = None
    BY <1>3, <1>4 DEF SweptOK
  <2>2. QED
    BY <1>4, <2>1 DEF BindsOK, Loose
<1>7. QED
  BY <1>3, <1>4, <1>5, <1>6, CleanupView

(* The end of a plain pass: every name has what it is to have.                *)
LEMMA EndSyncView ==
  ASSUME OneOf(Checks), TypeOK, PassOK, BindsOK, SweptOK, ConvergeOK, EndSync
  PROVE  View!Finish \/ View!FinishDisturbed
<1>1. /\ UNCHANGED store /\ pc = "clean" /\ pc' = "idle" /\ legacy = {} /\ todo = {}
      /\ faults \in Nat
      /\ faults = 0 => clean' > 0
      /\ faults > 0 => clean' = 0
  BY FaultsAssumption DEF EndSync, TypeOK, PassOK
<1>2. View!End
  BY <1>1 DEF View!End, View!Nothing, wanted, held, store
<1>3. CASE faults > 0
  <2>1. phase = "disturbed" /\ phase' = "idle"
    BY <1>1, <1>3 DEF phase
  <2>2. QED
    BY <1>2, <2>1 DEF View!FinishDisturbed
<1>4. CASE faults = 0
  <2>1. phase = "plain" /\ phase' = "done"
    BY <1>1, <1>4 DEF phase
  <2>2. ASSUME NEW n \in Names, Servable(n) PROVE wanted[n] # None /\ held[n] = wanted[n]
    <3>1. Shaped(n) /\ Filled(n)
      BY <1>1, <1>4, <2>2 DEF ConvergeOK, DoneOK, PlainPass, Hand, Settled, Uniform
    <3>2. Converged(n)
      BY <3>1, ShapedAndFilled
    <3>3. wanted[n] = Asked(n)
      BY <1>1, <2>2 DEF wanted
    <3>4. QED
      BY <2>2, <3>2, <3>3, AskedIsHeld, AskedIsConverged
  <2>3. \A n \in Names : ~Servable(n) => wanted[n] = None
    BY DEF wanted
  <2>4. \A n \in Names : /\ held[n] \in Held
                         /\ held[n].frontend = frontends[n] /\ held[n].bind = binds[n]
                         /\ held[n].backend = backends[n]
    BY ViewTypes DEF held
  <2>5. GoneBut({})
    BY <1>1, <1>4 DEF SweptOK
  <2>6. CASE \A n \in Names : ~Servable(n) => frontends[n] = None
    <3>1. \A n \in Names : ~Servable(n) => held[n] \in Gone
      BY <2>4, <2>6 DEF BindsOK, Gone
    <3>2. View!Reached
      BY <2>2, <2>3, <3>1 DEF View!Reached
    <3>3. QED
      BY <1>2, <2>1, <3>2 DEF View!Finish
  <2>7. CASE Sweepless
    <3>1. View!Reached
      BY <2>3, <2>4, <2>7 DEF Sweepless, Bare, View!Reached
    <3>2. QED
      BY <1>2, <2>1, <3>1 DEF View!Finish
  <2>8. QED
    BY <2>5, <2>6, <2>7 DEF GoneBut
<1>5. QED
  BY <1>1, <1>3, <1>4

LEMMA NextView ==
  ASSUME OneOf(Checks), TypeOK, TypeOK', PassOK, ModesOK, BindsOK, SweptOK, ConvergeOK,
         [Next]_vars
  PROVE  [View!Next]_(View!vars)
<1>1. CASE StartSync
  BY <1>1, StartSyncView DEF View!Next
<1>2. CASE \E n \in Names : SyncBackend(n) \/ CleanFrontend(n)
  BY <1>2, SyncBackendView, CleanFrontendView DEF View!Next
<1>3. CASE SyncFrontend \/ SyncBind \/ ServerStep \/ CleanBackend
  <2>1. svc \in Names
    BY <1>3 DEF SyncFrontend, SyncBind, ServerStep, GetServers, AddServer, DeleteServer,
                EndEndpoint, CleanBackend, PassOK, Wanted, TypeOK
  <2>2. View!Call(svc)
    BY <1>3, SyncFrontendView, SyncBindView, SyncEndpointView, CleanBackendView
  <2>3. QED
    BY <2>1, <2>2 DEF View!Next
<1>4. CASE ListServices
  BY <1>4, ListServicesView DEF View!Next
<1>5. CASE EndSync
  BY <1>5, EndSyncView DEF View!Next
<1>6. CASE Restart
  <2>1. View!Crash
    BY <1>6 DEF Restart, store, held, wanted, phase, View!Crash, View!End, View!Nothing
  <2>2. QED
    BY <2>1 DEF View!Next
<1>7. CASE UNCHANGED vars
  <2>1. UNCHANGED <<store, inputs, pc, faults, clean>>
    BY <1>7 DEF vars, ghosts
  <2>2. wanted' = wanted
    BY <2>1, SameWanted
  <2>3. QED
    BY <2>1, <2>2 DEF store, held, phase, View!vars
<1>8. QED
  BY <1>1, <1>2, <1>3, <1>4, <1>5, <1>6, <1>7 DEF Next, ServerStep

(* Every behaviour of the pass, call by call, with failures and crashes, is one  *)
(* PassView allows: until a call is disturbed nothing that is as wanted is       *)
(* touched, nothing that is gone comes back and no frontend loses its backend,   *)
(* and the pass does not return before every name has what it is to have.      *)
(* Assumed as in SpecOnePassConverges: one algorithm, one health check, one mode. *)
THEOREM SpecImplementsPassView ==
  ASSUME OneOf(Algorithms), OneOf(Checks), OneOf(Protocols \cap ValidModes)
  PROVE  Spec => ImplementsPassView
<1> DEFINE IInv == ModesOK /\ KeptOK /\ BindsOK /\ SweptOK /\ ConvergeOK
<1>1. Init => IInv
  BY DEF Init, NoServices, ModesOK, KeptOK, BindsOK, SweptOK, ConvergeOK, IdleOK, TidyOK,
         DoneOK, HandOK, PlainPass
<1>2. TypeOK /\ PassOK /\ IInv /\ [Next]_vars => IInv'
  BY NextKept, NextBinds, NextSwept, NextConverge
<1>3. TypeOK /\ Init => View!Init
  BY ViewTypes DEF Init, View!Init, View!Nothing, wanted, phase
<1>4. TypeOK /\ TypeOK' /\ PassOK /\ IInv /\ [Next]_vars => [View!Next]_(View!vars)
  BY NextView
<1>5. QED
  BY <1>1, <1>2, <1>3, <1>4, SpecPassOK, PTL DEF Spec, ImplementsPassView, View!Spec
=============================================================================
