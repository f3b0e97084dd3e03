# TLA+ models of kube-haproxy

kube-haproxy is a kube-proxy that programs HAProxy instead of iptables: it
watches Services and Endpoints (or EndpointSlices) and keeps, through the HAProxy
Data Plane API, one backend, one frontend, one bind and a set of servers per
service port. This directory holds TLA+ modules that model it from its source,
TLC configurations that check them on small instances, and proofs that TLAPS
checks for every value of the constants. `PROJECT.json` maps each definition to
the source lines it stands for and lists runs, mutants, hazards and theorems.

To repeat a check: `tlc -config sync_services.cfg MCProxier`, `tlapm ProxierProofs.tla`.

## 1. Inventory

| Component | Source | State it keeps | Operations | Modules |
|---|---|---|---|---|
| Proxier pass | `haproxy/proxier.go` | `serviceMap`, `endpointsMap`, options; locals of the pass | `syncProxyRules`, `syncService`, `syncEndpoint`, `cleanLegacyService` | `PassView`, `Proxier` |
| Data Plane API client | `haproxy/haproxy.go`, `types.go`, `interface.go` | none of its own (a mutex, the client); HAProxy keeps the objects | Get/Add/Replace/Delete of backend, frontend, bind, server; `getVersion`, `handleError` | `DataplaneAPI`, `Proxier` |
| Graceful termination | `haproxy/graceful_termination.go` | `srvList` | `GracefulDeleteSrv`, `MoveRSOutofGracefulDeleteList`, a flush goroutine | `Proxier` (partly) |
| Scheduling of passes | `proxier.go`, `config/config.go`, `server/app/server.go` | `servicesSynced`, `endpointsSynced`, `endpointSlicesSynced`, `initialized`, `proxier.mu`, the runner | `On…Add/Update/Delete`, `On…Synced`, `Sync`, `SyncLoop`, `Run` | `SyncTrigger` |
| Service tracker and map | `controller/service.go` | `items`, `ServiceMap` | `Update`, `UpdateServiceMap` (`merge`, `filter`, `unmerge`) | `ServiceView`, `ServiceChanges` |
| Endpoint slice cache | `controller/endpointsslice.go` | `applied`, `pending` per service | `updatePending`, `checkoutChanges` | `EndpointsView`, `TrackerView`, `EndpointSlices` |
| Endpoints tracker and map | `controller/endpoints.go` | `items`, trigger times, `EndpointsMap` | `Update`, `EndpointSliceUpdate`, `EndpointsMap.Update` | `EndpointsCopy`, `EndpointsChanges`; with slices `EndpointsView`, `EndpointSlices` |
| The process as a whole | `server/app/server.go` and all above | the objects of the API server, what HAProxy has for them | events, passes, restarts | `KubeHaproxy`, over `SyncTrigger`, `PassView` |
| Start, options, cleanup | `server/app/*.go`, `server/haproxy.go` | flags | `Run`, `CleanupAndExit` | partly: `SyncTrigger` |
| Algorithm table, conntrack | `server/app/type.go`, `conntrack.go` | none | a look-up; kernel parameters | not modelled |

**How they interact.** Informer goroutines call the handlers. A handler records
the change in its tracker (under the tracker's lock), then reads `initialized`,
then asks the runner for a pass. A pass, which holds `proxier.mu`, takes the
changes of both trackers into `serviceMap` and `endpointsMap`, and then goes
through the services: read the backend, create or replace it, the same for the
frontend and the bind, then read the servers, add and delete. At last it lists
the frontends and deletes those of services it has not programmed. Each call
first reads the configuration version and sends it along; HAProxy refuses a
stale one. Nothing is persisted but HAProxy's own configuration.

**What is hard.** (a) Every call may fail, be refused, or succeed with its answer
lost, and `handleError` maps several of those to one pair of values; the pass
goes on in a way that depends on it. (b) The process may end between any two
calls, and the next one, possibly with other options, must repair what is left.
(c) A service whose sync fails in one pass is deleted by the cleanup of the same
pass. (d) Handlers, sync notifications and the rate limited runner interleave
without a common lock. (e) Events between two passes are merged; the merged
change must be right whatever their order, also for the events that come after a
pass has taken the changes out of a tracker and before it has applied them. (f) A
pass that failed is not repeated by itself. PROJECT.json lists these as hazards,
line by line, and names the properties for each.

**What makes each part correct**

- *Pass*: it takes away nothing that is live and wanted (`LiveServiceSurvives`,
  `NoLiveServerRemoved`), no intermediate state forwards to a missing backend
  (`NoDanglingFrontend`), and it repairs everything in one clean pass
  (`OnePassConverges`, `TwoPassesConverge`, `LegacyRemoved`). Seen from outside, call by
  call, it is a pass of `PassView` (`ImplementsPassView`).
- *Scheduling*: no change is left without a pass (`NoLostChange`, `ChangesTaken`),
  no pass works before both informers have synced (`NoPassBeforeSync`), and the flags get set
  in either order (`SyncedMeansInitialized`). That no pass works from partial data
  (`NoPartialProgramming`) is what the comments promise and does not hold (section 6).
- *Trackers*: a pass sees exactly the last state of every object
  (`ServiceView`, `EndpointsCopy`, `EndpointsView`), and what is pending is exactly what is
  still to be done (`PendingIsDifference`, `PendingLeadsToLatest`, `PendingIsLatest`; for
  slices also `ImplementsTrackerView`); a trigger time is recorded only for a service with a
  change (`TimesHaveChanges`).
- *The whole*: wherever the maps differ from the objects, a pass that brings the
  difference in is coming (`DivergenceIsDue`); passes of different goroutines do not
  overlap (`PassesAreSerial`); when the last pass went undisturbed and none is due HAProxy has
  what the handlers were called with (`QuietIsCurrent`); and once things are quiet it has what
  the API server has (`EventuallyConverged`).

## 2. Modules and their correspondence to the code

**`DataplaneAPI`** — the answers of the API and what `handleError` makes of them:
success for 0 and 200–202 (`accepted`), `(true, error)` for 204 and 409, `(false, error)` for the rest. The
three ways the callers judge that pair are operators (`AddSucceeded`,
`ReplaceSucceeded`, `DeleteSucceeded`). `Post`, `Put`, `Delete` are the server, external:
an object is stored as sent, an existing one is a conflict, a bind needs its
frontend, a server its backend, a frontend a mode HAProxy knows. A *disturbed*
call sees a refused version (409), a server that cannot be reached, or a change
made whose answer is lost.

**`Proxier`** — a whole pass, one action per call that reads or writes HAProxy
(a stage of `syncService` is the read and the write it leads to; nothing else can
happen to that object between the two). `pc` says where the pass is, the variables of
`locals` are the Go locals of that name. `StartSync` gives the pass any services and
endpoints, `Restart` may happen between any two calls and leaves HAProxy alone.
What is kept in HAProxy: the balance algorithm of a backend, the mode of a
frontend, the port of a bind, the Check field of a server: the fields the code sets to
something that varies and compares. `AddServer` and `DeleteServer` contain the
graceful termination list as the code has it. `was`, `clean` and `faults` are history
variables; no action of the pass depends on the first two, and `faults` only bounds
how many calls are disturbed (`MaxFaults`).
`ReplaceBackend` and `ReplaceFrontend` have no effect, because the code sends them to URLs
that do not take them (section 6).

**`PassView`** — a pass as the rest of the system sees it, one name and one change at a time.
While no call has been disturbed it alters nothing that is as wanted, brings back
nothing that is gone and takes no backend away from a frontend, and it returns only when every name
has what it should (or when HAProxy has no backend and is to have none: the early return of
`GetServices`). Once a call has been disturbed anything may be left, and it may end at
any point. `Proxier` implements it with
`held` (the four objects of a service), `wanted` (what the pass asks for) and `phase` (from `pc`, `faults`
and `clean`) as refinement mapping; `KubeHaproxy` takes its passes from it.

**`TrackerView`** — the tracker of the slices as whoever asks for passes sees it: `known` is the state of
each service after its last event, `taken` after the last pass, `pending` the services with a
change. It compares with the last event, so that a change and its reversal stay pending.
`EndpointSlices` implements it. The two trackers that merge need no such view: for them
`PendingIsDifference` and `PendingLeadsToLatest`, with the views of the maps, say as much.

**`SyncTrigger`** — the goroutines of `ProxyServer.Run`. `OnUpdate`, `CheckInitialized`,
`Sync` are the three steps of a handler; `OnServiceSynced` and its siblings the
critical sections that set the flags (`Run` starts the config of endpoints or that of
slices, `OnEndpointsConfigSynced`); `Lock`, `UpdateServiceMap`, `UpdateEndpointsMap`, `Program`
a pass; `SyncLoop`, `Accept`, `Reject`, `HourPassed` the BoundedFrequencyRunner, which is a
library and external. `Update` says what each tracker may hold after an event and
what it returns: the service and endpoints trackers return whether *anything* is
pending, the slice cache whether *this* event changed something. `UseSlices` selects
the configuration. An informer of the client library the repository is built with (client-go
v0.19.11, go.mod:15) reports synced when its initial list has left its queue, whether or not the
handlers have been called with all of it (`backlog`); the comments of `config.go` (44, 61, 78) promise
more (section 6).

**`ServiceView` / `ServiceChanges`** — the abstract view: a pass gets a copy of the last
state of every service and the addresses of the UDP ports that went away. The
detailed module: one merged change per service, applied by `merge`, `filter` and
`unmerge` as the code does; the abstract specification is a PROPERTY of the run and a
theorem.

**`EndpointsCopy` / `EndpointsChanges`** — the abstract view: a pass takes a snapshot of the
endpoints of every service, events may follow, and then it serves the snapshot and says
which UDP endpoints are gone and which UDP services have endpoints again. The detailed
module: `Update` merges an event into the change of its service, and `EndpointsMap.Update`
is three steps, `checkoutChanges` under the tracker's lock, `apply` without it and
`checkoutTriggerTimes` under it again, with events between any two. An `EndpointsMap`
is a function from ports to *sets* of endpoints, which stand for the sorted lists the code
compares with `DeepEqual`; a missing map (`nil`) and an empty one differ, as they do there.
`TimesHaveChanges` says how far changes and times are taken together although the lock is released in
between: a time is recorded only for a service whose change is pending or in the hands of the
pass at work. It does not say what the comment in `Update` (endpoints.go:180-185) does, that no latency is
exported for events that cancel each other out. An event between the two visits has its time handed
out with the pass that did not take its change, and a later event may cancel that change; and an event that
cancels a change between the two visits drops the times of the change the pass has already taken. Nothing
exports the times in this program.

**`EndpointsView` / `EndpointSlices`** — the abstract view: for each service port and
address one of the endpoints that the slices offer, a local one if there is one; a service
with nothing pending (`behind`, in the refinement the services with pending infos) has not
changed since it was last served, so that a pass that drops its work is no stutter. The
detailed module: `pending` and `applied` infos per slice, `esInfoChanged`, and
`UpdateEndpointsMap`, which computes the map of a service before and after and unmerges
and merges them (under the locks up to the two maps, outside them from there; one step, because
no event changes what is applied). Go ranges over the slices of a service in any order: an order is
chosen for each computation.

**`KubeHaproxy`** — the process between the API server (`api`) and HAProxy (`haproxy`), put together by
INSTANCE of `SyncTrigger` and `PassView`. What `SyncTrigger` leaves open, which change a tracker records,
`Tracked` computes as the code does, with an object for what the code makes of it: `Update` merges the event into the
change that is pending and drops one that leads back, `EndpointSliceUpdate` compares with what is pending
or else applied. `changes` holds the result, `items`, the variable of `SyncTrigger`, is what shows of it, and a pass
applies the changes to its map (`Take`), not the objects. `Deliver` is the handler of an initial object, `Event` a later
one. The calls of a pass are those of an instance of `PassView`: a pass begins when both maps are updated
(`UpdateEndpointsMap`), `Call` changes what HAProxy has for a name, `Disturb` is a call that fails
without effect, `Program` is the return. `Served` tells apart, for a name, what is as some objects ask, what is
not (`Half`), a frontend that lost its backend (`Bare`), and nothing. `Restart` forgets everything but
HAProxy, in the middle of a pass too.

`MC*` modules add the model values and the symmetry sets. Symmetry is used only
where the run checks no liveness and the values are interchangeable.

## 3. Runs

| Run | Checks | What it shows |
|---|---|---|
| `sync_services` | `TypeOK`, `LiveServiceSurvives`, `OnePassConverges`, `LegacyRemoved`, `NoLiveServerRemoved`, `ImplementsPassView` | Two services, two endpoints, up to two disturbed calls per pass and a crash anywhere, fixed options. |
| `sync_restarts` | `NoDanglingFrontend`, `TwoPassesConverge` | Two services (one skipped in mode `of`), ports that change, restarts with another mode or health check, no disturbed call. |
| `trigger_endpoints` | `TypeOK`, `NoLostChange`, `NoPassBeforeSync`, `SyncedMeansInitialized`, `ChangesTaken` | All goroutines with endpoints, informers that sync before their handlers have run. |
| `service_changes` | `TypeOK`, `PendingIsDifference`, `ImplementsServiceView` | Two services whose port, protocol and address change in any order of events. |
| `endpoints_changes` | `TypeOK`, `PendingLeadsToLatest`, `TimesHaveChanges`, `ImplementsEndpointsCopy` | The endpoints of a service with a UDP and a TCP port, events before, between and after the two visits of a pass to the tracker. |
| `endpoint_slices` | `TypeOK`, `PendingIsLatest`, `ImplementsEndpointsView`, `ImplementsTrackerView` | Two slices that overlap, created, changed, deleted, created again. |
| `convergence` | `TypeOK`, `DivergenceIsDue`, `QuietIsCurrent`, `EventuallyConverged`, `PassesAreSerial` | The whole process with slices, informers that sync early, disturbed passes and restarts at any time. |
| `reconfigured`, `orphans`, `refused_deletion`, `slices_first`, `early_sync` | one property each, violated | The findings of section 6. |

**Bounds, and why they are enough.** A pass treats services one after the other;
two are needed for the cleanup of one while the other is live, and for a
service that fails while the next goes on. Two endpoints let additions and
deletions meet in one backend. Two disturbed calls are one more than
`LiveServiceSurvives` allows, so that its bound is exercised, and enough for a lost answer
followed by a misread. `clean` is capped at 2, what the properties ask for. The
data are two-valued where a difference matters (valid and invalid mode, two ports, two
checks) and single otherwise; `sync_services` has one Check value and one sequence of passes, so that a
changed Check field is the matter of `sync_restarts`, and passes of several goroutines that of `convergence`. In `SyncTrigger` two objects per kind let one be
recorded while another is taken. Nothing there is bounded but their number. In
`ServiceChanges` the two protocols of one port make UDP appear and disappear. In
`EndpointSlices` two slices and two addresses are enough for an address to move, to be
offered twice, and for one to go while the other stays. In `EndpointsChanges` two subsets
(`MaxSubsets`) are enough for an address to be ready in both and for a port to be in one of
them, and the two ports tell UDP from the rest; services do not meet there, so one is enough.
In `convergence` there is one name with one object of each kind, which come and go, and one value
(`Half`) for whatever else HAProxy may have; names meet only in `PassView`, which `sync_services` checks with
two services, and in the trackers, whose runs have two services or two slices. The number of events,
disturbed calls and restarts is not bounded.
Deadlock is checked in every run; in `Proxier` a restart is always possible, so that
a pass that gets stuck shows there as a type or convergence violation and not as a deadlock.

**Fairness.** `FairSpec` of `SyncTrigger` assumes: a handler that has recorded a change goes on
(it is straight code); a goroutine in a pass goes on, weakly, because calls
return; the loop starts; and a request to the rate limiter is not refused for
ever (strong fairness of `Accept`: the limiter refills with time and a
refusal sets the timer to the moment it will accept). It does not assume that
events come, that informers ever sync, or that the hourly run happens.
`FairSpec` of `KubeHaproxy` adds that the handlers of the initial objects get called (strongly:
a handler may be busy with another event whenever one looks, but the queue of an informer
is in order and the initial objects come first), that the hour of the runner
(proxier.go:189) passes, and that a pass gets on with its services (`Achieve`, weakly: the loop of
`syncProxyRules` comes to each of them, and what a plain pass has achieved for a service it
keeps). `EventuallyConverged` needs the hour: a pass that failed is repeated by
nothing else. Its premises are that the Proxier gets and stays initialized, that objects
cease to change, and that no more calls are disturbed; restarts end with the first premise.
It also needs all of `PassView`: without the part that a plain pass takes no backend away from a
frontend (`Dangling`), TLC finds it violated.

**Mutants.** Each property of a passing run has a mutant in PROJECT.json: a bug the code
could plausibly have (a deletion sent to a wrong URL, a server compared by name only,
a flag not looked at, a change started afresh, ports that are merged and never unmerged)
with which TLC finds the property violated.

## 4. Proofs

All are checked by TLAPS for every value of the constants, with no bound on passes,
crashes or events. Assumptions are the named ones in the modules: `MaxFaults` is a
natural number, `None` is not a value of the data (nor a record of them, `HeldAssumption`), the names of slices are finitely many, `UseSlices` is
Boolean. `SpecNoDanglingFrontend` assumes `MaxFaults = 0`, the convergence theorems what is said below;
`SpecSyncedMeansInitialized` assumes `~UseSlices`.

**`ProxierProofs`** — `SpecTypeOK`. Types alone are not inductive: `svc` must be a service while a
pass works on one. `PassOK` adds what holds at each `pc` (the service in hand is
wanted, active services are, the termination list is empty), and `TypeOK /\ PassOK` is shown
preserved action by action. That `srvList` stays empty is part of `PassOK`: `add` adds only what is
there already.

**`ProxierSafetyProofs`** — three results, each with its own strengthening:

- `SpecLiveServiceSurvives`. `KeptOK` adds, for each service that was as wanted when the pass began, that
  it is still to come, in hand, or active: if so the cleanup never lists it.
  `ModesOK` (frontends HAProxy holds have modes it accepts) rules out a 400 on re-creation. The core
  is the lemma `StageKeeps`/`StageCreates`: with at most one disturbed call, a
  stage that meets the object as wanted leaves it so and goes on, because one fault spent on the
  read leaves none for the creation, whose 409 counts as success.
- `SpecNoLiveServerRemoved`. `SyncOK` relates `cur` and `dels` to HAProxy and the pass's endpoints: what
  is in `dels` is still as it was listed, and differs from the wanted server in some field or is not wanted.
  It holds with any number of disturbed calls.
- `SpecNoDanglingFrontend`. `PlainOK` says which stage has made the backend exist.

**`ProxierConvergenceProofs`** — what a pass without a disturbed call achieves, whatever it meets:

- `SpecLegacyRemoved`, with any options before and now, and with or without a service that can be had. `SweptOK` says that in such a pass every
  service HAProxy can have gets a backend, so that the list of services is taken for empty only if there is no
  such service, that only
  such services become active, that what the cleanup has not to come to is gone, and that a backend is
  deleted after its frontend.
- `SpecOnePassConverges`, `SpecTwoPassesConverge`. `ConvergeOK` says of the services the pass is done with that they are
  `Settled`, of the one in hand which of its objects are made, and, inside `syncEndpoint`,
  of each server whether it is still as listed or as it should be (`Looked`). A server with another
  Check field is deleted in one pass and added in the next; `Uniform` tells the two apart.
  Assumed: one algorithm (a change of it is the finding `reconfigured`), at most one protocol
  that HAProxy takes for a mode (of those of Kubernetes, tcp), and for one pass a health check that never changes.
  The modes of the processes may differ.
- `SpecImplementsPassView`, under the assumptions of one pass. Initial states map to initial states; each stage, each
  server added or deleted and each deletion of the cleanup to a `Call` of its service (which may leave it as it
  is); the listing of the services to a stutter, or to `Disturb` if it is disturbed; the end of the pass to `Finish` or
  `FinishDisturbed`, and a crash to `Crash`. That a call spares what is as wanted rests on `ConvergeOK` and
  `SweptOK` together: the first says that the service in hand is not yet as wanted, or that the stage leaves
  it so, the second that the cleanup only comes to services that are not wanted. `Finish` is
  `SpecOnePassConverges` and `SpecLegacyRemoved`, said of one step.

**`SyncTriggerProofs`** — one inductive invariant `IInv` for four theorems: types, which
runner can be in which state (`RunnersApart`), `FlagsMatch` (which flag is set after which
goroutine has left its wait), `PassInitialized`, and `NoLostChange` itself,
which is inductive only together with them: a handler between "record" and "read the
flag" is covered because `initialized` turning true is always followed by a pass of the
goroutine that set it. `SpecNoPassBeforeSync` is `PassInitialized` and `FlagsMatch` together. `MutexHeld`, not part of it, says that a runner inside a pass holds the mutex;
it is kept for `KubeHaproxyProofs`.

**`ServiceChangesProofs`** — `PendingIsDifference` is inductive with the types.
`ApplyLeadsToCurrent` (merge, filter, unmerge from the previous map give the current one)
and `StaleIsGone` turn it into the refinement `SpecImplementsServiceView`: initial states
map to initial states, each `Update` to `Observe`, each `UpdateServiceMap` to `Refresh`.

**`EndpointsChangesProofs`** — `SpecTypeOK`, `SpecPendingLeadsToLatest`, `SpecTimesHaveChanges`,
`SpecImplementsEndpointsCopy`. The inductive invariant joins the two properties with
`CheckedOut`: changes are in the hands of a pass only from `checkoutChanges` to its return. That a
pending change starts from what the map *is about to* hold (`Served`) is what makes it survive
an event before `apply`; `TimesHaveChanges` is preserved by the checkout because the changes it takes
stay with the pass until the times are taken too.
The refinement maps `checkoutChanges` to `TakeSnapshot`, `apply` to `Refresh`, `Update` to `Observe`
and `checkoutTriggerTimes` to a stutter.

**`EndpointSlicesProofs`** — `SpecTypeOK`, `SpecPendingIsLatest`, `SpecImplementsEndpointsView`. The
invariant adds `MapIsApplied`: the map of a service holds what its applied infos offer, for
whichever order the slices were ranged over in. The core of the refinement is that a port and
an address get one of the endpoints offered, a local one if there is one; it speaks of
the first or last slice in the range that offers it, which exists because the natural numbers are
well-ordered (`LeastNatural`). `SpecImplementsTrackerView` needs less: an event of one slice
records one pending info, and the checkout makes the latest infos the applied ones.

**`KubeHaproxyProofs`** — `SpecTypeOK`, `SpecDivergenceIsDue`, `SpecQuietIsCurrent`,
`SpecPassesAreSerial`. `SyncTriggerProofs` enters by INSTANCE: each action
of the whole is one of `SyncTrigger`, a stutter of it or a restart, so its invariant holds of the whole, whose
own part is `ChangesLead`: a change starts from what the map holds, and the map with the changes applied is what the
handlers were called with. `UpdateLeads` shows it for one event, merged or of a slice. A name that
differs has then a change, and `NoLostChange` does the rest.

- The passes of the whole are one sequence of passes of `PassView`, although three goroutines run them. `PassesApart` adds to
  the invariant `MutexHeld` and `PhaseMatches` (a pass is under way for `PassView` exactly when a runner is between the
  update of the maps and its return): the mutex keeps a second runner from updating a map, which
  would change what the first one's pass is to bring about.
- `SpecQuietIsCurrent` adds `LastPass`: after an undisturbed pass HAProxy has what the maps say until a goroutine
  has taken new services, and a pass goes through only when the Proxier is initialized. With nothing due the maps are what
  the handlers know (`DivergenceIsDue`), and no goroutine is half way through its maps.

**How the theorems fit together.** What `KubeHaproxy` assumes of a pass is what `PassView` allows, which a pass
does (`SpecImplementsPassView` of `ProxierConvergenceProofs`), and the passes of the whole are one sequence of those
(`SpecPassesAreSerial`). Its trackers are no assumption but the code again, reduced to
one object per name: what the reduction leaves out, how the maps of several ports, subsets and slices are computed and
applied, is what `SpecImplementsServiceView`, `SpecImplementsEndpointsCopy` and `SpecImplementsEndpointsView` show to come to the
same, that a pass serves the last state (with endpoints, that at its checkout). This correspondence is by reading, not a theorem. There is one more abstraction:
`KubeHaproxy` gives a pass the objects of its maps as the values of `PassView`, where `Proxier` has the
four objects of HAProxy they stand for. And since a pass implements `PassView` only if the options have always been the
same, `KubeHaproxy` speaks of processes restarted with the same options; what a change of them does is in `sync_restarts`
(`TwoPassesConverge`) and `reconfigured`.

**Only model-checked.** Liveness (`ChangesTaken`, `EventuallyConverged`), which is outside
what the prover can do: TLC checks it on the instances of `trigger_endpoints` and `convergence`. The violated properties of section 6
are counterexamples, not theorems. Every invariant and every action property or refinement of a passing run
is stated by a theorem.

## 5. Assumptions about what is outside

- HAProxy returns the objects as they were stored, so that the comparison of a
  read object with the wanted one is a comparison of the fields the code sets.
- Nobody else changes the proxied objects. Another client may well change the
  version, which is one of the disturbances.
- Deleting a backend deletes its servers, deleting a frontend its bind.
- A backend is always accepted (its mode is `tcp`, its algorithm is from the table).
- Names in Kubernetes are lower case, so that stripping the prefixes
  `FRONTEND.` and `BACKEND.` with `strings.Trim` gives the name back.
- An EndpointSlice keeps its service label and has one port per name and protocol.
- A non-headless Service has a port, as the API server requires.

## 6. Where code and comments disagree

- `reconfigured`: `ReplaceBackend` uses the URL of servers and `ReplaceFrontend` POSTs, so after a restart with
  another algorithm every existing service fails to sync and the "legacy" cleanup
  deletes it (haproxy.go:192, 290).
- `orphans`: the cleanup lists frontends only; a backend without one, here after a crash between the creation of
  the two and the deletion of the service, stays for ever (haproxy.go:163).
- `refused_deletion`: `graceTerminateSrvList.add` adds only what is already there, so a
  failed deletion is never retried by the goroutine meant for it (graceful_termination.go:51).
- `slices_first`: `OnServiceSynced` looks at `endpointsSynced` only; with slices that sync first the
  Proxier is never initialized (proxier.go:528).
- `early_sync`: the comments of the configs say that a config reports synced once all initial handlers were called;
  `HasSynced` of the library only says that the initial list has left the queue, so a pass may work
  from partial data and delete services still to be delivered (config.go:111). What does hold is
  `NoPassBeforeSync`.
- Without a run: the comment at endpoints.go:180-185 on trigger times (see `EndpointsChanges` in section 2).

## 7. Not modelled, and the plan

Not modelled:

- Flag parsing, clients and node detection (start-up I/O), conntrack (kernel parameters, no
  caller), logging and metrics, health check node ports, stale connections beyond their
  computation (used by nobody).
- The `Ensure…`, `DeleteBind` and `unbindFrontend` methods: no caller, but for `EnsureHaproxy`, which the pass
  calls and whose answer is always true.
- `CleanupAndExit`: it runs alone, in a process of its own. It takes the `true` of a successful `DeleteBackend`
  for an error (server.go:415), so that it contradicts what is said of it (400-401) at its first deletion.
- `Algorithm` (`server/app/type.go`): a look-up of one flag; its bound is off by one.
- The configuration version as a number: a stale one is one of the disturbances, whoever caused it.
- The flush goroutine of the graceful termination: its list is always empty (proved, in `PassOK`).
- A Service or slice whose name or label is changed by hand (section 5).

Order in which the modules were written: `DataplaneAPI` and `Proxier` (what users notice), `SyncTrigger`,
`ServiceChanges`, `EndpointSlices`, `EndpointsChanges`, `KubeHaproxy`. Next:

1. `HaproxyHandle` with versions as numbers and several clients (passes, an administrator), replacing
   "disturbed" by its causes.
2. `GracefulTermination` as its comments describe it, with the flush goroutine beside a pass.

Theorems to come: `SpecTwoPassesConverge` and `SpecImplementsPassView` in one, a view of a pass that allows the
health check to change; `LiveServiceSurvives` as a part of `PassView`, so that one disturbed call is told from many.
