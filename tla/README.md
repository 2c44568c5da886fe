# A verification of the cloud-native 5G network functions

TLA+ modules that model the AMF and the UPF of this repository as their C++
code runs them, TLC configurations that check them on small instances, and
proofs about them for instances of any size, checked by TLAPS. The code is the
reference: every definition that models code is tied to its lines by `map` in
`PROJECT.json`. Paths below are relative to `src/`.

Contents: [1 the system](#1-the-system) ·
[2 what is hard](#2-what-is-hard-in-this-code) ·
[3 the modules](#3-the-modules-and-the-code) · [4 the runs](#4-the-runs) ·
[5 the proofs](#5-the-proofs) · [6 findings](#6-findings) ·
[7 not modelled](#7-what-is-not-modelled) · [8 plan](#8-the-plan)

## 1. The system

```
 UE simulator --N1--> AMF --N4 (gRPC, blocking)--> UPF
      |                |                            |
      |          /metrics scrape               /metrics scrape
      +---------------- ClassifyPacket (N4) --------+
 bench_compare --N1--> AMF          bench_compare --HTTP--> REST AMF
```

| Component | State | Operations | Correct when |
|---|---|---|---|
| **AMF** `amf/src/amf_server.{h,cpp}` | `ue_contexts_` under `ctx_mutex_`; atomics `reg_count_`, `dereg_count_`, `ngap_id_counter_` (1000) | `Register`, `Deregister`, run by the gRPC server's threads; each makes one blocking N4 call with the mutex held and without a deadline | the duplicate check and the iterator survive the N4 call; NGAP ids are unique; the counters cover the contexts; the mutex comes back |
| **UPF sessions** `upf/src/upf_server.{h,cpp}` | `sessions_` and `ue_to_session_` under `sessions_mutex_`; `session_id_counter_` (1) | `EstablishSession`, `ReleaseSession` | no route to a session that is gone (`sessions_.at` would throw); a live session is routed unless its address is shared |
| **UPF classification** same files | reads the two tables; `pkt_count_`, `fwd_count_`, `drop_count_` | `ClassifyPacket`, inline or on the pool with a promise | every packet answered once, by a session that was live at the look-up; counts agree at rest |
| **Thread pool** `upf/src/thread_pool.h` | `tasks_` and `stop_` under `queue_mutex_`, a condition variable, two atomics | worker loop, `enqueue`, destructor | no wake-up is lost; tasks run once, in order; the destructor drains and returns |
| **Process and metrics callbacks** `amf/src/main.cpp`, `upf/src/main.cpp` | `g_server`, the locals of `main`, which the callback refers to | start, signal, final report, destructors; a scrape reads the counters one after the other, on the exporter's thread | the gauges are what their help text says; the final report balances; a signal ends the process |
| **Exporter** `metrics/prometheus_exporter.h` | a detached HTTP thread | calls the callback | it reads no object that is gone (it may: see section 3, `UpfServer`) |
| **REST AMF** `transport-bench/rest_amf_server.cpp` | `ue_contexts` under a mutex, two atomics | POST register, DELETE, GET metrics, on the HTTP server's threads | as its header says, the AMF's registration logic |
| **bench_compare** `transport-bench/bench_compare.cpp` | latencies, a success counter | one loop per transport, 5 s time limits on HTTP, none on gRPC | what is counted is registered; it hangs nowhere but in a gRPC call |
| **UE simulator** `ue-sim/main.cpp` | latencies and successes, shared by its threads | sequential, concurrent and classification benchmarks | each UE registered once, statistics of all that was measured |
| **Deployment** `docker-compose.yml`, `k8s/` | - | one AMF and one UPF, restarted when they exit; the simulator as a Job that is tried again | - |

How they interact: the AMF asks the UPF for a session per registration and
keeps the session id in the UE's context; it releases that session when the UE
deregisters. Nothing is persisted, nothing reconciles the two, and the ids and
addresses both start again with the process that issues them.

## 2. What is hard in this code

The full list, each at its line with the properties that watch it, is
`hazards` in `PROJECT.json`. In short:

- *State used after a blocking call.* `Register` decides before the N4 call that
  the UE is new and stores the context after it; `Deregister` keeps an iterator
  across it. Both are right only because `ctx_mutex_` is held throughout.
- *Partial failure.* A failed `EstablishSession` may have been executed; the
  status of `ReleaseSession` is ignored; a registration with another
  `registration_type` overwrites a context whose session nobody releases.
- *Late execution.* gRPC may report an error for a call that the UPF executes
  later, after the AMF has gone on, or has been restarted.
- *Restarts.* Session ids start again at 1 with the UPF, NGAP ids and addresses
  with the AMF.
- *Addresses.* `10.0.0.(counter % 254 + 1)`: shared from the 255th attempt on,
  and a release erases the route of its address whoever holds it.
- *Lost wake-ups and shutdown* in the pool.
- *Ownership of a response.* A pool thread writes `resp` and sets the promise while
  the handler waits for it; a write after the promise would be to a dead object.
- *Counters read apart.* The three packet counters are incremented at different
  steps of a packet and read one after the other by a scrape.
- *Stale route.* A packet is judged by what the look-up found, and the session may
  be gone before the verdict is written.
- *Shutdown.* A signal acts only while `main` waits; destructors run with
  the detached exporter thread still able to call into what they destroy.
- *Late answers and retries.* The HTTP client gives up after its time limit and the
  request may still be served; a Job repeats a failed simulator from the beginning.
- *A call without a deadline.* The benchmark's gRPC call, like the AMF's N4 call, ends
  when the server answers or the connection breaks, and otherwise never.
- *Division of work.* Threads split the UEs by index and share their statistics.

## 3. The modules and the code

`StdMap` has the two mutating operations of `std::unordered_map`.

**`UpfSessions`** - `sessions_`, `ue_to_session_`, `session_id_counter_`.
`EstablishSession` and `ReleaseSession` are atomic because the handlers hold
`sessions_mutex_` from the first to the last access; `Restart` is the process
starting again. Refusals (empty field, unknown id) change nothing. The client is
unconstrained: any supi, any address, any release, in any order.

**`Amf`** - a handler is cut where others can move: `RegisterArrives` /
`DeregisterArrives` (a thread is at the mutex), then, with the mutex,
`RegisterDuplicate`, `DeregisterUnknown`, or the call: `RegisterEstablish`
(NGAP id, address, N4 request), `DeregisterRelease`; `N4Answers` brings any
answer or an error; `RegisterStore`, `RegisterFailed`, `DeregisterErase` finish.
`pc`, `req`, `ngapId`, `n4Call` and `n4Reply` are the handlers' locals. Of
`UEContext` only the id and the session are kept: `supi` is the key,
`registered` is always true, `nssai` is never read. NGAP ids are the numbers behind
`"ngap-"`, session ids those behind `"sess-"`; addresses the last octet.

**`UeRegistry`** - what the AMF promises its clients: a set of UEs with their
NGAP ids in which registering and deregistering are atomic, an id is newer than
any held, and nothing else happens. `Amf!ImplementsRegistry` is the refinement,
with `registered` the ids of `ueContexts`.

**`AmfMetrics`** - `Amf` with the lambda of `amf/src/main.cpp:41-57` reading the
two counters while the handlers run. The operands of `a() - b()` are evaluated in
an order C++ leaves unspecified, so the scrape reads them in either order;
the difference is modulo `CounterModulus`, which stands for 2^64.

**`CoreNetwork`** - `Amf` and `UpfSessions` over N4. `UpfExecutes` runs the
UPF's handler and answers; `N4Breaks` makes the client see an error and puts the
call among the `stray` ones, which are later executed (`StrayExecutes`) or lost
(`StrayIsLost`), in any order. `AmfRestart` leaves the call under way on its
way to the UPF; `UpfRestart` fails the calls under way and ends the strays, whose
connection is gone. A call is executed at most once: gRPC does not retry a call
the server may have seen. `n4Breaks`, `amfRestarts`, `upfRestarts` count faults
so that the properties can say until when they hold.

**`ThreadPool`** - workers, callers of `enqueue`, the destructor.
`condition_.wait(lock, pred)` is its loop: `WorkerLocks`, then with the mutex
either `WorkerFindsNothing` and `WorkerBlocks` (give up the mutex and wait,
indivisibly), `WorkerExits` or `WorkerTakes`. A notified worker takes the mutex
again before it looks; `SpuriousWakeup` needs no notification. `enqueue` is
`Push` (under the mutex), `NotifyOne`, `CountSubmitted`, each on its own, as in
the code. The destructor starts when no `enqueue` is in progress.

**`TaskQueue`** - what the pool promises: a FIFO queue, tasks started from its
front, each finished once, and a pool that is gone only when it is empty.
`ThreadPool!ImplementsTaskQueue` is the refinement.

**`ClassifyRules`** - the decision table of `classify` once the profile of the
session is read. A destination is the network the code's prefixes tell apart.

**`PacketFilter`** - what the UPF promises about packets: each is judged once, by
the profile its source address had at *one* moment between arrival and
answer, and the answer is that judgement. No mutex, no pool, no promise. It states
its policy by sets of ports and networks, independently of the code's comparisons;
`MCUpfServer` has TLC compare the two at every boundary (`RulesArePolicy`).

**`NfProcess`** - the main thread of either function: `starting`, `building`
(the exporter runs), `started` (serving, `g_server` not set yet), `waiting`,
`draining` (`Shutdown`), `reporting`, `leaving` (destructors), `exited`. A signal
has an effect only in `waiting`, where the handler finds `g_server` set.

**`UpfServer`** - `UpfSessions`, `TaskQueue` as the pool and `NfProcess` composed
with the handlers of `ClassifyPacket`. A handler runs the classification itself
(`UPF_THREADS` 0) or submits it and waits for the promise. The classification is cut
where others can see it: look-up under the mutex (the verdict is fixed there, the
rest being computed from locals), writes to `resp`, the counter, the promise.
Session handlers run in between. A scrape reads `pkt`, `fwd`, `drop` in
that order; `ScrapeOfDestroyed` is the detached exporter calling into locals of
`main` that are gone, after which the process has crashed.
`UpfServer!ImplementsPacketFilter` is the refinement, with the profile of an
address that of the session its route names.

**`RestAmf`** - the lambdas for register, delete and metrics, one request each, on
the threads of the HTTP server, which are used through `TaskQueue`. The mutex is
where the code has it; the scrape reads the counter and `size()` without it. `shown` keeps
what a scrape read, and beside it which registrations were served while it was made.
A request is served also when its client has given up. It implements `UeRegistry`
as `Amf` does, which is what its header comment claims; the registry says nothing of
replies, so the 200 for the DELETE of an unknown UE is outside it.

**`TransportBench`** - `bench_compare.cpp` against `RestAmf`, and against a gRPC
AMF reduced to the set of its UEs; the program may be run again against servers
that kept their state. A gRPC call is `GrpcCalls`, after which the loop is blocked
until `AmfServes` (registered or refused) or `GrpcBreaks`; a call that has broken may be
served later. On the REST side `RestPosts` is followed by `RestReturns` or by
`RestGivesUp`, the 5 s limit, which the gRPC call (`bench_compare.cpp:73-75`) has not.

**`UeSimulator`** - the three benchmarks of `ue-sim/main.cpp`: one loop, then
`NumThreads` threads with `NumUes \div NumThreads` UEs each, then the packets. A
step takes a sample under `lat_mutex`, another counts the success. A call may
break for the client and reach the AMF later, from a pod that is gone too;
`PodFails` is the Job's retry, up to `backoffLimit`. `MCUeSimulator` also has TLC
evaluate the percentile indices of `compute_stats` for 1 to 250 samples.

Some definitions have a *mutated form* beside them, marked as such: the change a
plausible bug would make there. Replacing the definition by it must violate the
property `mutants` names, which shows that the property looks at the code.

## 4. The runs

`tlc -config X.cfg M` for each row. "States" are distinct states.

| Run | Module, cfg | Instance | States | What it shows |
|---|---|---|---|---|
| `upf_sessions` | `MCUpfSessions` | 2 supis, 2 addresses, 4 establishments per life | 1,449 | the tables stay consistent for any client |
| `amf` | `MCAmf` | 2 supis, 2 handlers, 3 attempts per life, pool of 2 | 16,496 | what is checked before the N4 call holds after it; refinement of the registry; the mutex is given back |
| `amf_queue` | `MCAmf`, `AmfQueue.cfg` | same | - | violation: requests do queue behind N4 calls |
| `amf_metrics` | `MCAmfMetrics` | 2 supis, 2 handlers, 2 attempts, modulus 16 | 9,659 | the gauge is sound when deregistrations are read first |
| `gauge_wraps` | `MCAmfMetrics`, `GaugeWraps.cfg` | same | - | violation: in the other order it wraps |
| `gauge_reregistration` | `MCAmfMetrics`, `GaugeReRegistration.cfg` | same | - | violation: it counts a UE twice |
| `core_network` | `MCCoreNetwork` | 2 supis, 2 handlers, pool of 2, 3 attempts, 3 sessions, 2 faults, symmetry | 1,441,751 | the guarantees across N4, and the fault that ends each |
| `thread_pool` | `MCThreadPool` | 3 workers, 3 tasks, 1 spurious wake-up | 116,824 | no lost wake-up, order, drain, termination |
| `upf_server` | `MCUpfServer` | 2 packets, inline or pool of 2, 2 establishments, profiles 1 and 4 | 554,298 | verdicts, responses, counters and the end of the process |
| `private_destinations` | `MCUpfServer`, `PrivateDestinations.cfg` | 1 packet to each network | - | violation: 172.16/12 is forwarded |
| `transport_bench` | `MCTransportBench` | 2 UEs, 2 runs of the program, 1 request of another client, 3 threads | 1,180,765 | REST handlers implement the registry; what is counted is registered; the client hangs nowhere but in a gRPC call |
| `ue_simulator` | `MCUeSimulator` | 3 UEs, 2 threads, 1 packet, 2 pods, 3 calls under way | 811,920 | the split, the statistics and repeated pods |

**Properties.** `upf_sessions`: `RouteWellFormed` (so `sessions_.at` never
throws), `NewestSessionHoldsRoute` (a route belongs to the newest live session of its
address), `RouteLostOnlyBySharing` (a live session loses its route only to one
that shares its address), `SessionsAreImmutable`. `amf`:
`InitialRegistersNewUe`, `IteratorStaysValid`, `NgapIdsUnique`,
`CountersCoverContexts`, `ImplementsRegistry`, `MutexIsReleased`. `core_network`:

- `ContextsBacked`, `ReleasesOwnSession` - until the *UPF* restarts, every context
  names a live session of its own UE, and no release takes another UE's, although
  `ReleaseSession` never compares the supi. After a UPF restart both fail (ids are
  issued again), which is why they are guarded by `upfRestarts = 0`.
- `FirstLapRouted` - until the *AMF* restarts, and for the first 254 attempts,
  every live session is routed, also those left behind. Both guards are needed.
- `GaugesAgree` - without faults and with no call under way `amf_active_ues` equals
  `upf_active_sessions`.
- `LeakBounded` - while the AMF lives, sessions left behind at the UPF beyond what
  the AMF's counters account for are at most one per broken call.

  Both take the session that a re-registration leaves behind as accounted for: the
  AMF counts it as a registration and the UPF as a session, so the two agree on a number
  that is too high. That leak is shown by `gauge_reregistration`, not by these two.

`thread_pool`: `NoStrandedTask` (while a worker sleeps, each queued task has a
worker on its way or a notification coming), `StopReachesEveryone`,
`DestroyedMeansDrained`, `CountersSettle`, `ImplementsTaskQueue`,
`EveryTaskRuns`, `DestructorTerminates`. `upf_server`:

- `ImplementsPacketFilter` - see section 3: a packet caught between an establishment
  and a release gets the verdict of one of the profiles it met, never a mixture.
- `ResponseOwned` - `resp` is written only while its handler waits for the promise, or
  runs the classification itself.
- `ScrapeBounds` - forwarded + dropped, read after `pkt`, may exceed it; it falls
  short of it by no more than the packets that were uncounted when the scrape began,
  and never exceeds the packets there are when it ends.
- `FinalReportBalances` - the final metrics account for every packet, each counted on
  the side its answer names.
- `ShutdownCompletes` - once a signal has taken effect the process ends.

`transport_bench`: `ImplementsRegistry`, `InitialNeverOverwrites` (an `initial`
request never replaces a context), `ScrapeConsistent` (a page, whose two values are read
without the mutex, shows no more UEs than the registrations *it* shows, but for
those that were counted between its reads, or stored and not yet counted at the second: a
scrape that overlaps no registration is consistent; the reads themselves are taken to be of
whole words, section 7), `CountedMeansRegistered` (across repeated runs too),
`HangsOnlyInGrpc` (the program ends, or waits for ever in a gRPC call; it never waits
for ever for the REST AMF, which need not answer either). `ue_simulator`: `RequestedOncePerPod`,
`StatisticsComplete`, `CountedOnce` (over all pods, however late a call arrives).

**Bounds.** Counters are bounded in the MC modules, in the guards of the actions
that would pass them: `MaxAttempts` (registrations between two restarts of the
AMF), `MaxSessionId` / `MaxSessions` (establishments between two restarts of the
UPF), `MaxFaults` (broken calls and restarts together), `MaxSpurious`. A
registration is admitted only when an attempt is left for it, so the bound stops
no handler half way. Two subscribers and two handlers make every conflict
between a UE and itself or another happen; three attempts over a pool of two
addresses reach past its end; two faults allow a late call to meet a restart, or
two late calls each other. 3 workers and 3 tasks give notifications that meet
zero, one and two sleepers. Removing any guard of the `core_network` properties
makes them fail within these bounds. Symmetry is used in `core_network` only,
where no liveness is checked. `Amf`'s constants are those of the code except
`AddressPool`, 2 instead of 254, and the counters' modulus, 16 instead of 2^64.

`MaxEstablished` = 2 lets a packet meet a route that is replaced by a session of the
other profile, and one that is released. Calls of `upf_server` are interchangeable and are
numbered in order of arrival; a scrape touches nothing the sessions touch and is
under way only until the second establishment. The packets of `upf_server`
are one that both profiles forward and one that only profile 4 forwards: the
verdict tells which profile judged. `MaxRuns` = 2 is one run and one repetition
against full tables. In `transport_bench` the other client names the first UE; only the
first gRPC call of all may break, and is then served before or after `bench_rest` of
its run, or never, since what the gRPC AMF does meanwhile touches nothing the REST side
reads; the gRPC AMF refuses the UEs it has and no others. `MaxCalls` = 3 calls on their way to
the AMF are one of each thread and one nobody waits for; 3 UEs over 2 threads leave
a remainder; one retry (`BackoffLimit` = 1) is enough for pods to meet, more pods
repeat it.

**Fairness.** `Amf!FairSpec`: a handler that has arrived goes on, and an N4 call
comes back, answered or with the error of a broken connection - this is an
assumption about gRPC and the UPF, since the code sets no deadline. No fairness
for clients, and no strong fairness for the mutex: `std::mutex` promises no turn.
`ThreadPool!FairSpec`: each worker, each started `enqueue` and the started
destructor go on; nobody has to call the destructor. `UpfServer!Fairness`: `main`,
the pool's threads and the handlers that have begun go on; nothing is assumed of
clients, scrapes or signals. `TransportBench`: `Bench`, what the client does by itself,
goes on (`RestGivesUp` is among it: the library's time limit passes); neither
server ever has to answer. `AmfServes` and `GrpcBreaks` have no fairness, so the client may
stay in a gRPC call for ever, e.g. behind an N4 call at the AMF's `ctx_mutex_`. `UeSimulator` states none and has safety properties only.

**Deadlock** is checked except where the system really stops: a destroyed pool
(`thread_pool`), an exited process (`upf_server`, `private_destinations`), a program
that has ended (`transport_bench`, `ue_simulator`).

## 5. The proofs

`tlapm M.tla` for `M` = `UpfSessionsProofs`, `AmfProofs`, `AmfMetricsProofs`,
`CoreNetworkProofs`, `ThreadPoolProofs`, `UpfServerProofs`, `TransportBenchProofs`,
`UeSimulatorProofs`: every invariant and every action property that a passing run
checks, and every refinement, is a theorem. They hold for any subscribers, handlers,
addresses, threads, runs, pods and number of faults, from the assumptions the modules
name (`UpfAssumption`, `AmfAssumption`, `MetricsAssumption`, `ServerAssumption`,
`RestAssumption`, `BenchAssumption`, `SimulatorAssumption`, `PoolAssumption`: the
empty string is no subscriber, `Nobody` no handler, the pool's workers are a finite set with a member,
the benchmark's requests are not those of others, each thread of the simulator has a
UE, and the like). Each inductive invariant below was checked by TLC on the run of its
module, as an invariant, before it was proved.

**One component.**

- `SessionsTypeCorrect`, `RoutesWellFormed`, `NewestSessionRouted`
  (`UpfSessionsProofs`) - the three are inductive together only: the new session of an
  establishment has the greatest id, since `TypeOK` bounds the ids issued.
  `SessionsImmutable` and `RoutesLostBySharing` are steps from that invariant.
- `AmfTypeCorrect`, `InitialRegistersNew`, `IteratorValid`, `NgapIdsAreUnique`
  (`AmfProofs`) - none of the last three is inductive. `IInv` adds `MutexDiscipline`
  (a handler waits for the UPF exactly while it holds the mutex), from which it follows that no
  other handler changes a context meanwhile, `CallsMatch` (its call is for its
  own UE) and `IdsIssued` (ids are below the counter).
- `CountersCover` - with finite cardinalities: a store adds at most one context
  and counts one, an erase removes one that is there (`IteratorStaysValid`).
- `AmfImplementsRegistry` - `RegisterStore`, `DeregisterErase` and `Restart` map
  to the registry's steps, everything else to a stutter.
- `NoTaskStranded`, `StopReachesAll`, `DestroyedIsDrained`, `CountersDoSettle`,
  `PoolTypeCorrect`, `PoolImplementsTaskQueue` (`ThreadPoolProofs`) - `PInv`: control
  states match the mutex's owner, each task is in one place, and (`NothingLost`) a queued
  task has a worker awake or a notification to come. `Counters`, over finite
  sets, ties the two atomics to the tasks past each point.
- `ResponseIsOwned`, `FinalReportIsBalanced`, `ScrapeIsBounded`,
  `ServerImplementsPacketFilter` (`UpfServerProofs`) - `IInv`: which step a
  classification is at, given where its handler and its task are; a
  reporting `main` has no handler left; a route names a live session. `CountInv` ties each
  counter to the set of calls past it. The look-up maps to the filter's `Decide`,
  the handler's return to `Answer`.
- `RestInitialNeverOverwrites`, `RestImplementsRegistry`, `RestScrapeConsistent`
  (`TransportBenchProofs`, of `RestAmf` alone) - mutual exclusion from the register's
  check to its store, and each request in one place of the server's queue. For the
  scrape: `reg_count` is the number of registrations answered 201, contexts are no more
  than these and the one being counted, and the first read is the number that had been
  answered by then; the rest are those the page overlapped.
- `UesRequestedOnce`, `UesCountedOnce`, `StatisticsAreComplete`
  (`UeSimulatorProofs`) - `InRange`: a thread is within its own range of UEs, and the
  ranges `[t * UesPerThread, (t + 1) * UesPerThread)` do not meet, so that
  `RequestsExact` can say which UEs this pod has requested, from the loop indices
  alone. `StatisticsExact` then counts them: the samples are those past
  `sample`, the successes at most those past `count`. It needs `NotBegun`, since
  the threads of the concurrent benchmark start from nothing. `WinsOnce` is about all
  pods: a UE becomes registered once, so one call in the whole Job wins it, and
  the thread that is told has not counted it.
- `GaugeIsSound` (`AmfMetricsProofs`) - `GaugeInv` brackets the reads: deregistrations
  read first are at most the registrations there were then (`CountersCover`), and the
  registrations read afterwards are no fewer, as the counter only grows until a
  restart, which ends the scrape. So the subtraction does not wrap.

**Components together.**

- `CoreTypeCorrect` (`CoreNetworkProofs`) - the AMF's invariant holds in the network
  too (an answer of `UpfSessions` is one of those `Amf` allows for), and calls, strays and tables
  are well typed.
- `ContextsStayBacked`, `ReleasesAreOwn` - the deepest result. `Backing` says, until
  the UPF restarts: ids named by contexts are issued and all different; an id
  answered and not stored yet names a live session of its UE and is named by
  nothing else; a late release takes a session of its own UE that no context
  counts on, unless that context is just being erased. Each part is needed by
  another: e.g. a late release is harmless to a new context because an answered id
  is in no stray release, and that because ids grow.
- `FirstLapIsRouted` - `Lap`: all sessions are routed, and the
  establishments still to be executed bring addresses that are not in use and
  differ from each other; attempts within one window of `AddressPool` numbers have
  different addresses because the remainder is injective on a window.
- `LeakIsBounded` - `Leak`: contexts, deregistrations, orphans (sessions that no
  context and no unstored answer covers) and stray establishments together are
  at most the registrations plus the broken calls.
- `GaugesDoAgree` - `Balanced`: without faults the two sides differ by the one call
  that was answered. It needs `Backing`, so that a release finds its session.
- `CoreUsesUpfSessions`, `CoreKeepsAmfPromises` - a behaviour of the composition is one of
  `UpfSessions`, and its AMF still implements `UeRegistry`: N4, with its late and
  broken calls, never answers what `Amf` does not allow for.
- `HandlersEnqueueInTime` (`UpfServerProofs`) - `ThreadPool::enqueue` has no test of
  `stop_`: a task put after the destructor began may never run, and its handler would
  wait for ever. `ThreadPool` therefore lets the destructor start only when no
  `enqueue` is in progress, and `TaskQueue!Submit` requires an open queue. The theorem discharges both for
  the one user of the pool: no handler is at its `enqueue` when `main` destroys the
  service, because `Wait` has returned by then (`MainInv`), and no call is put twice.
  `ServerUsesPool`, `ServerUsesSessions`: a behaviour of the service is one of its parts;
  `ServerRoutesWellFormed`: in it no route dangles either, on which `classify`
  relies when a worker runs it.
- `CountedAreRegistered`, `BenchUsesRestAmf`, `BenchKeepsPromises` (`TransportBenchProofs`) -
  the benchmark counts status 200, which a refusal has too. `AnsweredRegistered`: a
  registration inserted or answered has left a context which only a removal that
  somebody asked for takes away; `BlockedOnOwn`: what the client waits for is its
  own registration of the current UE (on the REST side; a gRPC call needs no such fact,
its answer and its count being one step). `BenchUsesRestAmf` gives the composition what
  is proved of `RestAmf`; `MetricsLeaveAmf` does so for a scrape beside `Amf`.

*Only model-checked:* liveness (`MutexIsReleased`, `EveryTaskRuns`,
`DestructorTerminates`, `ShutdownCompletes`, `HangsOnlyInGrpc`), because it needs ENABLED; the
percentile indices, which are evaluated for the sample sizes above; and the
disagreements of section 6, which are counterexamples.

## 6. Findings

- `amf_queue`: `README.md:60` of the repository says concurrent requests "no longer
  queue behind slow N4 round trips"; they queue at `ctx_mutex_`
  (`amf_server.cpp:36`), which is held through the N4 call.
- `gauge_wraps`: `amf_active_ues` (`amf/src/main.cpp:54`) can be read as -1 modulo
  2^64.
- `gauge_reregistration`: the same gauge, "Number of currently registered UEs",
  counts a UE that re-registers twice, and for ever.
- `private_destinations`: "Block RFC-1918 private destinations"
  (`upf_server.cpp:184`) is a test for `10.` and `192.168.`; packets for the third
  private network, 172.16.0.0/12, are forwarded.

Not a run, but met on the way: with `NUM_UES=50`, 4 threads and 1000 packets the
rules forward 377 packets and drop 623; the sample output in `README.md:80-94` of
the repository shows 376 and 624. The sample may be of another revision or have met
a failure, so it is no finding.

## 7. What is not modelled

- *cpp-httplib* (`transport-bench/httplib.h`, 20,735 of the 22,087 lines of C++) is
  vendored code: parsing, TLS, platforms. The modules keep what this repository relies on:
  connections are queued for the server's threads and served once each, and a
  client gives up after its time limit. A map of these lines would be of another program.
- Message encoding (the `.proto` files are input of a generator), timestamps,
  latencies as numbers, logging, the text of `cause`, JSON and Prometheus text.
- Environment variables; the session and thread gauges of the UPF's scrape, which are
  unguarded reads of a size related to nothing; `/health`; a second signal.
- `main` of the AMF together with its service: it is `NfProcess` with other names,
  and the composition would repeat `UpfServer`.
- A torn read: `/metrics` of the REST AMF calls `size()` of the map without the mutex, a
  data race, of which the builds for the deployed platforms (a 64-bit load of the
  element count) can produce the value before or after a change.
- What the program *ought* to do where nothing in the repository says it:
  `StatisticsComplete` is about the requests the simulator makes, and does not claim
  that the remainder of `NUM_UES / threads`, which the concurrent benchmark drops, should
  be made.
- A restart of the REST AMF, and of the AMF in `UeSimulator`: both lose the contexts,
  as `CoreNetwork` shows, and `CountedOnce` holds within one life of the AMF.
- A simulator with fewer UEs than threads, or no packets: `compute_stats` then
  reads an empty vector, which is undefined (`SimulatorAssumption` excludes it).
- Overflow of the 64-bit counters other than the gauge's subtraction; the build and
  the deployment files beyond what restarts and retries a process.

## 8. The plan

*Done:* the session tables, the AMF, N4, the pool, the UPF as a process with
packet classification, the REST AMF, the benchmark client and the simulator, with
their runs; the proofs of section 5.

*Left, in this order:* that `UpfServer` over `ThreadPool` itself, in place of
`TaskQueue`, still answers as `PacketFilter` says (the two refinements and
`HandlersEnqueueInTime` are its parts); `NfProcess` composed with `Amf`, so that the
AMF's final report is checked as the UPF's is; an upper bound on `amf_active_ues` after
re-registrations, which `gauge_reregistration` shows to be too high.
