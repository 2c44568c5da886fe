------------------------------ MODULE UeSimulator ------------------------------
(***************************************************************************)
(* The UE simulator (ue-sim/main.cpp) against the AMF: one thread          *)
(* registers NumUes UEs one after the other, then NumThreads threads       *)
(* register NumUes \div NumThreads further UEs each, then NumPackets       *)
(* packets are classified.  It runs as a Kubernetes Job                    *)
(* (k8s/ue-sim-job.yaml): a pod that fails is replaced by another, which   *)
(* starts from the beginning against the same AMF.                         *)
(*                                                                         *)
(* Of the AMF only the set of registered UEs is kept, which is the domain  *)
(* of UeRegistry, and the duplicate check of Register; a call whose client *)
(* has gone may still reach it.  Latencies are counted, not measured.      *)
(***************************************************************************)
EXTENDS Integers, FiniteSets

CONSTANTS
  NumUes, NumThreads, NumPackets,   (* NUM_UES, BENCH_THREADS, NUM_PACKETS  *)
  BackoffLimit                      (* backoffLimit: pods after the first   *)

(* With no request made, compute_stats reads an empty vector.              *)
ASSUME SimulatorAssumption ==
  /\ NumThreads \in Nat \ {0} /\ NumUes \in Nat /\ NumUes >= NumThreads
  /\ NumPackets \in Nat \ {0}
  /\ BackoffLimit \in Nat

VARIABLES
  pod,          (* pods before this one                                     *)
  phase,        (* the benchmark under way                                  *)
  place,        (* where each thread is                                     *)
  next,         (* i, the UE each thread is at                              *)
  accepted,     (* thread -> its last call succeeded                        *)
  latencies,    (* samples of this phase                                    *)
  success,      (* successes of this phase                                  *)
  calls,        (* calls of Register on their way to the AMF                *)
  registered,   (* UEs the AMF has a context for                            *)
  requests,     (* UE -> times this pod has requested it                    *)
  counted       (* UE -> times any pod has counted it as a success          *)

podVars == <<pod, phase, place, next, accepted, latencies, success, requests>>
vars == <<podVars, calls, registered, counted>>

(* The thread of main, and those that run_concurrent starts.               *)
Main == -1
AsyncThreads == 0 .. NumThreads - 1
Threads == {Main} \cup AsyncThreads
Benchmark(t) == IF t = Main THEN "sequential" ELSE "concurrent"

(***************************************************************************)
(* Which UEs a thread registers.                                           *)
(***************************************************************************)
UesPerThread == NumUes \div NumThreads

StartIdx(t) == IF t = Main THEN 0 ELSE t * UesPerThread

(* Mutated form: the end of a thread's range is included.                  *)
EndIncluded(t) == IF t = Main THEN NumUes ELSE StartIdx(t) + UesPerThread + 1

EndIdx(t) == IF t = Main THEN NumUes ELSE StartIdx(t) + UesPerThread

(* The two benchmarks have prefixes of their own, 00101 and 99901.         *)
Ue(t, i) == <<Benchmark(t), i>>

Ues == {"sequential", "concurrent"} \X (0 .. NumUes)

Everywhere(v) == [t \in Threads |-> v]
NextAtStart == [t \in Threads |-> StartIdx(t)]
NoRequests == [ue \in Ues |-> 0]

Init ==
  /\ pod = 0 /\ phase = "sequential"
  /\ place = Everywhere("loop") /\ next = NextAtStart /\ accepted = Everywhere(FALSE)
  /\ latencies = 0 /\ success = 0
  /\ requests = NoRequests
  /\ calls = {}
  /\ registered = {}
  /\ counted = NoRequests

At(t, here) == phase = Benchmark(t) /\ place[t] = here
Goes(t, there) == place' = [place EXCEPT ![t] = there]

(***************************************************************************)
(* register_ue and the loops around it.                                    *)
(***************************************************************************)
Call(t) == [pod |-> pod, ue |-> Ue(t, next[t])]

Calls(t) ==
  /\ At(t, "loop") /\ next[t] < EndIdx(t)
  /\ calls' = calls \cup {Call(t)}
  /\ requests' = [requests EXCEPT ![Ue(t, next[t])] = @ + 1]
  /\ Goes(t, "call")
  /\ UNCHANGED <<pod, phase, next, accepted, latencies, success, registered, counted>>

(* status.ok() && resp.accepted(), in the reply to call k if its caller is *)
(* still there.                                                            *)
Returns(k, ok) ==
  LET callers == {t \in Threads : At(t, "call") /\ Call(t) = k}
  IN  /\ place' = [t \in Threads |-> IF t \in callers THEN "sample" ELSE place[t]]
      /\ accepted' = [t \in Threads |-> IF t \in callers THEN ok ELSE accepted[t]]
      /\ UNCHANGED <<pod, phase, next, latencies, success, requests, counted>>

(* Mutated form: push_back without lat_mutex, which may lose the sample.   *)
SampledUnguarded == {latencies, latencies + 1}

Sampled == {latencies + 1}

KeepsLatency(t) ==
  /\ At(t, "sample")
  /\ latencies' \in Sampled
  /\ Goes(t, "count")
  /\ UNCHANGED <<pod, phase, next, accepted, success, requests, calls, registered, counted>>

CountsSuccess(t) ==
  /\ At(t, "count")
  /\ next' = [next EXCEPT ![t] = @ + 1]
  /\ Goes(t, "loop")
  /\ IF accepted[t]
     THEN /\ success' = success + 1
          /\ counted' = [counted EXCEPT ![Ue(t, next[t])] = @ + 1]
     ELSE UNCHANGED <<success, counted>>
  /\ UNCHANGED <<pod, phase, accepted, latencies, requests, calls, registered>>

(***************************************************************************)
(* The AMF.                                                                *)
(***************************************************************************)
(* Mutated form: the requests have a type other than "initial", which the  *)
(* AMF does not compare with its contexts.                                 *)
NeverDuplicate(ue) == FALSE

Duplicate(ue) == ue \in registered

AmfAccepts(k) ==
  /\ k \in calls
  /\ ~ Duplicate(k.ue)
  /\ registered' = registered \cup {k.ue}
  /\ calls' = calls \ {k}
  /\ Returns(k, TRUE)

(* already_registered, or no session at the UPF.                           *)
AmfRefuses(k) ==
  /\ k \in calls
  /\ calls' = calls \ {k}
  /\ Returns(k, FALSE)
  /\ UNCHANGED registered

(* The client sees an error, the AMF may still see the call.               *)
CallBreaks(t) ==
  /\ At(t, "call") /\ Call(t) \in calls
  /\ Returns(Call(t), FALSE)
  /\ UNCHANGED <<calls, registered>>

(***************************************************************************)
(* The other benchmark, and main.                                          *)
(***************************************************************************)
(* A packet that is dropped is a success: only the status is looked at.    *)
Classifies ==
  /\ phase = "classification" /\ latencies < NumPackets
  /\ latencies' = latencies + 1
  /\ success' \in {success, success + 1}
  /\ UNCHANGED <<pod, phase, place, next, accepted, requests, calls, registered, counted>>

Finished(t) == place[t] = "loop" /\ next[t] >= EndIdx(t)

(* Mutated form: the futures are not waited for.                           *)
PhaseOverUnjoined ==
  CASE phase = "sequential" -> Finished(Main)
    [] phase = "concurrent" -> \E t \in AsyncThreads : Finished(t)
    [] phase = "classification" -> latencies = NumPackets
    [] OTHER -> FALSE

(* The loop has ended; every f.wait() has returned.                        *)
PhaseOver ==
  CASE phase = "sequential" -> Finished(Main)
    [] phase = "concurrent" -> \A t \in AsyncThreads : Finished(t)
    [] phase = "classification" -> latencies = NumPackets
    [] OTHER -> FALSE

PhaseAfter ==
  [sequential |-> "concurrent", concurrent |-> "classification", classification |-> "ended"]

(* compute_stats and print_stats.                                          *)
NextPhase ==
  /\ PhaseOver
  /\ phase' = PhaseAfter[phase]
  /\ latencies' = 0 /\ success' = 0
  /\ UNCHANGED <<pod, place, next, accepted, requests, calls, registered, counted>>

(* The pod fails, and the Job starts another unless its limit is reached.  *)
PodFails ==
  /\ phase # "ended"
  /\ pod < BackoffLimit
  /\ pod' = pod + 1 /\ phase' = "sequential"
  /\ place' = Everywhere("loop") /\ next' = NextAtStart /\ accepted' = Everywhere(FALSE)
  /\ latencies' = 0 /\ success' = 0
  /\ requests' = NoRequests
  /\ UNCHANGED <<calls, registered, counted>>

ThreadStep(t) == Calls(t) \/ KeepsLatency(t) \/ CountsSuccess(t)

Next ==
  \/ \E t \in Threads : ThreadStep(t) \/ CallBreaks(t)
  \/ \E k \in calls : AmfAccepts(k) \/ AmfRefuses(k)
  \/ Classifies
  \/ NextPhase
  \/ PodFails

Spec == Init /\ [][Next]_vars

(***************************************************************************)
(* Properties.                                                             *)
(***************************************************************************)
TypeOK ==
  /\ pod \in 0 .. BackoffLimit
  /\ phase \in {"sequential", "concurrent", "classification", "ended"}
  /\ place \in [Threads -> {"loop", "call", "sample", "count"}]
  /\ next \in [Threads -> 0 .. NumUes]
  /\ accepted \in [Threads -> BOOLEAN]
  /\ latencies \in Nat /\ success \in Nat
  /\ \A k \in calls : k.pod \in 0 .. pod /\ k.ue \in Ues
  /\ registered \subseteq Ues
  /\ requests \in [Ues -> Nat] /\ counted \in [Ues -> Nat]

(* The split of the UEs over the threads is one: no pod requests a UE      *)
(* twice, whose second request would be refused and counted as a failure.  *)
RequestedOncePerPod == \A ue \in Ues : requests[ue] <= 1

(* When a benchmark is over its statistics are of every request it made,   *)
(* NumUes rounded down to a multiple of NumThreads in the concurrent one,  *)
(* and its successes are no more than that.                                *)
StatisticsComplete ==
  PhaseOver /\ phase \in {"sequential", "concurrent"} =>
    LET made == {ue \in Ues : ue[1] = phase /\ requests[ue] > 0}
    IN  /\ latencies = Cardinality(made)
        /\ latencies = IF phase = "sequential" THEN NumUes ELSE NumThreads * UesPerThread
        /\ success <= latencies

(* Over all the pods of the Job a UE is a success at most once, however    *)
(* late its calls reach the AMF, and then it is registered: a pod that     *)
(* repeats the work of another counts only what that has not done.         *)
CountedOnce ==
  \A ue \in Ues : counted[ue] <= 1 /\ (counted[ue] = 1 => ue \in registered)
===============================================================================
