--------------------------- MODULE UeSimulatorProofs ---------------------------
(***************************************************************************)
(* Proofs about UeSimulator, for any number of UEs, threads, packets and   *)
(* pods.  They rest on the arithmetic of run_concurrent: the ranges of its *)
(* threads are apart, and together they are the first                      *)
(* NumThreads * UesPerThread UEs.                                          *)
(***************************************************************************)
EXTENDS UeSimulator, FiniteSetTheorems, TLAPS

(***************************************************************************)
(* The ranges.                                                             *)
(***************************************************************************)
LEMMA Quotient ==
  /\ UesPerThread \in Nat \ {0}
  /\ NumThreads * UesPerThread \in Nat
  /\ NumThreads * UesPerThread <= NumUes
<1> DEFINE q == NumUes \div NumThreads
           r == NumUes % NumThreads
<1>1. q \in Int /\ r \in 0 .. NumThreads - 1 /\ NumUes = NumThreads * q + r
  BY SimulatorAssumption
<1> HIDE DEF q, r
<1>2. NumThreads * q \in Int
  BY <1>1, SimulatorAssumption
<1>3. q > 0
  <2>1. CASE q <= 0
    <3>1. NumThreads * q <= 0
      BY <1>1, <2>1, SimulatorAssumption
    <3>2. NumUes < NumThreads
      BY <1>1, <1>2, <3>1, SimulatorAssumption
    <3> QED
      BY <3>2, SimulatorAssumption
  <2> QED
    BY <1>1, <2>1
<1>4. UesPerThread = q
  BY DEF UesPerThread, q
<1> HIDE DEF q
<1>5. NumThreads * q <= NumUes
  BY <1>1, <1>2, SimulatorAssumption
<1>6. NumThreads * q >= 0
  BY <1>1, <1>3, SimulatorAssumption
<1> QED
  BY <1>1, <1>2, <1>3, <1>4, <1>5, <1>6

(* The range of a thread is not empty and is one of UEs there are.         *)
LEMMA RangeOf ==
  ASSUME NEW t \in Threads
  PROVE  /\ StartIdx(t) \in Nat /\ EndIdx(t) \in Nat
         /\ StartIdx(t) < EndIdx(t) /\ EndIdx(t) <= NumUes
<1> DEFINE n == UesPerThread
<1>1. n \in Nat \ {0} /\ NumThreads * n \in Nat /\ NumThreads * n <= NumUes
  BY Quotient
<1> HIDE DEF n
<1>2. CASE t = Main
  BY <1>2, SimulatorAssumption DEF StartIdx, EndIdx
<1>3. CASE t \in 0 .. NumThreads - 1 /\ t # Main
  <2>1. StartIdx(t) = t * n /\ EndIdx(t) = t * n + n
    BY <1>3 DEF StartIdx, EndIdx, n
  <2>2. t \in Nat /\ t + 1 <= NumThreads
    BY <1>3, SimulatorAssumption
  <2>3. t * n \in Nat
    BY <1>1, <2>2
  <2>4. t * n + n <= NumThreads * n
    BY <1>1, <2>2, SimulatorAssumption
  <2> QED
    BY <1>1, <2>1, <2>3, <2>4, SimulatorAssumption
<1> QED
  BY <1>2, <1>3 DEF Threads, AsyncThreads, Main

LEMMA RangesApart ==
  ASSUME NEW t \in Threads, NEW u \in Threads, t # u, Benchmark(t) = Benchmark(u)
  PROVE  EndIdx(t) <= StartIdx(u) \/ EndIdx(u) <= StartIdx(t)
<1> DEFINE n == UesPerThread
<1>1. n \in Nat \ {0}
  BY Quotient
<1>2. t \in Nat /\ u \in Nat /\ t # Main /\ u # Main
  BY SimulatorAssumption DEF Benchmark, Threads, AsyncThreads, Main
<1>3. /\ StartIdx(t) = t * n /\ EndIdx(t) = t * n + n
      /\ StartIdx(u) = u * n /\ EndIdx(u) = u * n + n
  BY <1>2 DEF StartIdx, EndIdx
<1> HIDE DEF n
<1>4. ASSUME NEW a \in Nat, NEW b \in Nat, a < b
      PROVE  a * n + n <= b * n
  BY <1>1, <1>4
<1>5. t < u \/ u < t
  BY <1>2
<1> QED
  BY <1>2, <1>3, <1>4, <1>5

(* Every UE of the concurrent benchmark is in the range of a thread.       *)
LEMMA RangesCover ==
  ASSUME NEW i \in 0 .. NumThreads * UesPerThread - 1
  PROVE  \E t \in AsyncThreads : StartIdx(t) <= i /\ i < EndIdx(t)
<1> DEFINE n == UesPerThread
<1>1. n \in Nat \ {0} /\ NumThreads * n \in Nat
  BY Quotient
<1> HIDE DEF n
<1>2. i \in Nat /\ i < NumThreads * n
  BY <1>1 DEF n
<1>3. PICK q \in Int, r \in 0 .. n - 1 : i = n * q + r
  <2>1. (i \div n) \in Int /\ (i % n) \in 0 .. n - 1 /\ i = n * (i \div n) + (i % n)
    BY <1>1, <1>2
  <2> QED
    BY <2>1
<1>4. n * q \in Int /\ q * n = n * q
  BY <1>1
<1>5. q >= 0
  <2>1. CASE q <= -1
    <3>1. n * q <= -n
      BY <1>1, <2>1
    <3> QED
      BY <1>1, <1>2, <1>3, <1>4, <3>1
  <2> QED
    BY <2>1
<1>6. q < NumThreads
  <2>1. CASE q >= NumThreads
    <3>1. n * q >= NumThreads * n
      BY <1>1, <2>1, SimulatorAssumption
    <3> QED
      BY <1>1, <1>2, <1>3, <1>4, <3>1
  <2> QED
    BY <2>1, SimulatorAssumption
<1>7. q \in AsyncThreads /\ q # Main
  BY <1>5, <1>6, SimulatorAssumption DEF AsyncThreads, Main
<1>8. StartIdx(q) = q * n /\ EndIdx(q) = q * n + n
  BY <1>7 DEF StartIdx, EndIdx, n
<1> QED
  BY <1>1, <1>2, <1>3, <1>4, <1>7, <1>8

(***************************************************************************)
(* The invariant.                                                          *)
(***************************************************************************)
(* A thread is at a UE of its range, unless it has finished; the threads   *)
(* of the concurrent benchmark have not begun before it has.               *)
InRange ==
  \A t \in Threads :
    /\ next[t] \in StartIdx(t) .. EndIdx(t)
    /\ place[t] # "loop" => next[t] < EndIdx(t)

NotBegun ==
  phase = "sequential" => \A t \in AsyncThreads : next[t] = StartIdx(t) /\ place[t] = "loop"

(* The UEs a thread has requested, has a latency of, has done with.        *)
RequestedBy(t) ==
  {i \in 0 .. NumUes : StartIdx(t) <= i /\ (i < next[t] \/ (i = next[t] /\ place[t] # "loop"))}

SampledBy(t) ==
  {i \in 0 .. NumUes : StartIdx(t) <= i /\ (i < next[t] \/ (i = next[t] /\ place[t] = "count"))}

DoneBy(t) == {i \in 0 .. NumUes : StartIdx(t) <= i /\ i < next[t]}

RequestedIn(b) == {i \in 0 .. NumUes : \E t \in Threads : Benchmark(t) = b /\ i \in RequestedBy(t)}
SampledIn(b) == {i \in 0 .. NumUes : \E t \in Threads : Benchmark(t) = b /\ i \in SampledBy(t)}
DoneIn(b) == {i \in 0 .. NumUes : \E t \in Threads : Benchmark(t) = b /\ i \in DoneBy(t)}

Benchmarks == {"sequential", "concurrent"}

RequestsExact ==
  \A b \in Benchmarks, i \in 0 .. NumUes :
    requests[<<b, i>>] = IF i \in RequestedIn(b) THEN 1 ELSE 0

StatisticsExact ==
  phase \in Benchmarks =>
    /\ latencies = Cardinality(SampledIn(phase))
    /\ success <= Cardinality(DoneIn(phase))

(* A thread that is told of a success is the only one that was, in all     *)
(* pods, and nobody has counted it yet.                                    *)
Wins(t, ue) == place[t] \in {"sample", "count"} /\ accepted[t] /\ Ue(t, next[t]) = ue

WinsOnce ==
  \A ue \in Ues :
    /\ counted[ue] <= 1
    /\ counted[ue] = 1 => ue \in registered
    /\ \A t \in Threads : Wins(t, ue) => ue \in registered /\ counted[ue] = 0

IInv == TypeOK /\ InRange /\ NotBegun /\ RequestsExact /\ WinsOnce

LEMMA Phases ==
  /\ Main \in Threads /\ Benchmark(Main) = "sequential"
  /\ \A t \in AsyncThreads : t \in Threads /\ t # Main /\ Benchmark(t) = "concurrent"
  /\ \A t \in Threads : t = Main \/ t \in AsyncThreads
  BY SimulatorAssumption DEF Main, Threads, AsyncThreads, Benchmark

LEMMA UeTyped ==
  ASSUME TypeOK, NEW t \in Threads
  PROVE  Ue(t, next[t]) \in Ues
  BY Phases DEF Ue, Ues, TypeOK

(* What a thread is at is no other thread's.                               *)
LEMMA OwnUe ==
  ASSUME TypeOK, InRange, NEW t \in Threads, NEW u \in Threads,
         t # u, Benchmark(t) = Benchmark(u), next[t] < EndIdx(t)
  PROVE  /\ next[t] \notin RequestedBy(u) /\ next[t] \notin SampledBy(u) /\ next[t] \notin DoneBy(u)
         /\ next[u] < EndIdx(u) => next[t] # next[u]
<1>1. EndIdx(t) <= StartIdx(u) \/ EndIdx(u) <= StartIdx(t)
  BY RangesApart
<1>2. /\ StartIdx(t) \in Nat /\ EndIdx(t) \in Nat /\ StartIdx(u) \in Nat /\ EndIdx(u) \in Nat
      /\ next[t] \in Nat /\ next[u] \in Nat
  BY RangeOf DEF TypeOK
<1>3. /\ StartIdx(t) <= next[t]
      /\ StartIdx(u) <= next[u] /\ next[u] <= EndIdx(u)
      /\ place[u] # "loop" => next[u] < EndIdx(u)
  BY <1>2 DEF InRange
<1> QED
  BY <1>1, <1>2, <1>3 DEF RequestedBy, SampledBy, DoneBy

LEMMA InitInvariant == Init => IInv /\ StatisticsExact
<1> SUFFICES ASSUME Init PROVE IInv /\ StatisticsExact
  OBVIOUS
<1>1. \A t \in Threads : /\ next[t] = StartIdx(t) /\ place[t] = "loop"
                         /\ StartIdx(t) \in 0 .. NumUes /\ StartIdx(t) \in StartIdx(t) .. EndIdx(t)
  BY RangeOf, SimulatorAssumption DEF Init, NextAtStart, Everywhere
<1>2. TypeOK
  BY <1>1, SimulatorAssumption DEF Init, NextAtStart, Everywhere, NoRequests, TypeOK
<1>3. InRange /\ NotBegun
  BY <1>1, Phases DEF InRange, NotBegun
<1>4. \A b \in Benchmarks : RequestedIn(b) = {} /\ SampledIn(b) = {} /\ DoneIn(b) = {}
  BY <1>1 DEF RequestedIn, RequestedBy, SampledIn, SampledBy, DoneIn, DoneBy
<1>5. RequestsExact
  BY <1>4 DEF Init, NoRequests, Ues, Benchmarks, RequestsExact
<1>6. \A t \in Threads, ue \in Ues : ~ Wins(t, ue)
  BY <1>1 DEF Wins
<1>7. WinsOnce
  BY <1>6 DEF Init, NoRequests, WinsOnce
<1>8. StatisticsExact
  BY <1>4, FS_EmptySet DEF Init, StatisticsExact
<1> QED
  BY <1>2, <1>3, <1>5, <1>7, <1>8 DEF IInv

(* The sets after a step of a thread.                                      *)
LEMMA CallsSets ==
  ASSUME IInv, NEW t \in Threads, Calls(t), NEW b \in Benchmarks
  PROVE  /\ RequestedIn(b)' = IF b = Benchmark(t) THEN RequestedIn(b) \cup {next[t]} ELSE RequestedIn(b)
         /\ next[t] \notin RequestedIn(Benchmark(t))
         /\ SampledIn(b)' = SampledIn(b) /\ DoneIn(b)' = DoneIn(b)
<1> USE DEF IInv
<1>1. /\ next' = next /\ place' = [place EXCEPT ![t] = "call"] /\ place[t] = "loop"
      /\ next[t] < EndIdx(t)
  BY DEF Calls, Goes, At
<1>2. next[t] \in 0 .. NumUes /\ StartIdx(t) <= next[t] /\ StartIdx(t) \in Nat /\ EndIdx(t) \in Nat
  BY RangeOf DEF TypeOK, InRange
<1>3. \A u \in Threads : u # t =>
        RequestedBy(u)' = RequestedBy(u) /\ SampledBy(u)' = SampledBy(u) /\ DoneBy(u)' = DoneBy(u)
  BY <1>1 DEF RequestedBy, SampledBy, DoneBy, TypeOK
<1>4. /\ RequestedBy(t)' = RequestedBy(t) \cup {next[t]}
      /\ SampledBy(t)' = SampledBy(t) /\ DoneBy(t)' = DoneBy(t)
  BY <1>1, <1>2 DEF RequestedBy, SampledBy, DoneBy, TypeOK
<1>5. next[t] \notin RequestedBy(t)
  BY <1>1, <1>2 DEF RequestedBy
<1>6. \A u \in Threads : u # t /\ Benchmark(u) = Benchmark(t) => next[t] \notin RequestedBy(u)
  BY <1>1, OwnUe
<1>7. next[t] \notin RequestedIn(Benchmark(t))
  BY <1>5, <1>6 DEF RequestedIn
<1>8. RequestedIn(b)' = IF b = Benchmark(t) THEN RequestedIn(b) \cup {next[t]} ELSE RequestedIn(b)
  BY <1>2, <1>3, <1>4 DEF RequestedIn
<1>9. SampledIn(b)' = SampledIn(b) /\ DoneIn(b)' = DoneIn(b)
  BY <1>3, <1>4 DEF SampledIn, DoneIn
<1> QED
  BY <1>7, <1>8, <1>9

LEMMA KeepsSets ==
  ASSUME IInv, NEW t \in Threads, KeepsLatency(t), NEW b \in Benchmarks
  PROVE  /\ SampledIn(b)' = IF b = Benchmark(t) THEN SampledIn(b) \cup {next[t]} ELSE SampledIn(b)
         /\ next[t] \notin SampledIn(Benchmark(t))
         /\ RequestedIn(b)' = RequestedIn(b) /\ DoneIn(b)' = DoneIn(b)
<1> USE DEF IInv
<1>1. /\ next' = next /\ place' = [place EXCEPT ![t] = "count"] /\ place[t] = "sample"
      /\ next[t] < EndIdx(t)
  BY DEF KeepsLatency, Goes, At, InRange
<1>2. next[t] \in 0 .. NumUes /\ StartIdx(t) <= next[t] /\ StartIdx(t) \in Nat /\ EndIdx(t) \in Nat
  BY RangeOf DEF TypeOK, InRange
<1>3. \A u \in Threads : u # t =>
        RequestedBy(u)' = RequestedBy(u) /\ SampledBy(u)' = SampledBy(u) /\ DoneBy(u)' = DoneBy(u)
  BY <1>1 DEF RequestedBy, SampledBy, DoneBy, TypeOK
<1>4. /\ SampledBy(t)' = SampledBy(t) \cup {next[t]}
      /\ RequestedBy(t)' = RequestedBy(t) /\ DoneBy(t)' = DoneBy(t)
  BY <1>1, <1>2 DEF RequestedBy, SampledBy, DoneBy, TypeOK
<1>5. next[t] \notin SampledBy(t)
  BY <1>1, <1>2 DEF SampledBy
<1>6. \A u \in Threads : u # t /\ Benchmark(u) = Benchmark(t) => next[t] \notin SampledBy(u)
  BY <1>1, OwnUe
<1>7. next[t] \notin SampledIn(Benchmark(t))
  BY <1>5, <1>6 DEF SampledIn
<1>8. SampledIn(b)' = IF b = Benchmark(t) THEN SampledIn(b) \cup {next[t]} ELSE SampledIn(b)
  BY <1>2, <1>3, <1>4 DEF SampledIn
<1>9. RequestedIn(b)' = RequestedIn(b) /\ DoneIn(b)' = DoneIn(b)
  BY <1>3, <1>4 DEF RequestedIn, DoneIn
<1> QED
  BY <1>7, <1>8, <1>9

LEMMA CountsSets ==
  ASSUME IInv, NEW t \in Threads, CountsSuccess(t), NEW b \in Benchmarks
  PROVE  /\ DoneIn(b)' = IF b = Benchmark(t) THEN DoneIn(b) \cup {next[t]} ELSE DoneIn(b)
         /\ next[t] \notin DoneIn(Benchmark(t))
         /\ RequestedIn(b)' = RequestedIn(b) /\ SampledIn(b)' = SampledIn(b)
<1> USE DEF IInv
<1>1. /\ next' = [next EXCEPT ![t] = @ + 1]
      /\ place' = [place EXCEPT ![t] = "loop"] /\ place[t] = "count"
      /\ next[t] < EndIdx(t)
  BY DEF CountsSuccess, Goes, At, InRange
<1>2. next[t] \in 0 .. NumUes /\ StartIdx(t) <= next[t] /\ StartIdx(t) \in Nat /\ EndIdx(t) \in Nat
  BY RangeOf DEF TypeOK, InRange
<1>3. \A u \in Threads : u # t =>
        RequestedBy(u)' = RequestedBy(u) /\ SampledBy(u)' = SampledBy(u) /\ DoneBy(u)' = DoneBy(u)
  BY <1>1 DEF RequestedBy, SampledBy, DoneBy, TypeOK
<1>4. next'[t] = next[t] + 1 /\ place'[t] = "loop"
  BY <1>1 DEF TypeOK
<1>5. /\ DoneBy(t)' = DoneBy(t) \cup {next[t]}
      /\ RequestedBy(t)' = RequestedBy(t) /\ SampledBy(t)' = SampledBy(t)
  BY <1>1, <1>2, <1>4, SimulatorAssumption DEF RequestedBy, SampledBy, DoneBy
<1>6. next[t] \notin DoneBy(t)
  BY <1>1, <1>2 DEF DoneBy
<1>7. \A u \in Threads : u # t /\ Benchmark(u) = Benchmark(t) => next[t] \notin DoneBy(u)
  BY <1>1, OwnUe
<1>8. next[t] \notin DoneIn(Benchmark(t))
  BY <1>6, <1>7 DEF DoneIn
<1>9. DoneIn(b)' = IF b = Benchmark(t) THEN DoneIn(b) \cup {next[t]} ELSE DoneIn(b)
  BY <1>2, <1>3, <1>5 DEF DoneIn
<1>10. RequestedIn(b)' = RequestedIn(b) /\ SampledIn(b)' = SampledIn(b)
  BY <1>3, <1>5 DEF RequestedIn, SampledIn
<1> QED
  BY <1>8, <1>9, <1>10

LEMMA SetsFinite ==
  ASSUME NEW b \in Benchmarks
  PROVE  /\ IsFiniteSet(SampledIn(b)) /\ Cardinality(SampledIn(b)) \in Nat
         /\ IsFiniteSet(DoneIn(b)) /\ Cardinality(DoneIn(b)) \in Nat
<1>1. IsFiniteSet(0 .. NumUes)
  BY FS_Interval, SimulatorAssumption
<1>2. SampledIn(b) \subseteq 0 .. NumUes /\ DoneIn(b) \subseteq 0 .. NumUes
  BY DEF SampledIn, DoneIn
<1> QED
  BY <1>1, <1>2, FS_Subset, FS_CardinalityType

LEMMA CallsInvariant ==
  ASSUME IInv, StatisticsExact, NEW t \in Threads, Calls(t)
  PROVE  IInv' /\ StatisticsExact'
<1> USE DEF IInv
<1>0. Benchmark(t) \in Benchmarks /\ Ue(t, next[t]) \in Ues /\ next[t] \in 0 .. NumUes
  BY UeTyped DEF Benchmark, Benchmarks, TypeOK
<1>1. TypeOK'
  BY <1>0 DEF Calls, Call, Goes, TypeOK
<1>2. InRange'
  BY DEF Calls, Goes, InRange, TypeOK
<1>3. NotBegun'
  BY Phases DEF Calls, Goes, At, NotBegun, TypeOK
<1>4. RequestsExact'
  <2> SUFFICES ASSUME NEW b \in Benchmarks, NEW i \in 0 .. NumUes
               PROVE  requests'[<<b, i>>] = IF i \in RequestedIn(b)' THEN 1 ELSE 0
    BY DEF RequestsExact
  <2>1. requests' = [requests EXCEPT ![<<Benchmark(t), next[t]>>] = @ + 1]
    BY DEF Calls, Ue
  <2>2. <<b, i>> \in Ues
    BY DEF Ues, Benchmarks
  <2>3. requests[<<b, i>>] = IF i \in RequestedIn(b) THEN 1 ELSE 0
    BY DEF RequestsExact
  <2>4. /\ RequestedIn(b)' = IF b = Benchmark(t) THEN RequestedIn(b) \cup {next[t]} ELSE RequestedIn(b)
        /\ next[t] \notin RequestedIn(Benchmark(t))
    BY CallsSets
  <2>5. CASE b = Benchmark(t) /\ i = next[t]
    BY <2>1, <2>2, <2>3, <2>4, <2>5 DEF TypeOK
  <2>6. CASE ~ (b = Benchmark(t) /\ i = next[t])
    <3>1. requests'[<<b, i>>] = requests[<<b, i>>]
      BY <2>1, <2>2, <2>6 DEF TypeOK
    <3> QED
      BY <2>3, <2>4, <2>6, <3>1
  <2> QED
    BY <2>5, <2>6
<1>5. WinsOnce'
  <2>1. \A u \in Threads, ue \in Ues : Wins(u, ue)' => Wins(u, ue)
    BY DEF Calls, Goes, Wins, TypeOK
  <2>2. UNCHANGED <<counted, registered>>
    BY DEF Calls
  <2> QED
    BY <2>1, <2>2 DEF WinsOnce
<1>6. StatisticsExact'
  <2>1. UNCHANGED <<phase, latencies, success>>
    BY DEF Calls
  <2>2. \A b \in Benchmarks : SampledIn(b)' = SampledIn(b) /\ DoneIn(b)' = DoneIn(b)
    BY CallsSets
  <2> QED
    BY <2>1, <2>2 DEF StatisticsExact
<1> QED
  BY <1>1, <1>2, <1>3, <1>4, <1>5, <1>6

LEMMA KeepsInvariant ==
  ASSUME IInv, StatisticsExact, NEW t \in Threads, KeepsLatency(t)
  PROVE  IInv' /\ StatisticsExact'
<1> USE DEF IInv
<1>0. phase = Benchmark(t) /\ phase \in Benchmarks
  BY DEF KeepsLatency, At, Benchmark, Benchmarks
<1>1. TypeOK'
  BY DEF KeepsLatency, Sampled, Goes, TypeOK
<1>2. InRange'
  BY DEF KeepsLatency, Goes, At, InRange, TypeOK
<1>3. NotBegun'
  BY Phases DEF KeepsLatency, Goes, At, NotBegun, TypeOK
<1>4. RequestsExact'
  <2>1. requests' = requests /\ \A b \in Benchmarks : RequestedIn(b)' = RequestedIn(b)
    BY KeepsSets DEF KeepsLatency
  <2> QED
    BY <2>1 DEF RequestsExact
<1>5. WinsOnce'
  <2>1. \A u \in Threads, ue \in Ues : Wins(u, ue)' => Wins(u, ue)
    BY DEF KeepsLatency, At, Goes, Wins, TypeOK
  <2>2. UNCHANGED <<counted, registered>>
    BY DEF KeepsLatency
  <2> QED
    BY <2>1, <2>2 DEF WinsOnce
<1>6. StatisticsExact'
  <2>1. phase' = phase /\ success' = success /\ latencies' = latencies + 1
    BY DEF KeepsLatency, Sampled
  <2>2. /\ SampledIn(phase)' = SampledIn(phase) \cup {next[t]} /\ next[t] \notin SampledIn(phase)
        /\ DoneIn(phase)' = DoneIn(phase)
    BY <1>0, KeepsSets, <2>1
  <2>3. Cardinality(SampledIn(phase) \cup {next[t]}) = Cardinality(SampledIn(phase)) + 1
    BY <1>0, <2>2, SetsFinite, FS_AddElement
  <2> QED
    BY <1>0, <2>1, <2>2, <2>3 DEF StatisticsExact
<1> QED
  BY <1>1, <1>2, <1>3, <1>4, <1>5, <1>6

(* The UE a thread counts is not won by any other thread.                  *)
LEMMA CountsInvariant ==
  ASSUME IInv, StatisticsExact, NEW t \in Threads, CountsSuccess(t)
  PROVE  IInv' /\ StatisticsExact'
<1> USE DEF IInv
<1>0. /\ phase = Benchmark(t) /\ phase \in Benchmarks
      /\ place[t] = "count" /\ next[t] < EndIdx(t)
      /\ next[t] \in Nat /\ StartIdx(t) \in Nat /\ EndIdx(t) \in Nat /\ EndIdx(t) <= NumUes
      /\ Ue(t, next[t]) \in Ues
  BY RangeOf, UeTyped DEF CountsSuccess, At, Benchmark, Benchmarks, InRange, TypeOK
<1>1. /\ next' = [next EXCEPT ![t] = @ + 1] /\ place' = [place EXCEPT ![t] = "loop"]
      /\ next'[t] = next[t] + 1 /\ place'[t] = "loop"
  BY DEF CountsSuccess, Goes, TypeOK
<1>2. TypeOK'
  <2>1. next' \in [Threads -> 0 .. NumUes] /\ place' \in [Threads -> {"loop", "call", "sample", "count"}]
    BY <1>0, <1>1, SimulatorAssumption DEF TypeOK
  <2>2. success' \in Nat /\ counted' \in [Ues -> Nat]
    BY <1>0 DEF CountsSuccess, TypeOK
  <2> QED
    BY <2>1, <2>2 DEF CountsSuccess, TypeOK
<1>3. InRange'
  BY <1>0, <1>1 DEF InRange, TypeOK
<1>4. NotBegun'
  BY Phases DEF CountsSuccess, Goes, At, NotBegun, TypeOK
<1>5. RequestsExact'
  <2>1. requests' = requests /\ \A b \in Benchmarks : RequestedIn(b)' = RequestedIn(b)
    BY CountsSets DEF CountsSuccess
  <2> QED
    BY <2>1 DEF RequestsExact
<1>6. WinsOnce'
  <2> SUFFICES ASSUME NEW ue \in Ues
               PROVE  /\ counted'[ue] <= 1
                      /\ counted'[ue] = 1 => ue \in registered'
                      /\ \A u \in Threads : Wins(u, ue)' => ue \in registered' /\ counted'[ue] = 0
    BY DEF WinsOnce
  <2>1. registered' = registered /\ accepted' = accepted
    BY DEF CountsSuccess
  <2>2. \A u \in Threads : Wins(u, ue)' => Wins(u, ue) /\ u # t
    BY <1>1, <2>1 DEF Wins, TypeOK
  <2>3. ASSUME NEW u \in Threads, u # t, Wins(u, ue)
        PROVE  Ue(t, next[t]) # ue
    <3>1. Ue(u, next[u]) = ue /\ place[u] # "loop"
      BY <2>3 DEF Wins
    <3>2. next[u] < EndIdx(u)
      BY <3>1 DEF InRange
    <3>3. Benchmark(u) = Benchmark(t) => next[t] # next[u]
      BY <1>0, <2>3, <3>2, OwnUe
    <3> QED
      BY <3>1, <3>3 DEF Ue
  <2>4. CASE accepted[t]
    <3>1. counted' = [counted EXCEPT ![Ue(t, next[t])] = @ + 1]
      BY <2>4 DEF CountsSuccess
    <3>2. CASE ue = Ue(t, next[t])
      <4>1. Wins(t, ue)
        BY <1>0, <2>4, <3>2 DEF Wins
      <4>2. counted[ue] = 0 /\ ue \in registered
        BY <4>1 DEF WinsOnce
      <4>3. counted'[ue] = 1
        BY <3>1, <3>2, <4>2 DEF TypeOK
      <4> QED
        BY <2>1, <2>2, <2>3, <3>2, <4>2, <4>3
    <3>3. CASE ue # Ue(t, next[t])
      <4>1. counted'[ue] = counted[ue]
        BY <1>0, <3>1, <3>3 DEF TypeOK
      <4> QED
        BY <2>1, <2>2, <4>1 DEF WinsOnce
    <3> QED
      BY <3>2, <3>3
  <2>5. CASE ~ accepted[t]
    <3>1. counted' = counted
      BY <2>5 DEF CountsSuccess
    <3> QED
      BY <2>1, <2>2, <3>1 DEF WinsOnce
  <2> QED
    BY <2>4, <2>5
<1>7. StatisticsExact'
  <2>1. phase' = phase /\ latencies' = latencies /\ success' \in {success, success + 1}
    BY DEF CountsSuccess
  <2>2. /\ DoneIn(phase)' = DoneIn(phase) \cup {next[t]} /\ next[t] \notin DoneIn(phase)
        /\ SampledIn(phase)' = SampledIn(phase)
    BY <1>0, CountsSets, <2>1
  <2>3. Cardinality(DoneIn(phase) \cup {next[t]}) = Cardinality(DoneIn(phase)) + 1
    BY <1>0, <2>2, SetsFinite, FS_AddElement
  <2>4. success \in Nat /\ Cardinality(DoneIn(phase)) \in Nat
    BY <1>0, SetsFinite DEF TypeOK
  <2> QED
    BY <1>0, <2>1, <2>2, <2>3, <2>4 DEF StatisticsExact
<1> QED
  BY <1>2, <1>3, <1>4, <1>5, <1>6, <1>7

(* A reply, or an error, comes back; only the AMF makes it a success, and  *)
(* only of a UE it has not registered before.                              *)
LEMMA ReturnsInvariant ==
  ASSUME IInv, StatisticsExact, NEW k, NEW ok \in BOOLEAN, Returns(k, ok),
         calls' \subseteq calls,
         registered \subseteq registered', registered' \subseteq Ues,
         ok => k.ue \notin registered /\ k.ue \in registered'
  PROVE  IInv' /\ StatisticsExact'
<1> USE DEF IInv
<1> DEFINE callers == {t \in Threads : At(t, "call") /\ Call(t) = k}
<1>0. /\ place' = [t \in Threads |-> IF t \in callers THEN "sample" ELSE place[t]]
      /\ accepted' = [t \in Threads |-> IF t \in callers THEN ok ELSE accepted[t]]
      /\ UNCHANGED <<pod, phase, next, latencies, success, requests, counted>>
  BY DEF Returns
<1>1. \A t \in callers : phase = Benchmark(t) /\ place[t] = "call" /\ Ue(t, next[t]) = k.ue
  BY DEF At, Call
<1> HIDE DEF callers
<1>2. TypeOK'
  <2>1. place' \in [Threads -> {"loop", "call", "sample", "count"}]
    BY <1>0 DEF TypeOK
  <2>2. accepted' \in [Threads -> BOOLEAN]
    BY <1>0, Zenon DEF TypeOK
  <2>3. \A c \in calls' : c.pod \in 0 .. pod' /\ c.ue \in Ues
    BY <1>0 DEF TypeOK
  <2> QED
    BY <1>0, <2>1, <2>2, <2>3 DEF TypeOK
<1>3. InRange'
  BY <1>0, <1>1 DEF InRange
<1>4. NotBegun'
  BY <1>0, <1>1, Phases DEF NotBegun
<1>5. \A t \in Threads :
        RequestedBy(t)' = RequestedBy(t) /\ SampledBy(t)' = SampledBy(t) /\ DoneBy(t)' = DoneBy(t)
  BY <1>0, <1>1 DEF RequestedBy, SampledBy, DoneBy
<1>6. \A b \in Benchmarks :
        RequestedIn(b)' = RequestedIn(b) /\ SampledIn(b)' = SampledIn(b) /\ DoneIn(b)' = DoneIn(b)
  BY <1>5 DEF RequestedIn, SampledIn, DoneIn
<1>7. RequestsExact' /\ StatisticsExact'
  BY <1>0, <1>6 DEF RequestsExact, StatisticsExact
<1>8. WinsOnce'
  <2> SUFFICES ASSUME NEW ue \in Ues
               PROVE  /\ counted'[ue] <= 1
                      /\ counted'[ue] = 1 => ue \in registered'
                      /\ \A t \in Threads : Wins(t, ue)' => ue \in registered' /\ counted'[ue] = 0
    BY DEF WinsOnce
  <2>1. ASSUME NEW t \in Threads, Wins(t, ue)'
        PROVE  ue \in registered' /\ counted'[ue] = 0
    <3>1. CASE t \in callers
      <4>1. Ue(t, next[t]) = ue /\ accepted'[t]
        BY <1>0, <2>1 DEF Wins
      <4>2. accepted'[t] = ok
        BY <1>0, <3>1
      <4>3. ue = k.ue /\ ok
        BY <1>1, <3>1, <4>1, <4>2
      <4>4. ue \notin registered /\ ue \in registered'
        BY <4>3
      <4>5. counted[ue] \in Nat /\ counted[ue] <= 1 /\ counted[ue] # 1
        BY <4>4 DEF WinsOnce, TypeOK
      <4> QED
        BY <1>0, <4>4, <4>5
    <3>2. CASE t \notin callers
      <4>1. Wins(t, ue)
        BY <1>0, <2>1, <3>2 DEF Wins
      <4> QED
        BY <1>0, <4>1 DEF WinsOnce
    <3> QED
      BY <3>1, <3>2
  <2> QED
    BY <1>0, <2>1 DEF WinsOnce
<1> QED
  BY <1>2, <1>3, <1>4, <1>7, <1>8

LEMMA AmfInvariant ==
  ASSUME IInv, StatisticsExact, NEW k \in calls, AmfAccepts(k) \/ AmfRefuses(k)
  PROVE  IInv' /\ StatisticsExact'
<1>1. k.ue \in Ues /\ registered \subseteq Ues
  BY DEF IInv, TypeOK
<1>2. CASE AmfAccepts(k)
  <2>1. /\ Returns(k, TRUE) /\ calls' \subseteq calls
        /\ registered' = registered \cup {k.ue} /\ k.ue \notin registered
    BY <1>2 DEF AmfAccepts, Duplicate
  <2> QED
    BY <1>1, <2>1, ReturnsInvariant
<1>3. CASE AmfRefuses(k)
  <2>1. Returns(k, FALSE) /\ calls' \subseteq calls /\ registered' = registered
    BY <1>3 DEF AmfRefuses
  <2> QED
    BY <1>1, <2>1, ReturnsInvariant
<1> QED
  BY <1>2, <1>3

LEMMA BreaksInvariant ==
  ASSUME IInv, StatisticsExact, NEW t \in Threads, CallBreaks(t)
  PROVE  IInv' /\ StatisticsExact'
<1>1. Returns(Call(t), FALSE) /\ calls' = calls /\ registered' = registered
  BY DEF CallBreaks
<1>2. registered \subseteq Ues
  BY DEF IInv, TypeOK
<1> QED
  BY <1>1, <1>2, ReturnsInvariant

LEMMA ClassifiesInvariant ==
  ASSUME IInv, StatisticsExact, Classifies
  PROVE  IInv' /\ StatisticsExact'
<1> USE DEF IInv
<1>1. /\ phase = "classification"
      /\ UNCHANGED <<pod, phase, place, next, accepted, requests, calls, registered, counted>>
      /\ latencies' = latencies + 1 /\ success' \in {success, success + 1}
  BY DEF Classifies
<1>2. TypeOK'
  BY <1>1 DEF TypeOK
<1>3. InRange' /\ NotBegun' /\ StatisticsExact'
  BY <1>1 DEF InRange, NotBegun, StatisticsExact, Benchmarks
<1>4. RequestsExact'
  <2>1. \A t \in Threads : RequestedBy(t)' = RequestedBy(t)
    BY <1>1 DEF RequestedBy
  <2>2. \A b \in Benchmarks : RequestedIn(b)' = RequestedIn(b)
    BY <2>1 DEF RequestedIn
  <2> QED
    BY <1>1, <2>2 DEF RequestsExact
<1>5. WinsOnce'
  BY <1>1 DEF WinsOnce, Wins
<1> QED
  BY <1>2, <1>3, <1>4, <1>5

(* What a phase that is over says of its threads, and that the last one    *)
(* has no end.                                                             *)
LEMMA OverByPhase ==
  ASSUME PhaseOver
  PROVE  /\ phase = "sequential" => Finished(Main)
         /\ phase = "concurrent" => \A t \in AsyncThreads : Finished(t)
         /\ phase # "ended"
<1>1. phase = "sequential" => Finished(Main)
  BY Zenon DEF PhaseOver
<1>2. phase = "concurrent" => \A t \in AsyncThreads : Finished(t)
  BY Zenon DEF PhaseOver
<1>3. phase # "ended"
  BY Zenon DEF PhaseOver
<1> QED
  BY <1>1, <1>2, <1>3

(* The concurrent benchmark begins with no sample of its own.              *)
LEMMA NextPhaseInvariant ==
  ASSUME IInv, StatisticsExact, NextPhase
  PROVE  IInv' /\ StatisticsExact'
<1> USE DEF IInv
<1>1. /\ UNCHANGED <<pod, place, next, accepted, requests, calls, registered, counted>>
      /\ latencies' = 0 /\ success' = 0
  BY DEF NextPhase
<1>2. \/ phase = "sequential" /\ phase' = "concurrent"
      \/ phase = "concurrent" /\ phase' = "classification"
      \/ phase = "classification" /\ phase' = "ended"
  BY OverByPhase DEF NextPhase, PhaseAfter, TypeOK
<1>3. TypeOK'
  BY <1>1, <1>2 DEF TypeOK
<1>4. InRange' /\ NotBegun'
  BY <1>1, <1>2 DEF InRange, NotBegun
<1>5. RequestsExact'
  <2>1. \A t \in Threads : RequestedBy(t)' = RequestedBy(t)
    BY <1>1 DEF RequestedBy
  <2>2. \A b \in Benchmarks : RequestedIn(b)' = RequestedIn(b)
    BY <2>1 DEF RequestedIn
  <2> QED
    BY <1>1, <2>2 DEF RequestsExact
<1>6. WinsOnce'
  BY <1>1 DEF WinsOnce, Wins
<1>7. StatisticsExact'
  <2>1. CASE phase = "sequential"
    <3>1. \A t \in Threads : Benchmark(t) = "concurrent" => SampledBy(t)' = {} /\ DoneBy(t)' = {}
      BY <1>1, <2>1, Phases, RangeOf DEF NotBegun, SampledBy, DoneBy
    <3>2. SampledIn("concurrent")' = {} /\ DoneIn("concurrent")' = {}
      BY <3>1 DEF SampledIn, DoneIn
    <3> QED
      BY <1>1, <1>2, <2>1, <3>2, FS_EmptySet DEF StatisticsExact
  <2>2. CASE phase # "sequential"
    BY <1>2, <2>2 DEF StatisticsExact, Benchmarks
  <2> QED
    BY <2>1, <2>2
<1> QED
  BY <1>3, <1>4, <1>5, <1>6, <1>7

(* Another pod starts from the beginning; what its predecessors counted    *)
(* stays counted.                                                          *)
LEMMA PodFailsInvariant ==
  ASSUME IInv, StatisticsExact, PodFails
  PROVE  IInv' /\ StatisticsExact'
<1> USE DEF IInv
<1>1. \A t \in Threads : /\ next'[t] = StartIdx(t) /\ place'[t] = "loop"
                         /\ StartIdx(t) \in 0 .. NumUes /\ StartIdx(t) \in StartIdx(t) .. EndIdx(t)
  BY RangeOf, SimulatorAssumption DEF PodFails, NextAtStart, Everywhere
<1>2. TypeOK'
  <2>1. pod' \in 0 .. BackoffLimit /\ 0 .. pod \subseteq 0 .. pod'
    BY SimulatorAssumption DEF PodFails, TypeOK
  <2>2. /\ place' \in [Threads -> {"loop", "call", "sample", "count"}]
        /\ next' \in [Threads -> 0 .. NumUes]
        /\ accepted' \in [Threads -> BOOLEAN]
    BY <1>1 DEF PodFails, NextAtStart, Everywhere
  <2>3. requests' \in [Ues -> Nat]
    BY DEF PodFails, NoRequests
  <2> QED
    BY <2>1, <2>2, <2>3 DEF PodFails, TypeOK
<1>3. InRange' /\ NotBegun'
  BY <1>1, Phases DEF InRange, NotBegun
<1>4. \A b \in Benchmarks : RequestedIn(b)' = {} /\ SampledIn(b)' = {} /\ DoneIn(b)' = {}
  BY <1>1 DEF RequestedIn, RequestedBy, SampledIn, SampledBy, DoneIn, DoneBy
<1>5. RequestsExact'
  BY <1>4 DEF PodFails, NoRequests, Ues, Benchmarks, RequestsExact
<1>6. WinsOnce'
  <2>1. \A t \in Threads, ue \in Ues : ~ Wins(t, ue)'
    BY <1>1 DEF Wins
  <2> QED
    BY <2>1 DEF PodFails, WinsOnce
<1>7. StatisticsExact'
  <2>1. latencies' = 0 /\ success' = 0 /\ phase' = "sequential"
    BY DEF PodFails
  <2> QED
    BY <1>4, <2>1, FS_EmptySet DEF StatisticsExact
<1> QED
  BY <1>2, <1>3, <1>5, <1>6, <1>7

LEMMA NextInvariant ==
  ASSUME IInv, StatisticsExact, [Next]_vars
  PROVE  IInv' /\ StatisticsExact'
<1>1. CASE UNCHANGED vars
  BY <1>1
     DEF vars, podVars, IInv, TypeOK, InRange, NotBegun, RequestsExact, RequestedIn, RequestedBy,
         WinsOnce, Wins, StatisticsExact, SampledIn, SampledBy, DoneIn, DoneBy
<1>2. ASSUME NEW t \in Threads, ThreadStep(t) \/ CallBreaks(t)
      PROVE  IInv' /\ StatisticsExact'
  BY <1>2, CallsInvariant, KeepsInvariant, CountsInvariant, BreaksInvariant DEF ThreadStep
<1> QED
  BY <1>1, <1>2, AmfInvariant, ClassifiesInvariant, NextPhaseInvariant, PodFailsInvariant DEF Next

LEMMA Invariant == Spec => [](IInv /\ StatisticsExact)
<1>1. Init => IInv /\ StatisticsExact
  BY InitInvariant
<1>2. IInv /\ StatisticsExact /\ [Next]_vars => IInv' /\ StatisticsExact'
  BY NextInvariant
<1> QED
  BY <1>1, <1>2, PTL DEF Spec

(***************************************************************************)
(* The theorems.                                                           *)
(***************************************************************************)
(* However many threads share the UEs, no pod requests one twice.          *)
THEOREM UesRequestedOnce == Spec => []RequestedOncePerPod
<1>1. IInv => RequestedOncePerPod
  BY DEF IInv, RequestsExact, RequestedOncePerPod, Ues, Benchmarks
<1> QED
  BY <1>1, Invariant, PTL

(* However many pods repeat the requests, and however late the calls of    *)
(* one that failed arrive, no UE is counted as a success twice.            *)
THEOREM UesCountedOnce == Spec => []CountedOnce
<1>1. IInv => CountedOnce
  BY DEF IInv, WinsOnce, CountedOnce
<1> QED
  BY <1>1, Invariant, PTL

(* A benchmark that is over has requested, and has a latency of, the UEs   *)
(* of its range.                                                           *)
RangeEnd(b) == IF b = "sequential" THEN NumUes ELSE NumThreads * UesPerThread

LEMMA OverSets ==
  ASSUME IInv, PhaseOver, phase \in Benchmarks
  PROVE  /\ RequestedIn(phase) = 0 .. RangeEnd(phase) - 1
         /\ SampledIn(phase) = 0 .. RangeEnd(phase) - 1
         /\ DoneIn(phase) = 0 .. RangeEnd(phase) - 1
<1> USE DEF IInv
<1>1. \A t \in Threads :
        Benchmark(t) = phase =>
          /\ place[t] = "loop"
          /\ RequestedBy(t) = StartIdx(t) .. EndIdx(t) - 1
          /\ SampledBy(t) = RequestedBy(t) /\ DoneBy(t) = RequestedBy(t)
  <2> SUFFICES ASSUME NEW t \in Threads, Benchmark(t) = phase
               PROVE  /\ place[t] = "loop"
                      /\ RequestedBy(t) = StartIdx(t) .. EndIdx(t) - 1
                      /\ SampledBy(t) = RequestedBy(t) /\ DoneBy(t) = RequestedBy(t)
    OBVIOUS
  <2>1. Finished(t)
    BY OverByPhase, Phases DEF Benchmarks
  <2>2. /\ place[t] = "loop" /\ next[t] = EndIdx(t)
        /\ StartIdx(t) \in Nat /\ EndIdx(t) \in Nat /\ EndIdx(t) <= NumUes
    BY <2>1, RangeOf DEF Finished, InRange, TypeOK
  <2> QED
    BY <2>2, SimulatorAssumption DEF RequestedBy, SampledBy, DoneBy
<1>2. SampledIn(phase) = RequestedIn(phase) /\ DoneIn(phase) = RequestedIn(phase)
  BY <1>1 DEF RequestedIn, SampledIn, DoneIn
<1>3. \A i : i \in RequestedIn(phase) <=>
               i \in 0 .. NumUes /\ \E t \in Threads : Benchmark(t) = phase
                                                       /\ i \in StartIdx(t) .. EndIdx(t) - 1
  BY <1>1 DEF RequestedIn
<1>4. CASE phase = "sequential"
  <2>1. StartIdx(Main) = 0 /\ EndIdx(Main) = NumUes
    BY DEF StartIdx, EndIdx
  <2>2. \A t \in Threads : Benchmark(t) = phase <=> t = Main
    BY <1>4, Phases
  <2>3. RequestedIn(phase) = 0 .. NumUes - 1
    <3>1. \A i : i \in RequestedIn(phase) <=> i \in 0 .. NumUes /\ i \in 0 .. NumUes - 1
      BY <1>3, <2>1, <2>2, Phases
    <3> DEFINE ues == 0 .. NumUes - 1
    <3>2. \A i : i \in RequestedIn(phase) <=> i \in ues
      BY <3>1, SimulatorAssumption
    <3> HIDE DEF ues
    <3>3. RequestedIn(phase) = ues
      BY <3>2
    <3> QED
      BY <3>3 DEF ues
  <2> QED
    BY <1>2, <1>4, <2>3 DEF RangeEnd
<1>5. CASE phase = "concurrent"
  <2>1. \A t \in Threads : Benchmark(t) = phase <=> t \in AsyncThreads
    BY <1>5, Phases
  <2>2. \A t \in AsyncThreads :
          /\ StartIdx(t) \in Nat /\ EndIdx(t) \in Nat
          /\ EndIdx(t) <= NumThreads * UesPerThread
    <3> SUFFICES ASSUME NEW t \in AsyncThreads
                 PROVE  /\ StartIdx(t) \in Nat /\ EndIdx(t) \in Nat
                        /\ EndIdx(t) <= NumThreads * UesPerThread
      OBVIOUS
    <3> DEFINE n == UesPerThread
    <3>1. t \in Nat /\ t + 1 <= NumThreads /\ n \in Nat
      BY Quotient, SimulatorAssumption DEF AsyncThreads
    <3>2. EndIdx(t) = t * n + n
      BY Phases DEF EndIdx, StartIdx
    <3> HIDE DEF n
    <3>3. t * n + n <= NumThreads * n
      BY <3>1, SimulatorAssumption
    <3> QED
      BY <3>2, <3>3, RangeOf, Phases DEF n
  <2>3. RequestedIn(phase) = 0 .. NumThreads * UesPerThread - 1
    <3>1. \A i : i \in RequestedIn(phase) <=>
                   i \in 0 .. NumUes /\ \E t \in AsyncThreads : i \in StartIdx(t) .. EndIdx(t) - 1
      BY <1>3, <2>1, Phases
    <3> DEFINE ues == 0 .. NumThreads * UesPerThread - 1
    <3>2. ASSUME NEW i \in RequestedIn(phase)
          PROVE  i \in ues
      <4>1. PICK t \in AsyncThreads : i \in StartIdx(t) .. EndIdx(t) - 1
        BY <3>1
      <4>2. i \in Nat /\ i < NumThreads * UesPerThread
        BY <2>2, <4>1, Quotient
      <4> QED
        BY <4>2, Quotient
    <3>3. ASSUME NEW i \in ues
          PROVE  i \in RequestedIn(phase)
      <4>1. i \in 0 .. NumUes
        BY Quotient, SimulatorAssumption
      <4>2. PICK t \in AsyncThreads : StartIdx(t) <= i /\ i < EndIdx(t)
        BY RangesCover
      <4>3. i \in StartIdx(t) .. EndIdx(t) - 1
        BY <2>2, <4>1, <4>2
      <4> QED
        BY <3>1, <4>1, <4>3
    <3> HIDE DEF ues
    <3>4. RequestedIn(phase) = ues
      BY <3>2, <3>3
    <3> QED
      BY <3>4 DEF ues
  <2> QED
    BY <1>2, <1>5, <2>3 DEF RangeEnd
<1> QED
  BY <1>4, <1>5 DEF Benchmarks

(* The statistics of a benchmark that is over are of all its requests, as  *)
(* many as its threads have UEs.                                           *)
THEOREM StatisticsAreComplete == Spec => []StatisticsComplete
<1>1. ASSUME IInv, StatisticsExact
      PROVE  StatisticsComplete
  <2> SUFFICES ASSUME PhaseOver, phase \in Benchmarks
               PROVE  LET made == {ue \in Ues : ue[1] = phase /\ requests[ue] > 0}
                      IN  /\ latencies = Cardinality(made)
                          /\ latencies = IF phase = "sequential" THEN NumUes
                                         ELSE NumThreads * UesPerThread
                          /\ success <= latencies
    BY DEF StatisticsComplete, Benchmarks
  <2> DEFINE made == {ue \in Ues : ue[1] = phase /\ requests[ue] > 0}
             indices == 0 .. RangeEnd(phase) - 1
  <2>1. RangeEnd(phase) \in Nat /\ RangeEnd(phase) <= NumUes
    BY Quotient, SimulatorAssumption DEF RangeEnd
  <2>2. RequestedIn(phase) = indices /\ SampledIn(phase) = indices /\ DoneIn(phase) = indices
    BY <1>1, OverSets
  <2>3. IsFiniteSet(indices) /\ Cardinality(indices) = RangeEnd(phase)
    BY <2>1, FS_Interval
  <2>4. latencies = RangeEnd(phase) /\ success <= RangeEnd(phase)
    BY <1>1, <2>2, <2>3 DEF StatisticsExact
  <2>5. made = {<<phase, i>> : i \in indices}
    <3>1. \A i \in 0 .. NumUes :
            requests[<<phase, i>>] = IF i \in RequestedIn(phase) THEN 1 ELSE 0
      BY <1>1 DEF IInv, RequestsExact
    <3>2. \A i \in 0 .. NumUes : <<phase, i>> \in Ues /\ <<phase, i>>[1] = phase
      BY DEF Ues, Benchmarks
    <3>3. \A ue \in Ues : ue[1] = phase => \E i \in 0 .. NumUes : ue = <<phase, i>>
      BY DEF Ues
    <3> HIDE DEF indices
    <3>4. \A i \in 0 .. NumUes : requests[<<phase, i>>] > 0 <=> i \in indices
      BY <2>2, <3>1
    <3>5. indices \subseteq 0 .. NumUes
      BY <2>1, SimulatorAssumption DEF indices
    <3> QED
      BY <3>2, <3>3, <3>4, <3>5
  <2>6. Cardinality(made) = Cardinality(indices)
    <3> DEFINE pair == [i \in indices |-> <<phase, i>>]
    <3>1. pair \in Bijection(indices, made)
      <4>1. pair \in [indices -> made] /\ \A y \in made : \E i \in indices : pair[i] = y
        BY <2>5
      <4>2. \A i, j \in indices : pair[i] = pair[j] => i = j
        OBVIOUS
      <4> HIDE DEF pair, made, indices
      <4> QED
        BY <4>1, <4>2 DEF Bijection, Injection, IsInjective, Surjection
    <3> QED
      BY <2>3, <3>1, FS_Bijection DEF ExistsBijection
  <2> QED
    BY <2>3, <2>4, <2>6 DEF RangeEnd
<1> QED
  BY <1>1, Invariant, PTL
===============================================================================
