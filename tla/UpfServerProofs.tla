---------------------------- MODULE UpfServerProofs ----------------------------
(***************************************************************************)
(* Proofs about UpfServer, for any number of calls, packets, workers,      *)
(* sessions and scrapes, with and without the pool.                        *)
(***************************************************************************)
EXTENDS UpfServer, FiniteSetTheorems, TLAPS

(***************************************************************************)
(* The inductive invariant.                                                *)
(***************************************************************************)
(* The table of sessions, in which every session is active.                *)
SessionsInv ==
  /\ sessionIdCounter \in Nat \ {0}
  /\ DOMAIN sessions \subseteq 1 .. sessionIdCounter - 1
  /\ \A id \in DOMAIN sessions :
       sessions[id].ueIp \in UeIps /\ sessions[id].qosProfile \in QosProfiles
         /\ sessions[id].active
  /\ \A ip \in DOMAIN ueToSession :
       ueToSession[ip] \in DOMAIN sessions /\ sessions[ueToSession[ip]].ueIp = ip

Judged(v) == \E action \in {"FORWARD", "DROP"}, qos \in QosProfiles \cup {0} : v = Verdict(action, qos)

(* Where the handler of a call is, where its classification is and what    *)
(* the two have left in its variables.                                     *)
CallInv(c) ==
  /\ (handler[c] = "absent") = (packet[c] = None)
  /\ (step[c] = "none") = (handler[c] \in {"absent", "dispatch"})
  /\ step[c] \in {"none", "queued", "lookup"} => verdict[c] = None
  /\ step[c] \notin {"none", "queued", "lookup"} => Judged(verdict[c])
  /\ step[c] \in {"none", "queued", "lookup", "write"} => resp[c] = None
  /\ step[c] \in {"tally", "promise", "done"} => resp[c] = verdict[c]
  /\ step[c] \in {"queued", "promise"} => numThreads > 0
  /\ c \in promised => step[c] = "done"
  /\ step[c] = "done" /\ numThreads > 0 => c \in promised
  /\ handler[c] = "returned" => step[c] = "done"

CallsInv ==
  /\ DOMAIN verdict = Calls /\ DOMAIN resp = Calls
  /\ \A c \in Calls : CallInv(c)

(* The tasks of the pool that wait for a worker, each once.                *)
QueueInv ==
  /\ queue \in Seq(Calls)
  /\ \A i \in 1 .. Len(queue) : step[queue[i]] = "queued"
  /\ \A i, j \in 1 .. Len(queue) : queue[i] = queue[j] => i = j

(* Once Wait has returned no handler is left.                              *)
MainInv ==
  /\ main \in {"starting", "building", "started", "waiting", "draining", "reporting", "leaving",
               "exited", "crashed"}
  /\ main \notin {"started", "waiting", "draining"} => HandlersReturned

IInv == TypeOK /\ SessionsInv /\ CallsInv /\ QueueInv /\ MainInv

LEMMA VerdictIsSome == ASSUME NEW v, Judged(v) PROVE v # None /\ v.action \in {"FORWARD", "DROP"}
  BY ServerAssumption DEF Judged, Verdict

LEMMA InitInvariant == Init => IInv
<1> SUFFICES ASSUME Init PROVE IInv
  OBVIOUS
<1>1. TypeOK
  BY DEF Init, TypeOK
<1>2. SessionsInv
  BY DEF Init, Upf!Init, Upf!EmptyMap, SessionsInv
<1>3. CallsInv
  BY DEF Init, CallsInv, CallInv
<1>4. QueueInv
  BY DEF Init, Pool!Init, QueueInv
<1>5. MainInv
  BY DEF Init, Process!Init, MainInv, HandlersReturned
<1> QED
  BY <1>1, <1>2, <1>3, <1>4, <1>5 DEF IInv

(* What a classification finds is a verdict.                               *)
LEMMA ClassifyJudges ==
  ASSUME SessionsInv, NEW c \in Calls
  PROVE  Judged(Classify(c))
<1> DEFINE p == packet[c]
           qos == sessions[ueToSession[p.src]].qosProfile
<1>1. CASE p.src \in DOMAIN ueToSession
  <2>1. qos \in QosProfiles /\ Classify(c) = ProfileVerdict(p, qos)
    BY <1>1 DEF Classify, SessionsInv
  <2> QED
    BY <2>1 DEF ProfileVerdict, Judged
<1>2. CASE p.src \notin DOMAIN ueToSession
  BY <1>2 DEF Classify, NoSession, Judged
<1> QED
  BY <1>1, <1>2

(* An establishment and a release keep the table in shape.                 *)
LEMMA SessionsStep ==
  ASSUME SessionsInv, SessionHandler
  PROVE  SessionsInv'
<1>1. ASSUME NEW supi \in Supis, NEW ip \in UeIps, NEW qos \in QosProfiles,
             Upf!EstablishSession(supi, ip, qos)
      PROVE  SessionsInv'
  <2> DEFINE id == sessionIdCounter
  <2>1. /\ DOMAIN sessions' = DOMAIN sessions \cup {id}
        /\ sessions'[id] = Upf!NewSession(supi, ip, qos)
        /\ \A x \in DOMAIN sessions : x # id => sessions'[x] = sessions[x]
    BY <1>1 DEF Upf!EstablishSession, Upf!Put
  <2>2. /\ DOMAIN ueToSession' = DOMAIN ueToSession \cup {ip}
        /\ ueToSession'[ip] = id
        /\ \A x \in DOMAIN ueToSession : x # ip => ueToSession'[x] = ueToSession[x]
    BY <1>1 DEF Upf!EstablishSession, Upf!RoutesWith, Upf!Put
  <2>3. sessionIdCounter' = id + 1 /\ id \in Nat \ {0} /\ id \notin DOMAIN sessions
    BY <1>1 DEF Upf!EstablishSession, Upf!CounterAdvanced, SessionsInv
  <2> QED
    BY <2>1, <2>2, <2>3 DEF Upf!NewSession, SessionsInv
<1>2. ASSUME NEW id \in DOMAIN sessions, Upf!ReleaseSession(id)
      PROVE  SessionsInv'
  BY <1>2 DEF Upf!ReleaseSession, Upf!RoutesWithout, Upf!Erase, Upf!Restrict, SessionsInv
<1> QED
  BY <1>1, <1>2 DEF SessionHandler

(***************************************************************************)
(* The steps.                                                              *)
(***************************************************************************)
(* What the invariant says of the calls and the queue rests on these.      *)
LEMMA QuietStep ==
  ASSUME IInv, UNCHANGED <<callVars, queue, numThreads>>
  PROVE  CallsInv' /\ QueueInv' /\ HandlersReturned' = HandlersReturned
  BY DEF IInv, callVars, CallsInv, CallInv, QueueInv, HandlersReturned

(* The steps of handlers, sessions, scrapes and main that are no step of a *)
(* call's classification.                                                  *)
Quiet ==
  \/ SessionHandler \/ ScrapeReads \/ ScrapeEnds \/ ScrapeOfDestroyed
  \/ MainStarts \/ SignalStops \/ MainDrains \/ MainReports \/ PoolEnds \/ MainLeaves

LEMMA QuietInvariant ==
  ASSUME IInv, Quiet
  PROVE  IInv'
<1>1. UNCHANGED <<callVars, queue, numThreads, count>>
  BY DEF Quiet, SessionHandler, ScrapeReads, ScrapeEnds, ScrapeOfDestroyed, MainStarts, SignalStops,
         MainDrains, MainReports, PoolEnds, Pool!Close, Pool!Vanish, MainLeaves, serviceVars,
         poolVars, restVars
<1>2. CallsInv' /\ QueueInv' /\ HandlersReturned' = HandlersReturned
  BY <1>1, QuietStep
<1>3. TypeOK'
  BY <1>1 DEF IInv, TypeOK, callVars
<1>4. SessionsInv'
  <2>1. CASE SessionHandler
    BY <2>1, SessionsStep DEF IInv
  <2>2. CASE UNCHANGED upfVars
    BY <2>2 DEF upfVars, IInv, SessionsInv
  <2> QED
    BY <2>1, <2>2
       DEF Quiet, ScrapeReads, ScrapeEnds, ScrapeOfDestroyed, MainStarts, SignalStops, MainDrains,
           MainReports, PoolEnds, MainLeaves, serviceVars
<1>5. MainInv'
  BY <1>2
     DEF Quiet, SessionHandler, ScrapeReads, ScrapeEnds, ScrapeOfDestroyed, MainStarts, SignalStops,
         MainDrains, MainReports, PoolEnds, MainLeaves, restVars, IInv, MainInv,
         Process!StartExporter, Process!StartServer, Process!StartFails, Process!PublishServer,
         Process!ShutdownOnSignal, Process!WaitReturns, Process!Report, Process!LeaveMain,
         Process!Crash, Process!Moves, Process!Serving
<1> QED
  BY <1>2, <1>3, <1>4, <1>5 DEF IInv

(* A call arrives while the server serves, and is passed on once.          *)
LEMMA HandlerInvariant ==
  ASSUME IInv, NEW c \in Calls,
         (\E p \in Packets : ClassifyArrives(c, p)) \/ Dispatch(c) \/ ClassifyReturns(c)
  PROVE  IInv'
<1> USE DEF IInv
<1>0. UNCHANGED <<upfVars, main>> /\ UNCHANGED numThreads
  BY DEF ClassifyArrives, Dispatch, ClassifyReturns, restVars
<1>1. SessionsInv'
  BY <1>0 DEF upfVars, SessionsInv
<1>2. CASE \E p \in Packets : ClassifyArrives(c, p)
  <2>1. PICK p \in Packets : ClassifyArrives(c, p)
    BY <1>2
  <2>2. TypeOK'
    BY <2>1 DEF ClassifyArrives, Counted, restVars, TypeOK
  <2>3. CallsInv'
    BY <2>1, ServerAssumption DEF ClassifyArrives, restVars, CallsInv, CallInv, TypeOK
  <2>4. QueueInv'
    BY <2>1 DEF ClassifyArrives, poolVars, QueueInv
  <2>5. MainInv'
    BY <2>1, <1>0 DEF ClassifyArrives, Process!Serving, MainInv
  <2> QED
    BY <1>1, <2>2, <2>3, <2>4, <2>5
<1>3. CASE Dispatch(c)
  <2>1. TypeOK'
    BY <1>3 DEF Dispatch, restVars, TypeOK
  <2>2. CallsInv'
    BY <1>3, ServerAssumption DEF Dispatch, restVars, CallsInv, CallInv, TypeOK
  <2>3. QueueInv'
    <3>0. step[c] = "none"
      BY <1>3 DEF Dispatch, CallsInv, CallInv
    <3>1. CASE numThreads > 0
      <4>1. queue' = Append(queue, c) /\ step' = [step EXCEPT ![c] = "queued"]
        BY <1>3, <3>1 DEF Dispatch, Pool!Submit, TypeOK
      <4>2. \A i \in 1 .. Len(queue) : queue[i] # c
        BY <3>0 DEF QueueInv
      <4>3. /\ queue' \in Seq(Calls) /\ Len(queue') = Len(queue) + 1
            /\ \A i \in 1 .. Len(queue) : queue'[i] = queue[i]
            /\ queue'[Len(queue) + 1] = c
        BY <4>1 DEF QueueInv
      <4>4. step'[c] = "queued" /\ \A d \in Calls : d # c => step'[d] = step[d]
        BY <4>1 DEF TypeOK
      <4>5. Len(queue) \in Nat /\ \A i \in 1 .. Len(queue) : queue[i] \in Calls
        BY DEF QueueInv
      <4>6. \A i \in 1 .. Len(queue') : step'[queue'[i]] = "queued"
        BY <4>2, <4>3, <4>4, <4>5 DEF QueueInv
      <4>7. \A i, j \in 1 .. Len(queue') : queue'[i] = queue'[j] => i = j
        BY <4>2, <4>3, <4>5 DEF QueueInv
      <4> QED
        BY <4>3, <4>6, <4>7 DEF QueueInv
    <3>2. CASE numThreads = 0
      <4>1. queue' = queue /\ step' = [step EXCEPT ![c] = "lookup"]
        BY <1>3, <3>2 DEF Dispatch, poolVars
      <4>2. \A i \in 1 .. Len(queue) : queue[i] # c
        BY <3>0 DEF QueueInv
      <4> QED
        BY <4>1, <4>2 DEF QueueInv, TypeOK
    <3> QED
      BY <3>1, <3>2, <1>3 DEF Dispatch
  <2>4. MainInv'
    BY <1>0, <1>3 DEF Dispatch, MainInv, HandlersReturned
  <2> QED
    BY <1>1, <2>1, <2>2, <2>3, <2>4
<1>4. CASE ClassifyReturns(c)
  <2>1. TypeOK'
    BY <1>4 DEF ClassifyReturns, restVars, TypeOK
  <2>2. step[c] = "done"
    BY <1>4 DEF ClassifyReturns, Answered, CallsInv, CallInv
  <2>3. CallsInv'
    BY <1>4, <2>2 DEF ClassifyReturns, restVars, CallsInv, CallInv, TypeOK
  <2>4. QueueInv'
    BY <1>4 DEF ClassifyReturns, poolVars, QueueInv
  <2>5. MainInv'
    BY <1>0, <1>4 DEF ClassifyReturns, MainInv, HandlersReturned
  <2> QED
    BY <1>1, <2>1, <2>3, <2>4, <2>5
<1> QED
  BY <1>2, <1>3, <1>4

(* A worker takes the task that has waited longest.                        *)
LEMMA WorkerInvariant == ASSUME IInv, WorkerTakes PROVE IInv'
<1> USE DEF IInv
<1> DEFINE c == queue[1]
<1>1. Len(queue) > 0 /\ c \in Calls /\ step[c] = "queued" /\ c = Head(queue)
  BY DEF WorkerTakes, Pool!Start, QueueInv
<1>2. queue' = Tail(queue) /\ step' = [step EXCEPT ![c] = "lookup"]
  BY <1>1 DEF WorkerTakes, Pool!Start
<1>3. UNCHANGED <<upfVars, main, numThreads, handler, packet, verdict, resp, promised, count>>
  BY DEF WorkerTakes, restVars
<1>4. TypeOK' /\ SessionsInv' /\ MainInv'
  BY <1>1, <1>2, <1>3 DEF upfVars, TypeOK, SessionsInv, MainInv, HandlersReturned
<1>5. CallsInv'
  BY <1>1, <1>2, <1>3 DEF CallsInv, CallInv, TypeOK
<1>6. /\ queue' \in Seq(Calls) /\ Len(queue') = Len(queue) - 1
      /\ \A i \in 1 .. Len(queue') : queue'[i] = queue[i + 1]
  BY <1>1, <1>2 DEF QueueInv
<1>7. \A i \in 1 .. Len(queue') : queue'[i] # c
  BY <1>1, <1>6 DEF QueueInv
<1>8. \A d \in Calls : d # c => step'[d] = step[d]
  BY <1>2 DEF TypeOK
<1>9. QueueInv'
  BY <1>6, <1>7, <1>8 DEF QueueInv
<1> QED
  BY <1>4, <1>5, <1>9

(* The steps of a classification, in the order of the code.                *)
LEMMA WorkInvariant ==
  ASSUME IInv, NEW c \in Calls, Work(c)
  PROVE  IInv'
<1> USE DEF IInv
<1>0. UNCHANGED <<upfVars, main, numThreads, handler, packet, queue>>
  BY DEF Work, LooksUp, WritesResponse, Tallies, SetsPromise, TaskEnds, Pool!Finish, callVars,
         poolVars, restVars
<1>1. SessionsInv' /\ MainInv'
  BY <1>0 DEF upfVars, SessionsInv, MainInv, HandlersReturned
<1>2. CASE TaskEnds(c)
  BY <1>0, <1>1, <1>2, QuietStep DEF TaskEnds, callVars, TypeOK
<1>3. ASSUME NEW this \in {"lookup", "write", "tally", "promise"}, Performs(c, this)
      PROVE  QueueInv'
  BY <1>0, <1>3 DEF Performs, QueueInv, TypeOK
<1>4. CASE LooksUp(c)
  <2>1. step' = [step EXCEPT ![c] = "write"] /\ step[c] = "lookup"
    BY <1>4 DEF LooksUp, Performs, TaskOrder, InlineOrder
  <2>2. TypeOK'
    BY <1>4, <2>1 DEF LooksUp, restVars, TypeOK
  <2>3. Judged(verdict'[c])
    BY <1>4, ClassifyJudges DEF LooksUp, CallsInv
  <2>4. CallsInv'
    BY <1>4, <2>1, <2>3 DEF LooksUp, restVars, CallsInv, CallInv, TypeOK
  <2> QED
    BY <1>1, <1>3, <1>4, <2>2, <2>4 DEF LooksUp
<1>5. CASE WritesResponse(c)
  <2>1. step' = [step EXCEPT ![c] = "tally"] /\ step[c] = "write"
    BY <1>5 DEF WritesResponse, Performs, TaskOrder, InlineOrder
  <2>2. TypeOK'
    BY <1>5, <2>1 DEF WritesResponse, restVars, TypeOK
  <2>3. CallsInv'
    BY <1>5, <2>1 DEF WritesResponse, restVars, CallsInv, CallInv, TypeOK
  <2> QED
    BY <1>1, <1>3, <1>5, <2>2, <2>3 DEF WritesResponse
<1>6. CASE Tallies(c)
  <2>1. /\ step[c] = "tally"
        /\ step' = [step EXCEPT ![c] = IF numThreads > 0 THEN "promise" ELSE "done"]
    BY <1>6 DEF Tallies, Performs, TaskOrder, InlineOrder
  <2>2. TypeOK'
    BY <1>6, <2>1 DEF Tallies, Counted, restVars, TypeOK
  <2>3. CallsInv'
    BY <1>6, <2>1 DEF Tallies, restVars, CallsInv, CallInv, TypeOK
  <2> QED
    BY <1>1, <1>3, <1>6, <2>2, <2>3 DEF Tallies
<1>7. CASE SetsPromise(c)
  <2>1. step[c] = "promise" /\ numThreads > 0
    BY <1>7 DEF SetsPromise, Performs, CallsInv, CallInv
  <2>2. step' = [step EXCEPT ![c] = "done"] /\ promised' = promised \cup {c}
    BY <1>7, <2>1 DEF SetsPromise, Performs, TaskOrder, PromisedWith
  <2>3. TypeOK'
    BY <1>7, <2>2 DEF SetsPromise, restVars, TypeOK
  <2>4. CallsInv'
    BY <1>7, <2>1, <2>2 DEF SetsPromise, restVars, CallsInv, CallInv, TypeOK
  <2> QED
    BY <1>1, <1>3, <1>7, <2>3, <2>4 DEF SetsPromise
<1> QED
  BY <1>2, <1>4, <1>5, <1>6, <1>7 DEF Work

(* The disjuncts of Next, sorted by the lemmas above.                      *)
LEMMA NextCases ==
  ASSUME [Next]_vars
  PROVE  \/ Quiet \/ WorkerTakes
         \/ \E c \in Calls :
              \/ (\E p \in Packets : ClassifyArrives(c, p)) \/ Dispatch(c) \/ ClassifyReturns(c)
              \/ Work(c)
         \/ UNCHANGED vars
  BY DEF Next, MainGoesOn, Threads, Quiet

LEMMA StutterInvariant == IInv /\ UNCHANGED vars => IInv'
  BY DEF vars, upfVars, poolVars, callVars, restVars, IInv, TypeOK, SessionsInv, CallsInv, CallInv,
         QueueInv, MainInv, HandlersReturned

LEMMA NextInvariant == IInv /\ [Next]_vars => IInv'
  BY NextCases, QuietInvariant, HandlerInvariant, WorkerInvariant, WorkInvariant, StutterInvariant

(***************************************************************************)
(* The response.                                                           *)
(***************************************************************************)
LEMMA ResponseStep ==
  ASSUME IInv, [Next]_vars, NEW c \in Calls, resp'[c] # resp[c]
  PROVE  handler[c] = "awaiting"
<1>1. PICK d \in Calls : WritesResponse(d)
  BY NextCases
     DEF Quiet, SessionHandler, ScrapeReads, ScrapeEnds, ScrapeOfDestroyed, MainStarts, SignalStops,
         MainDrains, MainReports, PoolEnds, MainLeaves, WorkerTakes, ClassifyArrives, Dispatch,
         ClassifyReturns, Work, LooksUp, Tallies, SetsPromise, TaskEnds, vars, callVars, serviceVars
<1>2. d = c
  BY <1>1 DEF WritesResponse, IInv, CallsInv
<1> QED
  BY <1>1, <1>2 DEF WritesResponse, Performs, IInv, TypeOK, CallsInv, CallInv

(* No task writes to the response of a call whose handler has returned.    *)
THEOREM ResponseIsOwned == Spec => ResponseOwned
<1>1. Init => IInv
  BY InitInvariant
<1>2. IInv /\ [Next]_vars => IInv'
  BY NextInvariant
<1>3. IInv /\ [Next]_vars => [\A c \in Calls : resp'[c] # resp[c] => handler[c] = "awaiting"]_vars
  BY ResponseStep
<1> QED
  BY <1>1, <1>2, <1>3, PTL DEF Spec, ResponseOwned

(***************************************************************************)
(* The counters.                                                           *)
(***************************************************************************)
Received == {c \in Calls : handler[c] # "absent"}
Outcome(action) == {c \in Calls : step[c] \in {"promise", "done"} /\ verdict[c].action = action}

(* Each counter is the size of a set of calls.                             *)
CountInv ==
  /\ IsFiniteSet(Received)
  /\ count.pkt = Cardinality(Received)
  /\ count.fwd = Cardinality(Outcome("FORWARD"))
  /\ count.drop = Cardinality(Outcome("DROP"))

LEMMA OutcomesDisjoint ==
  ASSUME IInv, CountInv
  PROVE  /\ count.fwd + count.drop <= count.pkt
         /\ HandlersReturned => count.fwd + count.drop = count.pkt
<1> DEFINE F == Outcome("FORWARD")
           D == Outcome("DROP")
<1>1. F \subseteq Received /\ D \subseteq Received
  BY DEF Outcome, Received, IInv, CallsInv, CallInv
<1>2. F \cap D = {}
  BY DEF Outcome
<1>3. IsFiniteSet(F) /\ IsFiniteSet(D)
  BY <1>1, FS_Subset DEF CountInv
<1>4. IsFiniteSet(F \cup D) /\ Cardinality(F \cup D) = Cardinality(F) + Cardinality(D)
  <2> HIDE DEF F, D
  <2>1. Cardinality(F \cap D) = 0
    BY <1>2, FS_EmptySet
  <2>2. Cardinality(F) \in Nat /\ Cardinality(D) \in Nat
    BY <1>3, FS_CardinalityType
  <2>3. /\ IsFiniteSet(F \cup D)
        /\ Cardinality(F \cup D) = Cardinality(F) + Cardinality(D) - Cardinality(F \cap D)
    BY <1>3, FS_Union
  <2> QED
    BY <2>1, <2>2, <2>3
<1>5. Cardinality(F \cup D) <= Cardinality(Received)
  BY <1>1, FS_Subset DEF CountInv
<1>6. HandlersReturned => F \cup D = Received
  BY VerdictIsSome DEF HandlersReturned, Outcome, Received, IInv, CallsInv, CallInv
<1> QED
  BY <1>4, <1>5, <1>6 DEF CountInv

LEMMA InitCount == Init => CountInv
<1> SUFFICES ASSUME Init PROVE CountInv
  OBVIOUS
<1>1. Received = {} /\ Outcome("FORWARD") = {} /\ Outcome("DROP") = {}
  BY DEF Init, Received, Outcome
<1> QED
  BY <1>1, FS_EmptySet DEF Init, CountInv

(* Only an arrival and a tally move a counter, and each moves its set.     *)
LEMMA NextCount ==
  ASSUME IInv, CountInv, [Next]_vars
  PROVE  CountInv'
<1>1. ASSUME NEW c \in Calls, NEW p \in Packets, ClassifyArrives(c, p)
      PROVE  CountInv'
  <2>1. Received' = Received \cup {c} /\ c \notin Received
    BY <1>1 DEF ClassifyArrives, Received, IInv, TypeOK
  <2>2. Outcome("FORWARD")' = Outcome("FORWARD") /\ Outcome("DROP")' = Outcome("DROP")
    BY <1>1 DEF ClassifyArrives, Outcome
  <2>3. count'.pkt = count.pkt + 1 /\ count'.fwd = count.fwd /\ count'.drop = count.drop
    BY <1>1 DEF ClassifyArrives, Counted, IInv, TypeOK
  <2>4. IsFiniteSet(Received') /\ Cardinality(Received') = Cardinality(Received) + 1
    BY <2>1, FS_AddElement DEF CountInv
  <2> QED
    BY <2>2, <2>3, <2>4 DEF CountInv
<1>2. ASSUME NEW c \in Calls, Tallies(c)
      PROVE  CountInv'
  <2>0. PICK action : action = verdict[c].action
    OBVIOUS
  <2>1. /\ step[c] = "tally" /\ step'[c] \in {"promise", "done"}
        /\ \A d \in Calls : d # c => step'[d] = step[d]
    BY <1>2 DEF Tallies, Performs, TaskOrder, InlineOrder, IInv, TypeOK
  <2>2. UNCHANGED <<handler, verdict>>
    BY <1>2 DEF Tallies
  <2>3. action \in {"FORWARD", "DROP"}
    BY <2>0, <2>1, VerdictIsSome DEF IInv, CallsInv, CallInv
  <2>4. Received' = Received
    BY <2>2 DEF Received
  <2>5. c \notin Outcome(action) /\ Outcome(action)' = Outcome(action) \cup {c}
    BY <2>0, <2>1, <2>2 DEF Outcome
  <2>6. \A other \in {"FORWARD", "DROP"} \ {action} : Outcome(other)' = Outcome(other)
    BY <2>0, <2>1, <2>2 DEF Outcome
  <2>7. Outcome(action) \subseteq Received
    BY DEF Outcome, Received, IInv, CallsInv, CallInv
  <2>8. Cardinality(Outcome(action)') = Cardinality(Outcome(action)) + 1
    BY <2>5, <2>7, FS_Subset, FS_AddElement DEF CountInv
  <2>9. CASE action = "FORWARD"
    <3>1. count'.pkt = count.pkt /\ count'.fwd = count.fwd + 1 /\ count'.drop = count.drop
      BY <1>2, <2>0, <2>9 DEF Tallies, Counted, IInv, TypeOK
    <3> QED
      BY <2>4, <2>6, <2>8, <2>9, <3>1 DEF CountInv
  <2>10. CASE action = "DROP"
    <3>1. count'.pkt = count.pkt /\ count'.fwd = count.fwd /\ count'.drop = count.drop + 1
      BY <1>2, <2>0, <2>10 DEF Tallies, Counted, IInv, TypeOK
    <3> QED
      BY <2>4, <2>6, <2>8, <2>10, <3>1 DEF CountInv
  <2> QED
    BY <2>3, <2>9, <2>10
<1>3. ASSUME UNCHANGED count, Received' = Received,
             \A action \in {"FORWARD", "DROP"} : Outcome(action)' = Outcome(action)
      PROVE  CountInv'
  BY <1>3 DEF CountInv
<1>4. CASE Quiet
  <2>1. UNCHANGED <<callVars, count>>
    BY <1>4
       DEF Quiet, SessionHandler, ScrapeReads, ScrapeEnds, ScrapeOfDestroyed, MainStarts,
           SignalStops, MainDrains, MainReports, PoolEnds, MainLeaves, serviceVars
  <2> QED
    BY <1>3, <2>1 DEF callVars, Received, Outcome
<1>5. CASE WorkerTakes
  <2>1. step[Head(queue)] = "queued"
    BY <1>5 DEF WorkerTakes, Pool!Start, IInv, QueueInv
  <2>2. \A d \in Calls : step'[d] \in {"promise", "done"} <=> step[d] \in {"promise", "done"}
    BY <1>5, <2>1 DEF WorkerTakes, IInv, TypeOK
  <2>3. UNCHANGED <<handler, verdict, count>>
    BY <1>5 DEF WorkerTakes
  <2> QED
    BY <1>3, <2>2, <2>3 DEF Received, Outcome
<1>6. ASSUME NEW c \in Calls, Dispatch(c) \/ ClassifyReturns(c)
      PROVE  CountInv'
  <2>1. \A d \in Calls : handler'[d] = "absent" <=> handler[d] = "absent"
    BY <1>6 DEF Dispatch, ClassifyReturns, IInv, TypeOK
  <2>2. \A d \in Calls : step'[d] \in {"promise", "done"} <=> step[d] \in {"promise", "done"}
    BY <1>6 DEF Dispatch, ClassifyReturns, IInv, TypeOK, CallsInv, CallInv
  <2>3. UNCHANGED <<verdict, count>>
    BY <1>6 DEF Dispatch, ClassifyReturns
  <2> QED
    BY <1>3, <2>1, <2>2, <2>3 DEF Received, Outcome
<1>7. ASSUME NEW c \in Calls, LooksUp(c) \/ WritesResponse(c) \/ SetsPromise(c) \/ TaskEnds(c)
      PROVE  CountInv'
  <2>1. UNCHANGED <<handler, count>>
    BY <1>7 DEF LooksUp, WritesResponse, SetsPromise, TaskEnds, callVars
  <2>2. \A d \in Calls : step'[d] \in {"promise", "done"} <=> step[d] \in {"promise", "done"}
    BY <1>7
       DEF LooksUp, WritesResponse, SetsPromise, TaskEnds, Performs, TaskOrder, InlineOrder,
           callVars, IInv, TypeOK, CallsInv, CallInv
  <2>3. \A d \in Calls : step[d] \in {"promise", "done"} => verdict'[d] = verdict[d]
    BY <1>7
       DEF LooksUp, WritesResponse, SetsPromise, TaskEnds, Performs, callVars, IInv, CallsInv
  <2> QED
    BY <1>3, <2>1, <2>2, <2>3 DEF Received, Outcome
<1>8. CASE UNCHANGED vars
  BY <1>3, <1>8 DEF vars, callVars, Received, Outcome
<1> QED
  BY <1>1, <1>2, <1>4, <1>5, <1>6, <1>7, <1>8, NextCases DEF Work

(***************************************************************************)
(* The final metrics.                                                      *)
(***************************************************************************)
ReportInv ==
  report # EmptyMap =>
    main \in {"leaving", "exited", "crashed"} /\ report = count

(* With no handler left no step moves a counter.                           *)
LEMMA CountAtRest ==
  ASSUME IInv, [Next]_vars, main \in {"reporting", "leaving", "exited", "crashed"}
  PROVE  count' = count
<1>1. HandlersReturned
  BY DEF IInv, MainInv
<1>2. \A c \in Calls : ~ Tallies(c)
  BY <1>1 DEF HandlersReturned, Tallies, Performs, IInv, CallsInv, CallInv
<1>3. \A c \in Calls, p \in Packets : ~ ClassifyArrives(c, p)
  BY DEF ClassifyArrives, Process!Serving
<1> QED
  BY <1>2, <1>3, NextCases
     DEF Quiet, SessionHandler, ScrapeReads, ScrapeEnds, ScrapeOfDestroyed, MainStarts, SignalStops,
         MainDrains, MainReports, PoolEnds, MainLeaves, WorkerTakes, Dispatch, ClassifyReturns, Work,
         LooksUp, WritesResponse, SetsPromise, TaskEnds, vars, serviceVars

LEMMA ReportStep ==
  ASSUME IInv, ReportInv, [Next]_vars
  PROVE  ReportInv'
<1>1. CASE MainReports
  BY <1>1 DEF MainReports, Process!Report, Process!Moves, serviceVars, ReportInv
<1>2. CASE ~ MainReports
  <2>1. UNCHANGED report
    BY <1>2, NextCases
       DEF Quiet, SessionHandler, ScrapeReads, ScrapeEnds, ScrapeOfDestroyed, MainStarts,
           SignalStops, MainDrains, PoolEnds, MainLeaves, WorkerTakes, ClassifyArrives, Dispatch,
           ClassifyReturns, Work, LooksUp, WritesResponse, Tallies, SetsPromise, TaskEnds, vars,
           restVars
  <2>2. main \in {"leaving", "exited", "crashed"} => main' \in {"leaving", "exited", "crashed"}
    BY <1>2, NextCases
       DEF Quiet, SessionHandler, ScrapeReads, ScrapeEnds, ScrapeOfDestroyed, MainStarts,
           SignalStops, MainDrains, PoolEnds, MainLeaves, WorkerTakes, ClassifyArrives, Dispatch,
           ClassifyReturns, Work, LooksUp, WritesResponse, Tallies, SetsPromise, TaskEnds, vars,
           restVars, Process!StartExporter, Process!StartServer, Process!StartFails,
           Process!PublishServer, Process!ShutdownOnSignal, Process!WaitReturns, Process!LeaveMain,
           Process!Crash, Process!Moves
  <2> QED
    BY <2>1, <2>2, CountAtRest DEF ReportInv
<1> QED
  BY <1>1, <1>2

LEMMA ReportBalances ==
  ASSUME IInv, CountInv, ReportInv
  PROVE  FinalReportBalances
<1> SUFFICES ASSUME report # EmptyMap
             PROVE  /\ report.fwd = Cardinality(AnsweredWith("FORWARD"))
                    /\ report.drop = Cardinality(AnsweredWith("DROP"))
                    /\ report.pkt = report.fwd + report.drop
  BY DEF FinalReportBalances
<1>1. HandlersReturned /\ report = count
  BY DEF ReportInv, IInv, MainInv
<1>2. \A action \in {"FORWARD", "DROP"} : AnsweredWith(action) = Outcome(action)
  BY <1>1 DEF HandlersReturned, AnsweredWith, Outcome, IInv, CallsInv, CallInv
<1> QED
  BY <1>1, <1>2, OutcomesDisjoint DEF CountInv

(* The final metrics of main account for every packet, as it was answered. *)
THEOREM FinalReportIsBalanced == Spec => []FinalReportBalances
<1>1. Init => IInv /\ CountInv /\ ReportInv
  BY InitInvariant, InitCount DEF Init, ReportInv
<1>2. IInv /\ CountInv /\ ReportInv /\ [Next]_vars => IInv' /\ CountInv' /\ ReportInv'
  BY NextInvariant, NextCount, ReportStep
<1>3. IInv /\ CountInv /\ ReportInv => FinalReportBalances
  BY ReportBalances
<1> QED
  BY <1>1, <1>2, <1>3, PTL DEF Spec

(***************************************************************************)
(* The scrape.                                                             *)
(***************************************************************************)
(* The counters of a scrape are read in this order; those not read yet are *)
(* at least what they will be shown to be at least.                        *)
ScrapeInv ==
  /\ uncounted \in Nat
  /\ \/ scrape = EmptyMap
     \/ /\ DOMAIN scrape = {"pkt"}
        /\ scrape["pkt"] \in 0 .. count.fwd + count.drop + uncounted
     \/ /\ DOMAIN scrape = {"pkt", "fwd"}
        /\ scrape["fwd"] \in 0 .. count.fwd
        /\ scrape["pkt"] \in 0 .. scrape["fwd"] + count.drop + uncounted
     \/ /\ DOMAIN scrape = {"pkt", "fwd", "drop"}
        /\ scrape["fwd"] \in 0 .. count.fwd
        /\ scrape["drop"] \in 0 .. count.drop
        /\ scrape["pkt"] \in 0 .. scrape["fwd"] + scrape["drop"] + uncounted

LEMMA CountersGrow ==
  ASSUME IInv, [Next]_vars
  PROVE  /\ count.fwd \in Nat /\ count'.fwd \in Nat /\ count.fwd <= count'.fwd
         /\ count.drop \in Nat /\ count'.drop \in Nat /\ count.drop <= count'.drop
<1>1. count \in [{"pkt", "fwd", "drop"} -> Nat]
  BY DEF IInv, TypeOK
<1>2. CASE UNCHANGED count
  BY <1>1, <1>2
<1>3. ASSUME NEW counter \in {"pkt", "fwd", "drop"}, count' = Counted(counter)
      PROVE  /\ count'.fwd \in Nat /\ count.fwd <= count'.fwd
             /\ count'.drop \in Nat /\ count.drop <= count'.drop
  BY <1>1, <1>3 DEF Counted
<1>4. \/ UNCHANGED count
      \/ \E counter \in {"pkt", "fwd", "drop"} : count' = Counted(counter)
  BY NextCases
     DEF Quiet, SessionHandler, ScrapeReads, ScrapeEnds, ScrapeOfDestroyed, MainStarts, SignalStops,
         MainDrains, MainReports, PoolEnds, MainLeaves, WorkerTakes, ClassifyArrives, Dispatch,
         ClassifyReturns, Work, LooksUp, WritesResponse, Tallies, SetsPromise, TaskEnds, vars,
         serviceVars
<1> QED
  BY <1>1, <1>2, <1>3, <1>4

LEMMA DomainSizes ==
  /\ Cardinality({}) = 0 /\ Cardinality({"pkt"}) = 1
  /\ Cardinality({"pkt", "fwd"}) = 2 /\ Cardinality({"pkt", "fwd", "drop"}) = 3
<1>1. IsFiniteSet({"pkt"}) /\ Cardinality({"pkt"}) = 1 /\ Cardinality({}) = 0
  BY FS_Singleton, FS_EmptySet
<1>2. IsFiniteSet({"pkt"} \cup {"fwd"}) /\ Cardinality({"pkt"} \cup {"fwd"}) = 2
  BY <1>1, FS_AddElement
<1>3. Cardinality(({"pkt"} \cup {"fwd"}) \cup {"drop"}) = 3
  BY <1>2, FS_AddElement
<1>4. {"pkt"} \cup {"fwd"} = {"pkt", "fwd"} /\ {"pkt", "fwd"} \cup {"drop"} = {"pkt", "fwd", "drop"}
  OBVIOUS
<1> QED
  BY <1>1, <1>2, <1>3, <1>4

LEMMA ScrapeReadsStep ==
  ASSUME IInv, CountInv, ScrapeInv, ScrapeReads
  PROVE  ScrapeInv'
<1>0. /\ count' = count
      /\ count.pkt \in Nat /\ count.fwd \in Nat /\ count.drop \in Nat
      /\ count.fwd + count.drop <= count.pkt
  BY OutcomesDisjoint DEF ScrapeReads, serviceVars, IInv, TypeOK
<1>1. CASE scrape = EmptyMap
  <2>1. DOMAIN scrape = {}
    BY <1>1 DEF EmptyMap
  <2>2. scrape' = Put(scrape, "pkt", count["pkt"]) /\ uncounted' = count.pkt - count.fwd - count.drop
    BY <1>1, <2>1, DomainSizes DEF ScrapeReads, ReadOrder
  <2>3. DOMAIN scrape' = {"pkt"} /\ scrape'["pkt"] = count.pkt
    BY <2>1, <2>2 DEF Put
  <2> QED
    BY <1>0, <2>2, <2>3 DEF ScrapeInv
<1>2. CASE DOMAIN scrape = {"pkt"}
  <2>1. scrape # EmptyMap
    BY <1>2 DEF EmptyMap
  <2>2. scrape' = Put(scrape, "fwd", count["fwd"]) /\ uncounted' = uncounted
    BY <1>2, <2>1, DomainSizes DEF ScrapeReads, ReadOrder
  <2>3. /\ DOMAIN scrape' = {"pkt", "fwd"} /\ scrape'["pkt"] = scrape["pkt"]
        /\ scrape'["fwd"] = count.fwd
    BY <1>2, <2>2 DEF Put
  <2>4. scrape["pkt"] \in 0 .. count.fwd + count.drop + uncounted
    BY <1>2, <2>1 DEF ScrapeInv
  <2> QED
    BY <1>0, <2>2, <2>3, <2>4 DEF ScrapeInv
<1>3. CASE DOMAIN scrape = {"pkt", "fwd"}
  <2>1. scrape # EmptyMap
    BY <1>3 DEF EmptyMap
  <2>2. scrape' = Put(scrape, "drop", count["drop"]) /\ uncounted' = uncounted
    BY <1>3, <2>1, DomainSizes DEF ScrapeReads, ReadOrder
  <2>3. /\ DOMAIN scrape' = {"pkt", "fwd", "drop"} /\ scrape'["pkt"] = scrape["pkt"]
        /\ scrape'["fwd"] = scrape["fwd"] /\ scrape'["drop"] = count.drop
    BY <1>3, <2>2 DEF Put
  <2>4. /\ scrape["fwd"] \in 0 .. count.fwd
        /\ scrape["pkt"] \in 0 .. scrape["fwd"] + count.drop + uncounted
    BY <1>3, <2>1 DEF ScrapeInv
  <2> QED
    BY <1>0, <2>2, <2>3, <2>4 DEF ScrapeInv
<1>4. CASE DOMAIN scrape = {"pkt", "fwd", "drop"}
  BY <1>4, DomainSizes DEF ScrapeReads, ReadOrder
<1> QED
  BY <1>1, <1>2, <1>3, <1>4 DEF ScrapeInv

LEMMA ScrapeStep ==
  ASSUME IInv, CountInv, ScrapeInv, [Next]_vars
  PROVE  ScrapeInv'
<1>1. CASE ScrapeReads
  BY <1>1, ScrapeReadsStep
<1>2. CASE ScrapeEnds
  BY <1>2 DEF ScrapeEnds, ScrapeInv
<1>3. CASE UNCHANGED scrapeVars
  BY <1>3, CountersGrow DEF scrapeVars, ScrapeInv
<1> QED
  BY <1>1, <1>2, <1>3, NextCases
     DEF Quiet, SessionHandler, ScrapeOfDestroyed, MainStarts, SignalStops, MainDrains, MainReports,
         PoolEnds, MainLeaves, WorkerTakes, ClassifyArrives, Dispatch, ClassifyReturns, Work,
         LooksUp, WritesResponse, Tallies, SetsPromise, TaskEnds, vars, restVars

LEMMA ScrapeBoundedByInv ==
  ASSUME IInv, CountInv, ScrapeInv
  PROVE  ScrapeBounds
<1> SUFFICES ASSUME DOMAIN scrape = {"pkt", "fwd", "drop"}
             PROVE  /\ scrape["pkt"] <= scrape["fwd"] + scrape["drop"] + uncounted
                    /\ scrape["fwd"] + scrape["drop"] <= count.pkt
  BY DEF ScrapeBounds
<1>1. scrape # EmptyMap
  BY DEF EmptyMap
<1>2. /\ scrape["fwd"] \in 0 .. count.fwd
      /\ scrape["drop"] \in 0 .. count.drop
      /\ scrape["pkt"] \in 0 .. scrape["fwd"] + scrape["drop"] + uncounted
  BY <1>1 DEF ScrapeInv
<1>3. /\ count.pkt \in Nat /\ count.fwd \in Nat /\ count.drop \in Nat
      /\ count.fwd + count.drop <= count.pkt
  BY OutcomesDisjoint DEF IInv, TypeOK
<1>4. uncounted \in Nat
  BY DEF ScrapeInv
<1> QED
  BY <1>2, <1>3, <1>4

(* A scrape shows at most the packets whose outcome it shows and those     *)
(* that were without one when it began, for any interleaving of its reads  *)
(* with any number of handlers and workers.                                *)
THEOREM ScrapeIsBounded == Spec => []ScrapeBounds
<1>1. Init => IInv /\ CountInv /\ ScrapeInv
  BY InitInvariant, InitCount DEF Init, ScrapeInv
<1>2. IInv /\ CountInv /\ ScrapeInv /\ [Next]_vars => IInv' /\ CountInv' /\ ScrapeInv'
  BY NextInvariant, NextCount, ScrapeStep
<1>3. IInv /\ CountInv /\ ScrapeInv => ScrapeBounds
  BY ScrapeBoundedByInv
<1> QED
  BY <1>1, <1>2, <1>3, PTL DEF Spec

(***************************************************************************)
(* The abstract specification.                                             *)
(***************************************************************************)
(* The tests of classify are the policy, for every port and protocol.      *)
LEMMA RulesArePolicy ==
  ASSUME NEW p \in Packets, NEW qos
  PROVE  ProfileVerdict(p, qos)
           = [action |-> IF Filter!Passes(p, qos) THEN "FORWARD" ELSE "DROP", qosClass |-> qos]
<1>1. p.port \in Nat
  BY ServerAssumption
<1>2. BlockedDestination(p.dst) <=> p.dst \in Filter!Blocked
  BY DEF BlockedDestination, Filter!Blocked
<1>3. Allowed(p, qos) <=> p.port \in Filter!Ports(qos) /\ (qos = 1 => p.protocol = "UDP")
  <2>1. MediaPort(p.port) <=> p.port \in Filter!Media
    <3>1. \A port \in Nat : MediaPort(port) <=> port \in Filter!Media
      BY DEF MediaPort, Filter!Media
    <3> QED
      BY <1>1, <3>1
  <2>2. CASE qos = 1
    <3>1. Filter!Ports(qos) = Filter!Media
      BY <2>2 DEF Filter!Ports
    <3>2. qos # 4
      BY <2>2
    <3> QED
      BY <2>1, <2>2, <3>1, <3>2 DEF Allowed
  <2>3. CASE qos = 4
    <3>1. Filter!Ports(qos) = Filter!Media \cup {443, 1935}
      BY <2>3 DEF Filter!Ports
    <3>2. qos # 1
      BY <2>3
    <3> QED
      BY <1>1, <2>1, <2>3, <3>1, <3>2 DEF Allowed
  <2>4. CASE qos # 1 /\ qos # 4
    BY <1>1, <2>4 DEF Allowed, Filter!Ports
  <2> QED
    BY <2>2, <2>3, <2>4
<1>4. (~ BlockedDestination(p.dst) /\ Allowed(p, qos)) <=> Filter!Passes(p, qos)
  BY <1>2, <1>3 DEF Filter!Passes
<1> QED
  BY <1>4 DEF ProfileVerdict, Verdict

(* What PacketFilter sees of a state.                                      *)
Profiles == [ip \in DOMAIN ueToSession |-> sessions[ueToSession[ip]].qosProfile]
Answers == [c \in Calls |-> IF handler[c] = "returned" THEN resp[c] ELSE None]

LEMMA ClassifyIsPolicy ==
  ASSUME IInv, NEW c \in Calls, packet[c] # None
  PROVE  Classify(c) = Filter!Policy(packet[c])
<1> DEFINE p == packet[c]
<1>1. p \in Packets
  BY DEF IInv, TypeOK
<1>2. CASE p.src \notin DOMAIN ueToSession
  BY <1>2 DEF Classify, NoSession, Verdict, Filter!Policy
<1>3. CASE p.src \in DOMAIN ueToSession
  <2>1. Classify(c) = ProfileVerdict(p, Profiles[p.src])
    BY <1>3 DEF Classify, Profiles, IInv, SessionsInv
  <2> QED
    BY <1>1, <1>3, <2>1, RulesArePolicy DEF Filter!Policy, Profiles
<1> QED
  BY <1>2, <1>3

LEMMA SessionsRefine ==
  ASSUME IInv, SessionHandler
  PROVE  Filter!Next
<1>0. packet' = packet /\ verdict' = verdict /\ Answers' = Answers
  BY DEF SessionHandler, callVars, Answers
<1>1. ASSUME NEW supi \in Supis, NEW ip \in UeIps, NEW qos \in QosProfiles,
             Upf!EstablishSession(supi, ip, qos)
      PROVE  Filter!Serve(ip, qos)
  <2> DEFINE id == sessionIdCounter
  <2>1. /\ sessions'[id].qosProfile = qos
        /\ \A x \in DOMAIN sessions : x # id => sessions'[x] = sessions[x]
    BY <1>1 DEF Upf!EstablishSession, Upf!Put, Upf!NewSession
  <2>2. /\ DOMAIN ueToSession' = DOMAIN ueToSession \cup {ip}
        /\ ueToSession'[ip] = id
        /\ \A x \in DOMAIN ueToSession : x # ip => ueToSession'[x] = ueToSession[x]
    BY <1>1 DEF Upf!EstablishSession, Upf!RoutesWith, Upf!Put
  <2>3. \A x \in DOMAIN ueToSession : ueToSession[x] \in DOMAIN sessions /\ ueToSession[x] # id
    BY DEF IInv, SessionsInv
  <2>4. Profiles' = Filter!Put(Profiles, ip, qos)
    BY <2>1, <2>2, <2>3 DEF Profiles, Filter!Put
  <2> QED
    BY <1>0, <2>4 DEF Filter!Serve, Profiles, Answers
<1>2. ASSUME NEW id \in DOMAIN sessions, Upf!ReleaseSession(id),
             NEW ip \in UeIps, ip = sessions[id].ueIp
      PROVE  Filter!Withdraw(ip)
  <2>1. /\ DOMAIN ueToSession' = DOMAIN ueToSession \ {ip}
        /\ \A x \in DOMAIN ueToSession' : ueToSession'[x] = ueToSession[x]
    BY <1>2 DEF Upf!ReleaseSession, Upf!RoutesWithout, Upf!Erase, Upf!Restrict
  <2>2. \A x \in DOMAIN sessions : x # id => sessions'[x] = sessions[x]
    BY <1>2 DEF Upf!ReleaseSession, Upf!Erase, Upf!Restrict
  <2>3. \A x \in DOMAIN ueToSession' : ueToSession[x] \in DOMAIN sessions /\ ueToSession[x] # id
    BY <1>2, <2>1 DEF IInv, SessionsInv
  <2>4. Profiles' = Filter!Erase(Profiles, ip)
    BY <1>2, <2>1, <2>2, <2>3 DEF Profiles, Filter!Erase, Filter!Restrict
  <2> QED
    BY <1>0, <2>4 DEF Filter!Withdraw, Profiles, Answers
<1>3. CASE \E id \in DOMAIN sessions : Upf!ReleaseSession(id)
  <2>1. PICK id \in DOMAIN sessions : Upf!ReleaseSession(id)
    BY <1>3
  <2>2. PICK ip \in UeIps : ip = sessions[id].ueIp
    BY DEF IInv, SessionsInv
  <2>3. Filter!Withdraw(ip)
    BY <1>2, <2>1, <2>2
  <2> QED
    BY <2>3 DEF Filter!Next
<1>4. CASE \E supi \in Supis, ip \in UeIps, qos \in QosProfiles :
             Upf!EstablishSession(supi, ip, qos)
  BY <1>1, <1>4 DEF Filter!Next
<1> QED
  BY <1>3, <1>4 DEF SessionHandler

(* A step the filter does not see.                                         *)
LEMMA Stutters ==
  ASSUME UNCHANGED <<sessions, ueToSession, packet, verdict>>, Answers' = Answers
  PROVE  UNCHANGED Filter!vars
  BY DEF Filter!vars, Answers

LEMMA HandlerRefines ==
  ASSUME IInv, NEW c \in Calls,
         (\E p \in Packets : ClassifyArrives(c, p)) \/ Dispatch(c) \/ ClassifyReturns(c)
  PROVE  [Filter!Next]_Filter!vars
<1>0. UNCHANGED <<sessions, ueToSession>> /\ UNCHANGED <<verdict, resp>>
  BY DEF ClassifyArrives, Dispatch, ClassifyReturns, upfVars
<1>1. CASE \E p \in Packets : ClassifyArrives(c, p)
  <2>1. PICK p \in Packets : ClassifyArrives(c, p)
    BY <1>1
  <2>2. Answers' = Answers
    BY <1>0, <2>1 DEF ClassifyArrives, Answers, IInv, TypeOK
  <2>3. packet[c] = None
    BY <2>1 DEF ClassifyArrives, IInv, CallsInv, CallInv
  <2>4. Filter!Submit(c, p)
    BY <1>0, <2>1, <2>2, <2>3 DEF ClassifyArrives, Filter!Submit, Answers
  <2> QED
    BY <2>4 DEF Filter!Next
<1>2. CASE Dispatch(c)
  <2>1. Answers' = Answers
    BY <1>0, <1>2 DEF Dispatch, Answers, IInv, TypeOK
  <2> QED
    BY <1>0, <1>2, <2>1, Stutters DEF Dispatch
<1>3. CASE ClassifyReturns(c)
  <2>1. step[c] = "done" /\ handler[c] = "awaiting"
    BY <1>3 DEF ClassifyReturns, Answered, IInv, CallsInv, CallInv
  <2>2. Judged(verdict[c]) /\ resp[c] = verdict[c]
    BY <2>1 DEF IInv, CallsInv, CallInv
  <2>3. Answers[c] = None /\ Answers' = [Answers EXCEPT ![c] = verdict[c]]
    BY <1>0, <1>3, <2>1, <2>2 DEF ClassifyReturns, Answers, IInv, TypeOK
  <2>4. Filter!Answer(c)
    BY <1>0, <1>3, <2>2, <2>3, VerdictIsSome DEF ClassifyReturns, Filter!Answer, Answers
  <2> QED
    BY <2>4 DEF Filter!Next
<1> QED
  BY <1>1, <1>2, <1>3

LEMMA WorkRefines ==
  ASSUME IInv, NEW c \in Calls, Work(c)
  PROVE  [Filter!Next]_Filter!vars
<1>0. UNCHANGED <<sessions, ueToSession>> /\ UNCHANGED <<packet, handler>>
  BY DEF Work, LooksUp, WritesResponse, Tallies, SetsPromise, TaskEnds, upfVars, callVars
<1>1. CASE LooksUp(c)
  <2>1. step[c] = "lookup"
    BY <1>1 DEF LooksUp, Performs
  <2>2. packet[c] # None /\ verdict[c] = None
    BY <2>1 DEF IInv, CallsInv, CallInv
  <2>3. verdict' = [verdict EXCEPT ![c] = Filter!Policy(packet[c])]
    BY <1>1, <2>2, ClassifyIsPolicy DEF LooksUp
  <2>4. Answers' = Answers
    BY <1>0, <1>1 DEF LooksUp, Answers
  <2>5. Filter!Decide(c)
    BY <1>0, <2>2, <2>3, <2>4 DEF Filter!Decide, Answers
  <2> QED
    BY <2>5 DEF Filter!Next
<1>2. CASE WritesResponse(c)
  <2>1. handler[c] # "returned"
    BY <1>2 DEF WritesResponse, Performs, IInv, CallsInv, CallInv
  <2>2. Answers' = Answers
    BY <1>0, <1>2, <2>1 DEF WritesResponse, Answers, IInv, CallsInv
  <2> QED
    BY <1>0, <1>2, <2>2, Stutters DEF WritesResponse
<1>3. CASE Tallies(c) \/ SetsPromise(c) \/ TaskEnds(c)
  <2>1. UNCHANGED <<verdict, resp>>
    BY <1>3 DEF Tallies, SetsPromise, TaskEnds, callVars
  <2> QED
    BY <1>0, <2>1, Stutters DEF Answers
<1> QED
  BY <1>1, <1>2, <1>3 DEF Work

(* The server implements the filter: for any number of packets judged at   *)
(* once, inline or by any number of workers, while sessions come and go,   *)
(* every caller is told what the policy says of its own packet under the   *)
(* profile its address had at one moment of the call.                      *)
THEOREM ServerImplementsPacketFilter == Spec => ImplementsPacketFilter
<1>1. Init => Filter!Init
  BY DEF Init, Upf!Init, Upf!EmptyMap, Filter!Init, Filter!EmptyMap
<1>2. IInv /\ [Next]_vars => [Filter!Next]_Filter!vars
  <2> SUFFICES ASSUME IInv, [Next]_vars
               PROVE  [Filter!Next]_Filter!vars
    OBVIOUS
  <2>1. CASE SessionHandler
    BY <2>1, SessionsRefine
  <2>2. CASE UNCHANGED <<sessions, ueToSession, callVars>>
    BY <2>2, Stutters DEF callVars, Answers
  <2>3. CASE WorkerTakes
    BY <2>3, Stutters DEF WorkerTakes, upfVars, Answers
  <2> QED
    BY <2>1, <2>2, <2>3, NextCases, HandlerRefines, WorkRefines
       DEF Quiet, ScrapeReads, ScrapeEnds, ScrapeOfDestroyed, MainStarts, SignalStops, MainDrains,
           MainReports, PoolEnds, MainLeaves, serviceVars, upfVars, vars
<1>3. IInv /\ [Next]_vars => IInv'
  BY NextInvariant
<1> QED
  BY <1>1, <1>2, <1>3, InitInvariant, PTL DEF Spec, ImplementsPacketFilter, Filter!Spec

(***************************************************************************)
(* The parts the service is composed of.                                   *)
(***************************************************************************)
LEMMA PoolUse ==
  ASSUME [Next]_vars
  PROVE  [Pool!Next]_Pool!vars
<1>1. ASSUME NEW c \in Calls, Dispatch(c) \/ Work(c)
      PROVE  [Pool!Next]_Pool!vars
  BY <1>1 DEF Dispatch, Work, LooksUp, WritesResponse, Tallies, SetsPromise, TaskEnds, poolVars,
              Pool!Next, Pool!vars
<1>2. CASE WorkerTakes \/ PoolEnds
  BY <1>2 DEF WorkerTakes, PoolEnds, Pool!Next
<1>3. CASE UNCHANGED poolVars
  BY <1>3 DEF poolVars, Pool!vars
<1> QED
  BY <1>1, <1>2, <1>3
     DEF Next, Threads, MainGoesOn, ClassifyArrives, ClassifyReturns, SessionHandler, ScrapeReads,
         ScrapeEnds, ScrapeOfDestroyed, MainStarts, SignalStops, MainDrains, MainReports,
         MainLeaves, serviceVars, vars

(* The handlers, the workers and the destructor use the pool only as its   *)
(* promises allow: no call is queued twice, none after the pool is closed. *)
THEOREM ServerUsesPool == Spec => Pool!Spec
<1>1. Init => Pool!Init
  BY DEF Init
<1>2. [Next]_vars => [Pool!Next]_Pool!vars
  BY PoolUse
<1> QED
  BY <1>1, <1>2, PTL DEF Spec, Pool!Spec

(* enqueue accepts a task whenever it is called.  Pool!Submit, which wants *)
(* an open pool and a new task, leaves nothing of that out: see below.     *)
PoolInv ==
  /\ phase # "open" => main \in {"leaving", "exited", "crashed"}
  /\ running \cup finished \subseteq Calls
  /\ \A c \in running \cup finished : step[c] # "none"

EnqueuesInTime ==
  \A c \in Calls :
    handler[c] = "dispatch" =>
      /\ phase = "open"
      /\ c \notin running \cup finished
      /\ \A i \in 1 .. Len(queue) : queue[i] # c

LEMMA PoolInvStep ==
  ASSUME IInv, PoolInv, [Next]_vars
  PROVE  PoolInv'
<1> USE DEF IInv, TypeOK, PoolInv
<1>1. ASSUME NEW c \in Calls, Dispatch(c) \/ Work(c) \/ ClassifyReturns(c)
      PROVE  PoolInv'
  <2>1. CASE Dispatch(c)
    BY <1>1, <2>1 DEF Dispatch, Pool!Submit, poolVars, restVars
  <2>2. CASE LooksUp(c) \/ WritesResponse(c) \/ Tallies(c) \/ SetsPromise(c)
    <3>0. step[c] = "promise" => numThreads > 0
      BY DEF CallsInv, CallInv
    <3>1. \A d \in Calls : step'[d] # "none" \/ step'[d] = step[d]
      <4>1. PICK this \in {"lookup", "write", "tally", "promise"} : Performs(c, this)
        BY <2>2 DEF LooksUp, WritesResponse, Tallies, SetsPromise
      <4>2. step[c] = this
        BY <4>1 DEF Performs
      <4>3. CASE numThreads > 0
        BY <4>1, <4>3 DEF Performs, TaskOrder
      <4>4. CASE ~ numThreads > 0
        BY <3>0, <4>1, <4>2, <4>4 DEF Performs, InlineOrder
      <4> QED
        BY <4>3, <4>4
    <3>2. UNCHANGED <<poolVars, main>>
      BY <2>2 DEF LooksUp, WritesResponse, Tallies, SetsPromise, restVars
    <3> QED
      BY <3>1, <3>2 DEF poolVars
  <2>4. CASE ClassifyReturns(c)
    BY <2>4 DEF ClassifyReturns, poolVars, restVars
  <2>3. CASE TaskEnds(c)
    BY <1>1, <2>3 DEF TaskEnds, Pool!Finish, callVars, restVars
  <2> QED
    BY <1>1, <2>1, <2>2, <2>3, <2>4 DEF Work
<1>2. CASE WorkerTakes
  <2>1. Head(queue) \in Calls
    BY <1>2 DEF WorkerTakes, Pool!Start, QueueInv
  <2>2. running' = running \cup {Head(queue)} /\ UNCHANGED <<finished, phase, main>>
    BY <1>2 DEF WorkerTakes, Pool!Start, restVars
  <2>3. step' = [step EXCEPT ![Head(queue)] = "lookup"]
    BY <1>2 DEF WorkerTakes
  <2> QED
    BY <2>1, <2>2, <2>3
<1>3. CASE PoolEnds
  BY <1>3 DEF PoolEnds, Pool!Close, Pool!Vanish, callVars, restVars
<1>4. CASE \/ \E c \in Calls, p \in Packets : ClassifyArrives(c, p)
           \/ SessionHandler \/ ScrapeReads \/ ScrapeEnds \/ UNCHANGED vars
  BY <1>4 DEF ClassifyArrives, SessionHandler, ScrapeReads, ScrapeEnds, serviceVars, poolVars,
              callVars, restVars, vars
<1>5. CASE MainStarts \/ SignalStops \/ MainDrains \/ MainReports \/ MainLeaves \/ ScrapeOfDestroyed
  <2>1. UNCHANGED <<poolVars, step>>
    BY <1>5 DEF MainStarts, SignalStops, MainDrains, MainReports, MainLeaves, ScrapeOfDestroyed,
                serviceVars, callVars
  <2>2. main \in {"leaving", "exited", "crashed"} => main' \in {"leaving", "exited", "crashed"}
    BY <1>5 DEF MainStarts, SignalStops, MainDrains, MainReports, MainLeaves, ScrapeOfDestroyed,
                Process!StartExporter, Process!StartServer, Process!StartFails,
                Process!PublishServer, Process!ShutdownOnSignal, Process!WaitReturns,
                Process!Report, Process!LeaveMain, Process!Crash, Process!Moves
  <2> QED
    BY <2>1, <2>2 DEF poolVars
<1> QED
  BY <1>1, <1>2, <1>3, <1>4, <1>5 DEF Next, Threads, MainGoesOn

(* No handler is ever at its call of enqueue when main destroys the pool   *)
(* or has destroyed it, with the workers about to leave or gone: the task  *)
(* would stay in the queue, its promise unset and the handler waiting.     *)
(* And no call is queued twice, so that its promise is set once.           *)
THEOREM HandlersEnqueueInTime == Spec => []EnqueuesInTime
<1>1. Init => IInv /\ PoolInv
  BY InitInvariant DEF Init, Pool!Init, PoolInv
<1>2. IInv /\ PoolInv /\ [Next]_vars => IInv' /\ PoolInv'
  BY NextInvariant, PoolInvStep
<1>3. IInv /\ PoolInv => EnqueuesInTime
  <2> SUFFICES ASSUME IInv, PoolInv, NEW c \in Calls, handler[c] = "dispatch"
               PROVE  /\ phase = "open"
                      /\ c \notin running \cup finished
                      /\ \A i \in 1 .. Len(queue) : queue[i] # c
    BY DEF EnqueuesInTime
  <2>1. step[c] = "none"
    BY DEF IInv, CallsInv, CallInv
  <2>2. ~ HandlersReturned
    BY DEF HandlersReturned
  <2> QED
    BY <2>1, <2>2 DEF IInv, MainInv, QueueInv, PoolInv
<1> QED
  BY <1>1, <1>2, <1>3, PTL DEF Spec

LEMMA SessionsUse ==
  ASSUME [Next]_vars
  PROVE  [Upf!Next]_Upf!vars
<1>1. CASE SessionHandler
  BY <1>1 DEF SessionHandler, Upf!Next
<1>2. CASE UNCHANGED upfVars
  BY <1>2 DEF upfVars, Upf!vars
<1> QED
  BY <1>1, <1>2
     DEF Next, Threads, MainGoesOn, ClassifyArrives, Dispatch, ClassifyReturns, Work, LooksUp,
         WritesResponse, Tallies, SetsPromise, TaskEnds, WorkerTakes, PoolEnds, ScrapeReads,
         ScrapeEnds, ScrapeOfDestroyed, MainStarts, SignalStops, MainDrains, MainReports,
         MainLeaves, serviceVars, restVars, vars

(* The service changes its session table only by the session handlers.     *)
THEOREM ServerUsesSessions == Spec => Upf!Spec
<1>1. Init => Upf!Init
  BY DEF Init
<1>2. [Next]_vars => [Upf!Next]_Upf!vars
  BY SessionsUse
<1> QED
  BY <1>1, <1>2, PTL DEF Spec, Upf!Spec

(* Whatever session handlers run between the packets, no worker ever finds *)
(* a route without its session: the at() of classify, which would throw    *)
(* on a thread that catches nothing, succeeds.                             *)
THEOREM ServerRoutesWellFormed == Spec => []Upf!RouteWellFormed
<1>1. IInv => Upf!RouteWellFormed
  BY DEF IInv, SessionsInv, Upf!RouteWellFormed
<1>2. IInv /\ [Next]_vars => IInv'
  BY NextInvariant
<1> QED
  BY <1>1, <1>2, InitInvariant, PTL DEF Spec
===============================================================================
