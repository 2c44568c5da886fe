--------------------------- MODULE ThreadPoolProofs ---------------------------
(***************************************************************************)
(* Proofs about ThreadPool, for any number of workers, tasks and wake-ups  *)
(* without a notification.                                                 *)
(***************************************************************************)
EXTENDS ThreadPool, FiniteSetTheorems, TLAPS

(***************************************************************************)
(* The inductive invariant.                                                *)
(***************************************************************************)
(* Who holds the mutex, and what those at rest know: a worker that is      *)
(* about to wait has seen an empty queue and no stop, and still holds the  *)
(* mutex; one that left has seen an empty queue after the stop.            *)
Control ==
  /\ \A w \in Workers : worker[w] \in {"check", "block"} <=> queueMutex = w
  /\ stop <=> destructor # "alive"
  /\ destructor # "alive" => \A t \in Tasks : caller[t] \in {"idle", "returned"}
  /\ \A w \in Workers : worker[w] = "block" => ~ stop /\ tasks = <<>>
  /\ \A w \in Workers : worker[w] = "exited" => stop /\ tasks = <<>>
  /\ destructor \in {"join", "destroyed"} => \A w \in Workers : worker[w] # "waiting"
  /\ destructor = "destroyed" => \A w \in Workers : worker[w] = "exited"

(* A task pushed is in one place of the queue, with one worker, or done.   *)
TaskOnce ==
  /\ \A i \in 1 .. Len(tasks) :
       /\ caller[tasks[i]] # "idle"
       /\ tasks[i] \notin executed
       /\ \A w \in Executing : task[w] # tasks[i]
  /\ \A i, j \in 1 .. Len(tasks) : tasks[i] = tasks[j] => i = j
  /\ \A w \in Executing : caller[task[w]] # "idle" /\ task[w] \notin executed
  /\ \A w, v \in Executing : task[w] = task[v] => w = v
  /\ \A t \in executed : caller[t] # "idle"

NothingLost ==
  \A t \in Tasks :
    caller[t] # "idle" =>
      t \in executed \/ (\E w \in Executing : task[w] = t) \/ \E i \in 1 .. Len(tasks) : tasks[i] = t

PInv == TypeOK /\ Control /\ TaskOnce /\ NothingLost

LEMMA InitPool == Init => PInv
<1> SUFFICES ASSUME Init PROVE PInv
  OBVIOUS
<1>1. TypeOK
  <2>1. tasks \in Seq(Tasks) /\ executed \in SUBSET Tasks /\ spurious \in 0 .. MaxSpurious
    BY PoolAssumption DEF Init
  <2>2. task \in [Workers -> Tasks \cup {NoTask}] /\ caller \in [Tasks -> {"idle"}]
    BY DEF Init
  <2> QED
    BY <2>1, <2>2 DEF Init, TypeOK
<1>2. Control
  <2>1. /\ \A w \in Workers : worker[w] = "lock" /\ w # queueMutex
        /\ stop = FALSE /\ destructor = "alive"
    BY PoolAssumption DEF Init
  <2> QED
    BY <2>1 DEF Control
<1>3. TaskOnce /\ NothingLost
  BY DEF Init, TaskOnce, NothingLost, Executing
<1> QED
  BY <1>1, <1>2, <1>3 DEF PInv

LEMMA TypeStep == TypeOK /\ [Next]_vars => TypeOK'
<1> SUFFICES ASSUME TypeOK, [Next]_vars PROVE TypeOK'
  OBVIOUS
<1> USE PoolAssumption DEF TypeOK, Goes
<1>1. ASSUME NEW w \in Workers, WorkerLocks(w) PROVE TypeOK'
  BY <1>1 DEF WorkerLocks
<1>2. ASSUME NEW w \in Workers, WorkerFindsNothing(w) PROVE TypeOK'
  BY <1>2 DEF WorkerFindsNothing
<1>3. ASSUME NEW w \in Workers, WorkerBlocks(w) PROVE TypeOK'
  BY <1>3 DEF WorkerBlocks
<1>4. ASSUME NEW w \in Workers, WorkerExits(w) PROVE TypeOK'
  BY <1>4 DEF WorkerExits
<1>5. ASSUME NEW w \in Workers, WorkerTakes(w) PROVE TypeOK'
  <2>1. tasks # <<>> /\ tasks' = Tail(tasks) /\ task' = [task EXCEPT ![w] = Head(tasks)]
    BY <1>5 DEF WorkerTakes, MustWait, MayExit, QueuePopped, FrontTask
  <2>2. Head(tasks) \in Tasks /\ tasks' \in Seq(Tasks)
    BY <2>1
  <2> QED
    BY <1>5, <2>1, <2>2 DEF WorkerTakes
<1>6. ASSUME NEW w \in Workers, WorkerRuns(w) PROVE TypeOK'
  BY <1>6 DEF WorkerRuns
<1>7. ASSUME NEW w \in Workers, WorkerCounts(w) PROVE TypeOK'
  BY <1>7 DEF WorkerCounts, TaskDropped
<1>8. ASSUME NEW w \in Workers, SpuriousWakeup(w) PROVE TypeOK'
  BY <1>8 DEF SpuriousWakeup
<1>9. ASSUME NEW t \in Tasks, Push(t) PROVE TypeOK'
  BY <1>9 DEF Push
<1>10. ASSUME NEW t \in Tasks, NotifyOne(t) PROVE TypeOK'
  BY <1>10 DEF NotifyOne, Waiting
<1>11. ASSUME NEW t \in Tasks, CountSubmitted(t) PROVE TypeOK'
  BY <1>11 DEF CountSubmitted
<1>12. CASE DestructorStops
  BY <1>12 DEF DestructorStops
<1>13. CASE DestructorNotifies
  BY <1>13 DEF DestructorNotifies, Waiting
<1>14. CASE DestructorReturns
  BY <1>14 DEF DestructorReturns
<1>15. CASE UNCHANGED vars
  BY <1>15 DEF vars
<1> QED
  BY <1>1, <1>2, <1>3, <1>4, <1>5, <1>6, <1>7, <1>8, <1>9, <1>10, <1>11, <1>12, <1>13, <1>14, <1>15
     DEF Next, WorkerStep

(* What moving the front task out does to the queue.                       *)
LEMMA TakeStep ==
  ASSUME TypeOK, NEW w \in Workers, WorkerTakes(w)
  PROVE  /\ Len(tasks) > 0 /\ tasks # <<>>
         /\ task' = [task EXCEPT ![w] = tasks[1]]
         /\ worker' = [worker EXCEPT ![w] = "run"]
         /\ Len(tasks') = Len(tasks) - 1
         /\ \A i \in 1 .. Len(tasks') : tasks'[i] = tasks[i + 1]
         /\ tasks[1] \in Tasks /\ worker[w] = "check" /\ task[w] = NoTask
<1>1. tasks # <<>> /\ tasks \in Seq(Tasks)
  BY DEF WorkerTakes, MustWait, MayExit, TypeOK
<1>2. tasks' = Tail(tasks) /\ Head(tasks) = tasks[1]
  BY <1>1 DEF WorkerTakes, QueuePopped
<1> QED
  BY <1>1, <1>2 DEF WorkerTakes, FrontTask, Goes, TypeOK

LEMMA PushStep ==
  ASSUME TypeOK, NEW t \in Tasks, Push(t)
  PROVE  /\ Len(tasks') = Len(tasks) + 1 /\ tasks' # <<>>
         /\ \A i \in 1 .. Len(tasks) : tasks'[i] = tasks[i]
         /\ tasks'[Len(tasks) + 1] = t
  BY DEF Push, TypeOK

LEMMA ControlStep == TypeOK /\ Control /\ [Next]_vars => Control'
<1> SUFFICES ASSUME TypeOK, Control, [Next]_vars PROVE Control'
  OBVIOUS
<1> USE PoolAssumption DEF TypeOK, Goes
<1>1. ASSUME NEW w \in Workers, WorkerLocks(w) PROVE Control'
  BY <1>1 DEF WorkerLocks, Control
<1>2. ASSUME NEW w \in Workers, WorkerFindsNothing(w) PROVE Control'
  BY <1>2 DEF WorkerFindsNothing, MustWait, Control
<1>3. ASSUME NEW w \in Workers, WorkerBlocks(w) PROVE Control'
  BY <1>3 DEF WorkerBlocks, Control
<1>4. ASSUME NEW w \in Workers, WorkerExits(w) PROVE Control'
  BY <1>4 DEF WorkerExits, MayExit, Control
<1>5. ASSUME NEW w \in Workers, WorkerTakes(w) PROVE Control'
  <2>1. /\ worker' = [worker EXCEPT ![w] = "run"] /\ worker[w] = "check"
        /\ tasks # <<>> /\ UNCHANGED <<stop, caller, destructor>> /\ queueMutex' = Nobody
    BY <1>5, TakeStep DEF WorkerTakes
  <2> QED
    BY <2>1 DEF Control
<1>6. ASSUME NEW w \in Workers, WorkerRuns(w) PROVE Control'
  BY <1>6 DEF WorkerRuns, Control
<1>7. ASSUME NEW w \in Workers, WorkerCounts(w) PROVE Control'
  BY <1>7 DEF WorkerCounts, Control
<1>8. ASSUME NEW w \in Workers, SpuriousWakeup(w) PROVE Control'
  BY <1>8 DEF SpuriousWakeup, Control
<1>9. ASSUME NEW t \in Tasks, Push(t) PROVE Control'
  BY <1>9, PushStep DEF Push, Control
<1>10. ASSUME NEW t \in Tasks, NotifyOne(t) PROVE Control'
  BY <1>10 DEF NotifyOne, Waiting, Control
<1>11. ASSUME NEW t \in Tasks, CountSubmitted(t) PROVE Control'
  BY <1>11 DEF CountSubmitted, Control
<1>12. CASE DestructorStops
  BY <1>12 DEF DestructorStops, StopsUnderMutex, Control
<1>13. CASE DestructorNotifies
  BY <1>13 DEF DestructorNotifies, Waiting, Control
<1>14. CASE DestructorReturns
  BY <1>14 DEF DestructorReturns, Control
<1>15. CASE UNCHANGED vars
  BY <1>15 DEF vars, Control
<1> QED
  BY <1>1, <1>2, <1>3, <1>4, <1>5, <1>6, <1>7, <1>8, <1>9, <1>10, <1>11, <1>12, <1>13, <1>14, <1>15
     DEF Next, WorkerStep

(* The steps that move no task.                                            *)
LEMMA IdleStep ==
  ASSUME PInv, [Next]_vars
  PROVE  \/ \E w \in Workers : WorkerTakes(w) \/ WorkerRuns(w)
         \/ \E t \in Tasks : Push(t)
         \/ /\ UNCHANGED <<tasks, executed, Executing>>
            /\ \A w \in Executing : task'[w] = task[w]
            /\ \A t \in Tasks : caller'[t] = "idle" <=> caller[t] = "idle"
  BY DEF Goes, Waiting, Executing, Next, WorkerStep, WorkerLocks, WorkerFindsNothing, WorkerBlocks,
         WorkerExits, WorkerCounts, SpuriousWakeup, NotifyOne, CountSubmitted, DestructorStops, DestructorNotifies,
         DestructorReturns, vars, PInv, TypeOK

LEMMA TaskStep == PInv /\ [Next]_vars => TaskOnce' /\ NothingLost'
<1> SUFFICES ASSUME PInv, [Next]_vars PROVE TaskOnce' /\ NothingLost'
  OBVIOUS
<1> USE PoolAssumption DEF PInv
<1>0. TypeOK'
  BY TypeStep
<1>1. ASSUME NEW w \in Workers, WorkerTakes(w) PROVE TaskOnce' /\ NothingLost'
  <2>0. UNCHANGED <<executed, caller>>
    BY <1>1 DEF WorkerTakes
  <2>1. TaskOnce'
    <3> DEFINE first == tasks[1]
    <3>1. /\ task'[w] = first /\ Executing' = Executing \cup {w} /\ w \notin Executing
          /\ \A v \in Executing : v # w /\ task'[v] = task[v]
      BY <1>1, TakeStep DEF TypeOK, Executing
    <3>2. /\ \A v \in Executing : task[v] # first
          /\ caller[first] # "idle" /\ first \notin executed
          /\ \A i \in 1 .. Len(tasks) : i # 1 => tasks[i] # first
      BY <1>1, TakeStep DEF TaskOnce, TypeOK
    <3>3. \A i \in 1 .. Len(tasks') : /\ tasks'[i] = tasks[i + 1]
                                     /\ i + 1 \in 1 .. Len(tasks) /\ i + 1 # 1
      BY <1>1, TakeStep DEF TypeOK
    <3>4. \A i \in 1 .. Len(tasks') :
            /\ caller[tasks'[i]] # "idle"
            /\ tasks'[i] \notin executed
            /\ \A v \in Executing' : task'[v] # tasks'[i]
      BY <3>1, <3>2, <3>3 DEF TaskOnce
    <3>5. \A i, j \in 1 .. Len(tasks') : tasks'[i] = tasks'[j] => i = j
      BY <3>3 DEF TaskOnce
    <3>6. \A v \in Executing' : caller[task'[v]] # "idle" /\ task'[v] \notin executed
      BY <3>1, <3>2 DEF TaskOnce
    <3>7. \A u, v \in Executing' : task'[u] = task'[v] => u = v
      BY <3>1, <3>2 DEF TaskOnce
    <3> QED
      BY <2>0, <3>4, <3>5, <3>6, <3>7 DEF TaskOnce
  <2>2. NothingLost'
    <3>1. ASSUME NEW i \in 1 .. Len(tasks), i # 1
          PROVE  \E j \in 1 .. Len(tasks') : tasks'[j] = tasks[i]
      <4>1. i - 1 \in 1 .. Len(tasks') /\ tasks'[i - 1] = tasks[i]
        BY <1>1, <3>1, TakeStep DEF TypeOK
      <4> QED
        BY <4>1
    <3>2. /\ task'[w] = tasks[1] /\ Executing' = Executing \cup {w}
          /\ \A v \in Executing : task'[v] = task[v]
      BY <1>1, TakeStep DEF TypeOK, Executing
    <3>3. ASSUME NEW t \in Tasks, caller[t] # "idle", t \notin executed
          PROVE  (\E v \in Executing' : task'[v] = t) \/ \E i \in 1 .. Len(tasks') : tasks'[i] = t
      <4>1. CASE \E v \in Executing : task[v] = t
        BY <3>2, <4>1
      <4>2. CASE \E i \in 1 .. Len(tasks) : tasks[i] = t
        BY <3>1, <3>2, <4>2
      <4> QED
        BY <3>3, <4>1, <4>2 DEF NothingLost
    <3> QED
      BY <2>0, <3>3 DEF NothingLost
  <2> QED
    BY <2>1, <2>2
<1>2. ASSUME NEW w \in Workers, WorkerRuns(w) PROVE TaskOnce' /\ NothingLost'
  <2>1. TaskOnce'
    BY <1>2 DEF WorkerRuns, Goes, Executing, TaskOnce, TypeOK
  <2>2. NothingLost'
    BY <1>2 DEF WorkerRuns, Goes, Executing, NothingLost, TypeOK
  <2> QED
    BY <2>1, <2>2
<1>3. ASSUME NEW t \in Tasks, Push(t) PROVE TaskOnce' /\ NothingLost'
  <2>1. TaskOnce'
    BY <1>3, PushStep DEF Push, Executing, TaskOnce, TypeOK
  <2>2. NothingLost'
    BY <1>3, PushStep DEF Push, Executing, NothingLost, TypeOK
  <2> QED
    BY <2>1, <2>2
<1>4. CASE /\ UNCHANGED <<tasks, executed, Executing>>
           /\ \A w \in Executing : task'[w] = task[w]
           /\ \A t \in Tasks : caller'[t] = "idle" <=> caller[t] = "idle"
  <2>1. Executing' = Executing /\ tasks' = tasks /\ executed' = executed
    BY <1>4
  <2>2. TaskOnce'
    BY <1>4, <2>1 DEF TaskOnce, TypeOK, Executing
  <2>3. NothingLost'
    BY <1>4, <2>1 DEF NothingLost
  <2> QED
    BY <2>2, <2>3
<1> QED
  BY <1>1, <1>2, <1>3, <1>4, IdleStep

LEMMA PoolStep == PInv /\ [Next]_vars => PInv'
  BY TypeStep, ControlStep, TaskStep DEF PInv

(* However workers, callers and destructor interleave, the state of the    *)
(* pool stays well typed: the queue holds tasks only, each thread is at    *)
(* one of its program points.                                              *)
THEOREM PoolTypeCorrect == Spec => []TypeOK
<1>1. PInv => TypeOK
  BY DEF PInv
<1> QED
  BY <1>1, InitPool, PoolStep, PTL DEF Spec

(* Once the destructor joins, no worker waits or is about to.              *)
THEOREM StopReachesAll == Spec => []StopReachesEveryone
<1>1. PInv => StopReachesEveryone
  BY DEF PInv, TypeOK, Control, StopReachesEveryone
<1> QED
  BY <1>1, InitPool, PoolStep, PTL DEF Spec

(***************************************************************************)
(* Wake-ups.                                                               *)
(***************************************************************************)
Awake == {w \in Workers : worker[w] \in {"lock", "check"}}
Notifying == {t \in Tasks : caller[t] = "notify"}
Submitted == {t \in Tasks : caller[t] # "idle"}

(* Finitely many tasks have been submitted so far, of whatever there are.  *)
FInv == IsFiniteSet(Submitted)

LEMMA SetChanges ==
  ASSUME NEW S, NEW e, IsFiniteSet(S)
  PROVE  /\ Cardinality(S) \in Nat
         /\ e \notin S => IsFiniteSet(S \cup {e}) /\ Cardinality(S \cup {e}) = Cardinality(S) + 1
         /\ e \in S => IsFiniteSet(S \ {e}) /\ Cardinality(S \ {e}) = Cardinality(S) - 1
  BY FS_CardinalityType, FS_AddElement, FS_RemoveElement

LEMMA SubmittedStep == TypeOK /\ FInv /\ [Next]_vars => FInv'
<1> SUFFICES ASSUME TypeOK, FInv, [Next]_vars PROVE FInv'
  OBVIOUS
<1>1. ASSUME NEW t \in Tasks, Push(t) PROVE FInv'
  <2>1. Submitted' = Submitted \cup {t}
    BY <1>1 DEF Push, Submitted, TypeOK
  <2> QED
    BY <2>1, FS_AddElement DEF FInv
<1>2. CASE \A t \in Tasks : caller'[t] = "idle" <=> caller[t] = "idle"
  BY <1>2 DEF FInv, Submitted
<1>3. (\E t \in Tasks : Push(t)) \/ \A t \in Tasks : caller'[t] = "idle" <=> caller[t] = "idle"
  BY DEF Next, WorkerStep, WorkerLocks, WorkerFindsNothing, WorkerBlocks, WorkerExits, WorkerTakes,
         WorkerRuns, WorkerCounts, SpuriousWakeup, NotifyOne, CountSubmitted, DestructorStops,
         DestructorNotifies, DestructorReturns, vars, TypeOK
<1> QED
  BY <1>1, <1>2, <1>3

LEMMA FinitePool ==
  ASSUME TypeOK, FInv
  PROVE  /\ IsFiniteSet(Awake) /\ Cardinality(Awake) \in Nat
         /\ IsFiniteSet(Notifying) /\ Cardinality(Notifying) \in Nat
<1>1. Awake \subseteq Workers /\ Notifying \subseteq Submitted
  BY DEF Awake, Notifying, Submitted
<1>2. IsFiniteSet(Awake) /\ IsFiniteSet(Notifying)
  BY <1>1, FS_Subset, PoolAssumption DEF FInv
<1> QED
  BY <1>2, FS_CardinalityType

(* A worker that wakes, and one that turns to a task or to sleep.          *)
LEMMA AwakeStep ==
  ASSUME TypeOK, FInv, NEW w \in Workers, NEW label, worker' = [worker EXCEPT ![w] = label]
  PROVE  /\ w \in Awake /\ label \in {"lock", "check"} => Awake' = Awake
         /\ w \in Awake /\ label \notin {"lock", "check"} => Cardinality(Awake') = Cardinality(Awake) - 1
         /\ w \notin Awake /\ label \in {"lock", "check"} => Cardinality(Awake') = Cardinality(Awake) + 1
         /\ w \notin Awake /\ label \notin {"lock", "check"} => Awake' = Awake
<1>1. label \in {"lock", "check"} => Awake' = Awake \cup {w}
  BY DEF Awake, TypeOK
<1>2. label \notin {"lock", "check"} => Awake' = Awake \ {w}
  BY DEF Awake, TypeOK
<1>3. w \in Awake => Awake \cup {w} = Awake
  OBVIOUS
<1>4. w \notin Awake => Awake \ {w} = Awake
  OBVIOUS
<1> QED
  BY <1>1, <1>2, <1>3, <1>4, FinitePool, SetChanges

LEMMA StrandedUnfolded ==
  NoStrandedTask <=> (Waiting # {} => Len(tasks) <= Cardinality(Awake) + Cardinality(Notifying))
  BY DEF NoStrandedTask, Awake, Notifying

LEMMA StrandedStep ==
  ASSUME PInv, FInv, NoStrandedTask, [Next]_vars
  PROVE  NoStrandedTask'
<1> USE DEF PInv, Goes
<1>0. /\ Cardinality(Awake) \in Nat /\ Cardinality(Notifying) \in Nat /\ Len(tasks) \in Nat
      /\ Waiting # {} => Len(tasks) <= Cardinality(Awake) + Cardinality(Notifying)
  BY FinitePool, StrandedUnfolded DEF TypeOK
<1> SUFFICES Waiting' # {} => Len(tasks)' <= Cardinality(Awake)' + Cardinality(Notifying)'
  BY DEF NoStrandedTask, Awake, Notifying
<1> DEFINE Fine == Waiting' # {} => Len(tasks)' <= Cardinality(Awake)' + Cardinality(Notifying)'
<1>1. ASSUME NEW w \in Workers, WorkerLocks(w) PROVE Fine
  <2>1. Awake' = Awake /\ Waiting' = Waiting /\ Notifying' = Notifying
    BY <1>1, AwakeStep DEF WorkerLocks, Awake, Waiting, Notifying, TypeOK
  <2> QED
    BY <1>0, <1>1, <2>1 DEF WorkerLocks
<1>2. ASSUME NEW w \in Workers, WorkerFindsNothing(w) \/ WorkerBlocks(w) \/ WorkerExits(w) PROVE Fine
  <2>1. tasks' = <<>>
    BY <1>2 DEF WorkerFindsNothing, WorkerBlocks, WorkerExits, MustWait, MayExit, Control
  <2>2. Cardinality(Awake') \in Nat /\ Cardinality(Notifying') \in Nat
    <3>1. Awake' \subseteq Workers /\ Notifying' = Notifying
      BY <1>2 DEF WorkerFindsNothing, WorkerBlocks, WorkerExits, Awake, Notifying
    <3> QED
      BY <1>0, <3>1, FS_Subset, FS_CardinalityType, PoolAssumption
  <2> QED
    BY <2>1, <2>2
<1>3. ASSUME NEW w \in Workers, WorkerTakes(w) PROVE Fine
  <2>1. w \in Awake /\ worker' = [worker EXCEPT ![w] = "run"]
    BY <1>3, TakeStep DEF Awake
  <2>2. Cardinality(Awake') = Cardinality(Awake) - 1
    <3>1. "run" \notin {"lock", "check"}
      OBVIOUS
    <3> HIDE DEF PInv, Goes
    <3>2. TypeOK
      BY DEF PInv
    <3> QED
      BY <2>1, <3>1, <3>2, AwakeStep
  <2>3. Waiting' = Waiting /\ Notifying' = Notifying
    BY <1>3, <2>1 DEF WorkerTakes, Waiting, Awake, Notifying, TypeOK
  <2> QED
    BY <1>0, <1>3, <2>2, <2>3, TakeStep
<1>4. ASSUME NEW w \in Workers, WorkerRuns(w) PROVE Fine
  <2>1. Awake' = Awake /\ Waiting' = Waiting /\ Notifying' = Notifying
    BY <1>4 DEF WorkerRuns, Awake, Waiting, Notifying, TypeOK
  <2> QED
    BY <1>0, <1>4, <2>1 DEF WorkerRuns
<1>5. ASSUME NEW w \in Workers, WorkerCounts(w) \/ SpuriousWakeup(w) PROVE Fine
  <2>1. w \notin Awake /\ worker' = [worker EXCEPT ![w] = "lock"] /\ UNCHANGED <<tasks, caller>>
    BY <1>5 DEF WorkerCounts, SpuriousWakeup, Awake
  <2>2. Cardinality(Awake') = Cardinality(Awake) + 1
    BY <2>1, AwakeStep
  <2>3. Waiting' \subseteq Waiting /\ Notifying' = Notifying
    BY <2>1 DEF Waiting, Notifying, TypeOK
  <2> QED
    BY <1>0, <2>1, <2>2, <2>3
<1>6. ASSUME NEW t \in Tasks, Push(t) PROVE Fine
  <2>1. t \notin Notifying /\ Notifying' = Notifying \cup {t}
    BY <1>6 DEF Push, Notifying, TypeOK
  <2>2. Cardinality(Notifying') = Cardinality(Notifying) + 1
    BY <2>1, FinitePool, SetChanges
  <2>3. Awake' = Awake /\ Waiting' = Waiting
    BY <1>6 DEF Push, Awake, Waiting
  <2> QED
    BY <1>0, <1>6, <2>2, <2>3, PushStep
<1>7. ASSUME NEW t \in Tasks, NotifyOne(t), Waiting # {} PROVE Fine
  <2>1. t \in Notifying /\ Notifying' = Notifying \ {t}
    BY <1>7 DEF NotifyOne, Notifying, TypeOK
  <2>2. Cardinality(Notifying') = Cardinality(Notifying) - 1
    BY <2>1, FinitePool, SetChanges
  <2>3. PICK w \in Waiting : worker' = [worker EXCEPT ![w] = "lock"]
    BY <1>7 DEF NotifyOne
  <2>4. w \in Workers /\ w \notin Awake
    BY DEF Waiting, Awake
  <2>5. Cardinality(Awake') = Cardinality(Awake) + 1
    BY <2>3, <2>4, AwakeStep
  <2> QED
    BY <1>0, <1>7, <2>2, <2>5 DEF NotifyOne
<1>8. ASSUME NEW t \in Tasks, NotifyOne(t), Waiting = {} PROVE Fine
  BY <1>8 DEF NotifyOne, Waiting
<1>9. ASSUME NEW t \in Tasks, CountSubmitted(t) PROVE Fine
  <2>1. Awake' = Awake /\ Waiting' = Waiting /\ Notifying' = Notifying
    BY <1>9 DEF CountSubmitted, Awake, Waiting, Notifying, TypeOK
  <2> QED
    BY <1>0, <1>9, <2>1 DEF CountSubmitted
<1>10. CASE DestructorNotifies
  BY <1>10 DEF DestructorNotifies, Waiting, TypeOK
<1>11. CASE DestructorStops \/ DestructorReturns \/ UNCHANGED vars
  <2>1. Awake' = Awake /\ Waiting' = Waiting /\ Notifying' = Notifying /\ tasks' = tasks
    BY <1>11 DEF DestructorStops, DestructorReturns, vars, Awake, Waiting, Notifying
  <2> QED
    BY <1>0, <2>1
<1> QED
  BY <1>1, <1>2, <1>3, <1>4, <1>5, <1>6, <1>7, <1>8, <1>9, <1>10, <1>11 DEF Next, WorkerStep

(* While a worker sleeps, each queued task has a worker on its way to look *)
(* for it or a notification to come, whatever the wake-ups and threads.    *)
THEOREM NoTaskStranded == Spec => []NoStrandedTask
<1>1. Init => PInv /\ FInv /\ NoStrandedTask
  <2> SUFFICES ASSUME Init PROVE FInv /\ NoStrandedTask
    BY InitPool
  <2>1. Submitted = {}
    BY DEF Init, Submitted
  <2>2. Waiting = {}
    BY DEF Init, Waiting
  <2> QED
    BY <2>1, <2>2, FS_EmptySet DEF FInv, NoStrandedTask
<1>2. PInv /\ FInv /\ NoStrandedTask /\ [Next]_vars => PInv' /\ FInv' /\ NoStrandedTask'
  BY PoolStep, SubmittedStep, StrandedStep DEF PInv
<1> QED
  BY <1>1, <1>2, PTL DEF Spec

(***************************************************************************)
(* The counters.                                                           *)
(***************************************************************************)
At(label) == {w \in Workers : worker[w] = label}
Returned == {t \in Tasks : caller[t] = "returned"}

(* Each counter is behind what it counts by those between two steps.       *)
Counters ==
  /\ submitted = Cardinality(Returned)
  /\ Cardinality(executed) = completed + Cardinality(At("count"))
  /\ Cardinality(Submitted) = Len(tasks) + Cardinality(At("run")) + Cardinality(executed)

LEMMA CountsAreNumbers ==
  ASSUME PInv, FInv
  PROVE  /\ IsFiniteSet(executed) /\ Cardinality(executed) \in Nat
         /\ IsFiniteSet(Returned) /\ Cardinality(Returned) \in Nat
         /\ Cardinality(Submitted) \in Nat /\ Len(tasks) \in Nat
         /\ submitted \in Nat /\ completed \in Nat
         /\ \A label : IsFiniteSet(At(label)) /\ Cardinality(At(label)) \in Nat
<1>1. executed \subseteq Submitted /\ Returned \subseteq Submitted
  BY DEF PInv, TypeOK, TaskOnce, Submitted, Returned
<1>2. \A label : IsFiniteSet(At(label))
  <2>1. \A label : At(label) \subseteq Workers
    BY DEF At
  <2> QED
    BY <2>1, FS_Subset, PoolAssumption
<1>3. IsFiniteSet(executed) /\ IsFiniteSet(Returned)
  BY <1>1, FS_Subset DEF FInv
<1>4. Len(tasks) \in Nat /\ submitted \in Nat /\ completed \in Nat
  BY DEF PInv, TypeOK
<1> QED
  BY <1>2, <1>3, <1>4, FS_CardinalityType DEF FInv

(* A worker that goes from one place to another.                           *)
LEMMA PlaceStep ==
  ASSUME PInv, FInv, NEW w \in Workers, NEW to, worker' = [worker EXCEPT ![w] = to], NEW label
  PROVE  /\ worker[w] = label /\ to # label =>
              Cardinality(At(label)') = Cardinality(At(label)) - 1
         /\ worker[w] # label /\ to = label =>
              Cardinality(At(label)') = Cardinality(At(label)) + 1
         /\ worker[w] # label /\ to # label => At(label)' = At(label)
<1>1. to = label => At(label)' = At(label) \cup {w}
  BY DEF At, PInv, TypeOK
<1>2. to # label => At(label)' = At(label) \ {w}
  BY DEF At, PInv, TypeOK
<1>3. w \in At(label) <=> worker[w] = label
  BY DEF At
<1>4. w \notin At(label) => At(label) \ {w} = At(label)
  OBVIOUS
<1> QED
  BY <1>1, <1>2, <1>3, <1>4, CountsAreNumbers, SetChanges

LEMMA CounterStep ==
  ASSUME PInv, FInv, Counters, [Next]_vars
  PROVE  Counters'
<1> DEFINE Running == Cardinality(At("run"))
           Counting == Cardinality(At("count"))
<1>0. /\ Cardinality(executed) \in Nat /\ Cardinality(Returned) \in Nat
      /\ Cardinality(Submitted) \in Nat /\ Len(tasks) \in Nat
      /\ submitted \in Nat /\ completed \in Nat /\ Running \in Nat /\ Counting \in Nat
  BY CountsAreNumbers
<1> USE DEF Goes
<1>1. ASSUME NEW w \in Workers, WorkerTakes(w) PROVE Counters'
  <2>0. TypeOK
    BY DEF PInv
  <2>1. worker' = [worker EXCEPT ![w] = "run"] /\ worker[w] = "check" /\ Len(tasks') = Len(tasks) - 1
    BY <1>1, <2>0, TakeStep
  <2>2. Running' = Running + 1 /\ Counting' = Counting
    <3>1. "check" # "run" /\ "check" # "count" /\ "run" # "count"
      OBVIOUS
    <3>2. Cardinality(At("run")') = Cardinality(At("run")) + 1
      BY <2>1, <3>1, PlaceStep
    <3>3. At("count")' = At("count")
      BY <2>1, <3>1, PlaceStep
    <3> QED
      BY <3>2, <3>3
  <2>3. Returned' = Returned /\ Submitted' = Submitted /\ UNCHANGED <<executed, submitted, completed>>
    BY <1>1 DEF WorkerTakes, Returned, Submitted
  <2> QED
    BY <1>0, <2>1, <2>2, <2>3 DEF Counters
<1>2. ASSUME NEW w \in Workers, WorkerRuns(w) PROVE Counters'
  <2>1. worker' = [worker EXCEPT ![w] = "count"] /\ worker[w] = "run"
    BY <1>2 DEF WorkerRuns
  <2>2. /\ Cardinality(At("run")') = Cardinality(At("run")) - 1
        /\ Cardinality(At("count")') = Cardinality(At("count")) + 1
    <3>1. "run" # "count"
      OBVIOUS
    <3> HIDE DEF Running, Counting
    <3> QED
      BY <2>1, <3>1, PlaceStep
  <2>3. executed' = executed \cup {task[w]} /\ task[w] \notin executed
    BY <1>2 DEF WorkerRuns, Executing, PInv, TypeOK, TaskOnce
  <2>4. Cardinality(executed') = Cardinality(executed) + 1
    BY <2>3, CountsAreNumbers, SetChanges
  <2>5. Returned' = Returned /\ Submitted' = Submitted /\ UNCHANGED <<tasks, submitted, completed>>
    BY <1>2 DEF WorkerRuns, Returned, Submitted
  <2>6. /\ Cardinality(Submitted) = Len(tasks) + Running + Cardinality(executed)
        /\ Cardinality(executed) = completed + Counting
        /\ submitted = Cardinality(Returned)
    BY DEF Counters
  <2>7. Cardinality(Submitted') = Len(tasks') + Running' + Cardinality(executed')
    BY <1>0, <2>2, <2>4, <2>5, <2>6
  <2>8. Cardinality(executed') = completed' + Counting'
    BY <1>0, <2>2, <2>4, <2>5, <2>6
  <2> QED
    BY <2>5, <2>6, <2>7, <2>8 DEF Counters
<1>3. ASSUME NEW w \in Workers, WorkerCounts(w) PROVE Counters'
  <2>1. worker' = [worker EXCEPT ![w] = "lock"] /\ worker[w] = "count" /\ completed' = completed + 1
    BY <1>3 DEF WorkerCounts
  <2>2. /\ At("run")' = At("run")
        /\ Cardinality(At("count")') = Cardinality(At("count")) - 1
    <3>1. "run" # "count" /\ "lock" # "count" /\ "lock" # "run"
      OBVIOUS
    <3> HIDE DEF Running, Counting
    <3> QED
      BY <2>1, <3>1, PlaceStep
  <2>3. Returned' = Returned /\ Submitted' = Submitted /\ UNCHANGED <<tasks, executed, submitted>>
    BY <1>3 DEF WorkerCounts, Returned, Submitted
  <2> QED
    BY <1>0, <2>1, <2>2, <2>3 DEF Counters
<1>4. ASSUME NEW t \in Tasks, Push(t) PROVE Counters'
  <2>0. TypeOK
    BY DEF PInv
  <2>1. Submitted' = Submitted \cup {t} /\ t \notin Submitted /\ Returned' = Returned
    BY <1>4, <2>0 DEF Push, Submitted, Returned, TypeOK
  <2>2. Cardinality(Submitted') = Cardinality(Submitted) + 1
    BY <2>1, SetChanges DEF FInv
  <2>3. Len(tasks') = Len(tasks) + 1
    BY <1>4, <2>0, PushStep
  <2>4. UNCHANGED <<worker, executed, submitted, completed>>
    BY <1>4 DEF Push
  <2>5. Running' = Running /\ Counting' = Counting
    BY <2>4 DEF At
  <2> QED
    BY <1>0, <2>1, <2>2, <2>3, <2>4, <2>5 DEF Counters
<1>5. ASSUME NEW t \in Tasks, CountSubmitted(t) PROVE Counters'
  <2>1. t \notin Returned /\ Returned' = Returned \cup {t} /\ Submitted' = Submitted
    BY <1>5 DEF CountSubmitted, Returned, Submitted, PInv, TypeOK
  <2>2. Cardinality(Returned') = Cardinality(Returned) + 1
    BY <2>1, CountsAreNumbers, SetChanges
  <2>3. UNCHANGED <<tasks, worker, executed, completed>> /\ submitted' = submitted + 1
    BY <1>5 DEF CountSubmitted
  <2>4. Running' = Running /\ Counting' = Counting
    BY <2>3 DEF At
  <2> QED
    BY <1>0, <2>1, <2>2, <2>3, <2>4 DEF Counters
<1>6. CASE /\ UNCHANGED <<tasks, executed, submitted, completed>>
           /\ \A w \in Workers : worker'[w] # worker[w] =>
                worker[w] \notin {"run", "count"} /\ worker'[w] \notin {"run", "count"}
           /\ \A t \in Tasks : caller'[t] # caller[t] =>
                caller[t] \notin {"idle", "returned"} /\ caller'[t] \notin {"idle", "returned"}
  <2>1. At("run")' = At("run") /\ At("count")' = At("count")
    BY <1>6 DEF At
  <2>2. Returned' = Returned /\ Submitted' = Submitted
    BY <1>6 DEF Returned, Submitted
  <2> QED
    BY <1>6, <2>1, <2>2 DEF Counters
<1>7. ASSUME NEW w \in Workers,
             \/ WorkerLocks(w) \/ WorkerFindsNothing(w) \/ WorkerBlocks(w) \/ WorkerExits(w)
             \/ SpuriousWakeup(w)
      PROVE  Counters'
  BY <1>6, <1>7 DEF WorkerLocks, WorkerFindsNothing, WorkerBlocks, WorkerExits, SpuriousWakeup,
                    PInv, TypeOK
<1>8. ASSUME NEW t \in Tasks, NotifyOne(t) PROVE Counters'
  BY <1>6, <1>8 DEF NotifyOne, Waiting, PInv, TypeOK
<1>9. CASE DestructorStops \/ DestructorNotifies \/ DestructorReturns \/ UNCHANGED vars
  BY <1>6, <1>9 DEF DestructorStops, DestructorNotifies, DestructorReturns, vars, Waiting, PInv, TypeOK
<1> QED
  BY <1>1, <1>2, <1>3, <1>4, <1>5, <1>7, <1>8, <1>9 DEF Next, WorkerStep

LEMMA CountersInit == Init => PInv /\ FInv /\ Counters
<1> SUFFICES ASSUME Init PROVE FInv /\ Counters
  BY InitPool
<1>1. Submitted = {} /\ Returned = {} /\ At("run") = {} /\ At("count") = {}
  BY DEF Init, Submitted, Returned, At
<1>2. tasks = <<>> /\ executed = {} /\ submitted = 0 /\ completed = 0
  BY DEF Init
<1>3. /\ IsFiniteSet(Submitted) /\ Cardinality(Submitted) = 0 /\ Cardinality(Returned) = 0
      /\ Cardinality(At("run")) = 0 /\ Cardinality(At("count")) = 0 /\ Cardinality(executed) = 0
  BY <1>1, <1>2, FS_EmptySet
<1>4. Len(tasks) = 0
  BY <1>2
<1> QED
  BY <1>2, <1>3, <1>4 DEF FInv, Counters

LEMMA CountersNext == PInv /\ FInv /\ Counters /\ [Next]_vars => PInv' /\ FInv' /\ Counters'
  BY PoolStep, SubmittedStep, CounterStep DEF PInv

LEMMA SettledByInv ==
  ASSUME PInv, FInv, Counters,
         \A t \in Tasks : caller[t] \in {"idle", "returned"},
         \A w \in Workers : worker[w] \notin {"run", "count"}
  PROVE  submitted = completed + Len(tasks)
<1>1. Submitted = Returned
  BY DEF Submitted, Returned
<1>2. At("run") = {} /\ At("count") = {}
  BY DEF At
<1> QED
  BY <1>1, <1>2, CountsAreNumbers, FS_EmptySet DEF Counters

(* Whatever the order in which callers and workers advance the counters,   *)
(* they agree with the queue whenever nobody is between two steps.         *)
THEOREM CountersDoSettle == Spec => []CountersSettle
<1>1. PInv /\ FInv /\ Counters => CountersSettle
  BY SettledByInv DEF CountersSettle
<1> QED
  BY <1>1, CountersInit, CountersNext, PTL DEF Spec

(* A pool that is gone has run and counted every task it was given.        *)
THEOREM DestroyedIsDrained == Spec => []DestroyedMeansDrained
<1>1. PInv /\ FInv /\ Counters => DestroyedMeansDrained
  <2> SUFFICES ASSUME PInv, FInv, Counters, destructor = "destroyed"
               PROVE  /\ tasks = <<>>
                      /\ \A t \in Tasks : caller[t] # "idle" => t \in executed
                      /\ completed = submitted
    BY DEF DestroyedMeansDrained
  <2>1. \A w \in Workers : worker[w] = "exited"
    BY DEF PInv, Control
  <2>2. tasks = <<>>
    BY <2>1, PoolAssumption DEF PInv, Control
  <2>3. \A t \in Tasks : caller[t] # "idle" => t \in executed
    BY <2>1, <2>2, PoolAssumption DEF PInv, NothingLost, Executing
  <2>4. submitted = completed + Len(tasks)
    BY <2>1, SettledByInv DEF PInv, Control
  <2>5. Len(tasks) = 0 /\ completed \in Nat
    BY <2>2 DEF PInv, TypeOK
  <2> QED
    BY <2>2, <2>3, <2>4, <2>5
<1> QED
  BY <1>1, CountersInit, CountersNext, PTL DEF Spec

(***************************************************************************)
(* The abstract specification.                                             *)
(***************************************************************************)
Held == {task[w] : w \in Executing}

LEMMA QueueStep ==
  ASSUME PInv, [Next]_vars
  PROVE  [Queue!Next]_Queue!vars
<1> USE PoolAssumption DEF PInv
<1>1. ASSUME NEW w \in Workers, WorkerTakes(w) PROVE Queue!Start
  <2>1. TypeOK /\ tasks # <<>> /\ tasks' = Tail(tasks)
    BY <1>1 DEF WorkerTakes, MustWait, MayExit, QueuePopped
  <2>2. task' = [task EXCEPT ![w] = Head(tasks)] /\ task[w] = NoTask /\ Head(tasks) \in Tasks
    BY <1>1, <2>1 DEF WorkerTakes, FrontTask, TypeOK
  <2>3. Held' = Held \cup {Head(tasks)}
    <3>1. Executing' = Executing \cup {w} /\ w \notin Executing
      BY <1>1 DEF WorkerTakes, Goes, Executing, TypeOK
    <3>2. task'[w] = Head(tasks) /\ \A v \in Executing : task'[v] = task[v]
      BY <2>2, <3>1 DEF Executing, TypeOK
    <3> QED
      BY <3>1, <3>2 DEF Held
  <2>4. UNCHANGED <<executed, destructor>>
    BY <1>1 DEF WorkerTakes
  <2> QED
    BY <2>1, <2>3, <2>4 DEF Queue!Start, Held
<1>2. ASSUME NEW w \in Workers, WorkerRuns(w) PROVE \E t \in Tasks : Queue!Finish(t)
  <2>1. PICK t \in Tasks : t = task[w]
    BY <1>2 DEF WorkerRuns, TypeOK
  <2>2. executed' = executed \cup {t} /\ UNCHANGED <<tasks, task, destructor>>
    BY <1>2, <2>1 DEF WorkerRuns
  <2>3. w \in Executing /\ Executing' = Executing \ {w}
    BY <1>2 DEF WorkerRuns, Goes, Executing, TypeOK
  <2>4. \A v \in Executing : v # w => task[v] # t
    BY <2>1, <2>3 DEF TaskOnce
  <2>5. t \in Held /\ Held' = Held \ {t}
    BY <2>1, <2>2, <2>3, <2>4 DEF Held
  <2>6. Queue!Finish(t)
    BY <2>2, <2>5 DEF Queue!Finish, Held
  <2> QED
    BY <2>6
<1>3. ASSUME NEW t \in Tasks, Push(t) PROVE Queue!Submit(t)
  <2>1. t \notin Held /\ t \notin executed /\ \A i \in 1 .. Len(tasks) : tasks[i] # t
    BY <1>3 DEF Push, TaskOnce, Held
  <2>2. Held' = Held
    BY <1>3 DEF Push, Held, Executing
  <2> QED
    BY <1>3, <2>1, <2>2 DEF Push, Queue!Submit, Held
<1>4. CASE DestructorStops
  BY <1>4 DEF DestructorStops, Executing, Queue!Next, Queue!Close
<1>5. CASE DestructorReturns
  <2>1. tasks = <<>> /\ Held = {}
    BY <1>5 DEF DestructorReturns, Control, Executing, Held
  <2> QED
    BY <1>5, <2>1 DEF DestructorReturns, Executing, Queue!Next, Queue!Vanish, Held
<1>6. CASE DestructorNotifies
  <2>1. Executing' = Executing
    BY <1>6 DEF DestructorNotifies, Waiting, Executing, TypeOK
  <2> QED
    BY <1>6, <2>1 DEF DestructorNotifies, Queue!vars
<1>7. CASE /\ UNCHANGED <<tasks, executed, destructor>> /\ Executing' = Executing
           /\ \A w \in Executing : task'[w] = task[w]
  <2>1. Held' = Held
    BY <1>7 DEF Held
  <2> QED
    BY <1>7, <2>1 DEF Held, Queue!vars
<1> QED
  <2>1. ASSUME NEW w \in Workers,
               \/ WorkerLocks(w) \/ WorkerFindsNothing(w) \/ WorkerBlocks(w) \/ WorkerExits(w)
               \/ WorkerCounts(w) \/ SpuriousWakeup(w)
        PROVE  [Queue!Next]_Queue!vars
    BY <1>7, <2>1
       DEF WorkerLocks, WorkerFindsNothing, WorkerBlocks, WorkerExits, WorkerCounts,
           SpuriousWakeup, Goes, Executing, TypeOK
  <2>2. ASSUME NEW t \in Tasks, NotifyOne(t) \/ CountSubmitted(t)
        PROVE  [Queue!Next]_Queue!vars
    BY <1>7, <2>2 DEF NotifyOne, CountSubmitted, Goes, Waiting, Executing, TypeOK
  <2>3. CASE UNCHANGED vars
    BY <1>7, <2>3 DEF vars, Executing
  <2> QED
    BY <1>1, <1>2, <1>3, <1>4, <1>5, <1>6, <2>1, <2>2, <2>3 DEF Next, WorkerStep, Queue!Next

(* Any number of workers and callers, with the destructor, are the queue:  *)
(* tasks start in the order of their push, run once each, and are all run  *)
(* before the pool is gone.                                                *)
THEOREM PoolImplementsTaskQueue == Spec => ImplementsTaskQueue
<1>1. Init => Queue!Init
  BY DEF Init, Executing, Queue!Init
<1>2. PInv /\ [Next]_vars => [Queue!Next]_Queue!vars
  BY QueueStep
<1> QED
  BY <1>1, <1>2, InitPool, PoolStep, PTL DEF Spec, ImplementsTaskQueue, Queue!Spec
===============================================================================
