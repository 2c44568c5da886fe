------------------------------ MODULE ThreadPool ------------------------------
(***************************************************************************)
(* The thread pool of the UPF (upf/src/thread_pool.h): worker threads that *)
(* take tasks from tasks_ under queue_mutex_, the callers of enqueue, and  *)
(* the destructor.                                                         *)
(*                                                                         *)
(* condition_.wait(lock, predicate) is its loop: with the mutex held the   *)
(* predicate is evaluated, and while it is false the thread gives up the   *)
(* mutex and starts waiting in one indivisible step; a notified thread     *)
(* takes the mutex again before it looks.  A wait may also end for no      *)
(* reason.  The threads a constructor has not started yet are at "lock".   *)
(*                                                                         *)
(* Each task has one caller, and no enqueue is in progress when the        *)
(* destructor starts nor comes after it: main lets the service go only     *)
(* when the server's handlers have returned.                               *)
(***************************************************************************)
EXTENDS Naturals, Sequences, FiniteSets

CONSTANTS
  Workers,      (* workers_                                                 *)
  Tasks,        (* the tasks that callers may submit                        *)
  Nobody,       (* the holder of a free mutex                               *)
  NoTask,       (* a worker's task variable when it holds none              *)
  MaxSpurious   (* bound on wake-ups without a notification                 *)

(* The service makes a pool only for a number of threads above 0.          *)
ASSUME PoolAssumption ==
  /\ IsFiniteSet(Workers) /\ Workers # {}
  /\ Nobody \notin Workers
  /\ NoTask \notin Tasks
  /\ MaxSpurious \in Nat

VARIABLES
  tasks,           (* tasks_                                                *)
  stop,            (* stop_                                                 *)
  queueMutex,      (* holder of queue_mutex_                                *)
  worker,          (* where each worker is                                  *)
  task,            (* the task each worker holds                            *)
  caller,          (* where the caller of each task is in enqueue           *)
  destructor,      (* where the destructor is                               *)
  executed,        (* tasks whose function has returned                     *)
  submitted,       (* tasks_submitted_                                      *)
  completed,       (* tasks_completed_                                      *)
  spurious         (* wake-ups without a notification so far                *)

vars == <<tasks, stop, queueMutex, worker, task, caller, destructor,
          executed, submitted, completed, spurious>>

Init ==
  /\ tasks = <<>>
  /\ stop = FALSE
  /\ queueMutex = Nobody
  /\ worker = [w \in Workers |-> "lock"]
  /\ task = [w \in Workers |-> NoTask]
  /\ caller = [t \in Tasks |-> "idle"]
  /\ destructor = "alive"
  /\ executed = {}
  /\ submitted = 0
  /\ completed = 0
  /\ spurious = 0

(***************************************************************************)
(* The worker loop.                                                        *)
(***************************************************************************)
Goes(w, label) == worker' = [worker EXCEPT ![w] = label]

WorkerLocks(w) ==
  /\ worker[w] = "lock"
  /\ queueMutex = Nobody
  /\ queueMutex' = w
  /\ Goes(w, "check")
  /\ UNCHANGED <<tasks, stop, task, caller, destructor, executed, submitted, completed, spurious>>

(* Mutated form: a wait without predicate, whatever is in the queue.       *)
WaitsUntilStop == ~ stop

(* The wait predicate is false.                                            *)
MustWait == ~ stop /\ tasks = <<>>

(* Mutated form: stopped workers leave what is queued.                     *)
LeavesAtStop == stop

MayExit == stop /\ tasks = <<>>

WorkerFindsNothing(w) ==
  /\ worker[w] = "check"
  /\ MustWait
  /\ Goes(w, "block")
  /\ UNCHANGED <<tasks, stop, queueMutex, task, caller, destructor, executed,
                 submitted, completed, spurious>>

WorkerBlocks(w) ==
  /\ worker[w] = "block"
  /\ Goes(w, "waiting")
  /\ queueMutex' = Nobody
  /\ UNCHANGED <<tasks, stop, task, caller, destructor, executed, submitted, completed, spurious>>

SpuriousWakeup(w) ==
  /\ worker[w] = "waiting"
  /\ spurious < MaxSpurious
  /\ Goes(w, "lock")
  /\ spurious' = spurious + 1
  /\ UNCHANGED <<tasks, stop, queueMutex, task, caller, destructor, executed,
                 submitted, completed>>

WorkerExits(w) ==
  /\ worker[w] = "check"
  /\ MayExit
  /\ Goes(w, "exited")
  /\ queueMutex' = Nobody
  /\ UNCHANGED <<tasks, stop, task, caller, destructor, executed, submitted, completed, spurious>>

(* Mutated form: the newest task is moved out and the front one popped.    *)
BackTask == tasks[Len(tasks)]

FrontTask == Head(tasks)

(* Mutated form: front() without pop().                                    *)
QueueUnpopped == tasks

QueuePopped == Tail(tasks)

WorkerTakes(w) ==
  /\ worker[w] = "check"
  /\ ~ MustWait /\ ~ MayExit
  /\ task' = [task EXCEPT ![w] = FrontTask]
  /\ tasks' = QueuePopped
  /\ Goes(w, "run")
  /\ queueMutex' = Nobody
  /\ UNCHANGED <<stop, caller, destructor, executed, submitted, completed, spurious>>

WorkerRuns(w) ==
  /\ worker[w] = "run"
  /\ executed' = executed \cup {task[w]}
  /\ Goes(w, "count")
  /\ UNCHANGED <<tasks, stop, queueMutex, task, caller, destructor, submitted, completed, spurious>>

(* Mutated form: the variable is declared outside the loop.                *)
TaskKept(w) == task[w]

(* task goes out of scope at the end of the loop body.                     *)
TaskDropped(w) == NoTask

WorkerCounts(w) ==
  /\ worker[w] = "count"
  /\ completed' = completed + 1
  /\ task' = [task EXCEPT ![w] = TaskDropped(w)]
  /\ Goes(w, "lock")
  /\ UNCHANGED <<tasks, stop, queueMutex, caller, destructor, executed, submitted, spurious>>

WorkerStep(w) ==
  \/ WorkerLocks(w)
  \/ WorkerFindsNothing(w)
  \/ WorkerBlocks(w)
  \/ WorkerExits(w)
  \/ WorkerTakes(w)
  \/ WorkerRuns(w)
  \/ WorkerCounts(w)

(***************************************************************************)
(* enqueue, by the caller of task t: push under the mutex, notify after    *)
(* giving it back, count last.                                             *)
(***************************************************************************)
Push(t) ==
  /\ caller[t] = "idle"
  /\ destructor = "alive"
  /\ queueMutex = Nobody
  /\ tasks' = Append(tasks, t)
  /\ caller' = [caller EXCEPT ![t] = "notify"]
  /\ UNCHANGED <<stop, queueMutex, worker, task, destructor, executed, submitted,
                 completed, spurious>>

Waiting == {w \in Workers : worker[w] = "waiting"}

NotifyOne(t) ==
  /\ caller[t] = "notify"
  /\ IF Waiting = {} THEN UNCHANGED worker ELSE \E w \in Waiting : Goes(w, "lock")
  /\ caller' = [caller EXCEPT ![t] = "count"]
  /\ UNCHANGED <<tasks, stop, queueMutex, task, destructor, executed, submitted,
                 completed, spurious>>

CountSubmitted(t) ==
  /\ caller[t] = "count"
  /\ submitted' = submitted + 1
  /\ caller' = [caller EXCEPT ![t] = "returned"]
  /\ UNCHANGED <<tasks, stop, queueMutex, worker, task, destructor, executed,
                 completed, spurious>>

(***************************************************************************)
(* ~ThreadPool.                                                            *)
(***************************************************************************)
(* Mutated form: stop_ is atomic, so it is set without the mutex.          *)
StopsAnyTime == TRUE

StopsUnderMutex == queueMutex = Nobody

DestructorStops ==
  /\ destructor = "alive"
  /\ \A t \in Tasks : caller[t] \in {"idle", "returned"}
  /\ StopsUnderMutex
  /\ stop' = TRUE
  /\ destructor' = "notify"
  /\ UNCHANGED <<tasks, queueMutex, worker, task, caller, executed, submitted,
                 completed, spurious>>

DestructorNotifies ==
  /\ destructor = "notify"
  /\ worker' = [w \in Workers |-> IF w \in Waiting THEN "lock" ELSE worker[w]]
  /\ destructor' = "join"
  /\ UNCHANGED <<tasks, stop, queueMutex, task, caller, executed, submitted,
                 completed, spurious>>

DestructorReturns ==
  /\ destructor = "join"
  /\ \A w \in Workers : worker[w] = "exited"
  /\ destructor' = "destroyed"
  /\ UNCHANGED <<tasks, stop, queueMutex, worker, task, caller, executed, submitted,
                 completed, spurious>>

Next ==
  \/ \E w \in Workers : WorkerStep(w) \/ SpuriousWakeup(w)
  \/ \E t \in Tasks : Push(t) \/ NotifyOne(t) \/ CountSubmitted(t)
  \/ DestructorStops \/ DestructorNotifies \/ DestructorReturns

Spec == Init /\ [][Next]_vars

(***************************************************************************)
(* Fairness: every thread of the process is scheduled, and a task returns  *)
(* (classify neither blocks nor loops).  Nothing makes a caller submit or  *)
(* the process end.                                                        *)
(***************************************************************************)
FairSpec ==
  /\ Spec
  /\ \A w \in Workers : WF_vars(WorkerStep(w))
  /\ \A t \in Tasks : WF_vars(NotifyOne(t)) /\ WF_vars(CountSubmitted(t))
  /\ WF_vars(DestructorNotifies) /\ WF_vars(DestructorReturns)

(***************************************************************************)
(* Properties.                                                             *)
(***************************************************************************)
TypeOK ==
  /\ tasks \in Seq(Tasks)
  /\ stop \in BOOLEAN
  /\ queueMutex \in Workers \cup {Nobody}
  /\ worker \in [Workers -> {"lock", "check", "block", "waiting", "run", "count", "exited"}]
  /\ task \in [Workers -> Tasks \cup {NoTask}]
  /\ \A w \in Workers : task[w] # NoTask <=> worker[w] \in {"run", "count"}
  /\ caller \in [Tasks -> {"idle", "notify", "count", "returned"}]
  /\ destructor \in {"alive", "notify", "join", "destroyed"}
  /\ executed \in SUBSET Tasks
  /\ submitted \in Nat
  /\ completed \in Nat
  /\ spurious \in 0 .. MaxSpurious

(* No wake-up is lost, and none is wasted: while some worker waits, every  *)
(* queued task has a worker that is awake to look for it, or a caller on   *)
(* its way to wake one.                                                    *)
NoStrandedTask ==
  Waiting # {} =>
    Len(tasks) <= Cardinality({w \in Workers : worker[w] \in {"lock", "check"}})
                    + Cardinality({t \in Tasks : caller[t] = "notify"})

(* Once the destructor is joining, no worker waits or is about to: the     *)
(* last notification has been sent.                                        *)
StopReachesEveryone ==
  destructor \in {"join", "destroyed"} =>
    \A w \in Workers : worker[w] \notin {"block", "waiting"}

(* A worker leaves only when nothing is queued, and nothing is queued      *)
(* after it left: the pool that is gone has run every task it was given,   *)
(* and counted it.                                                         *)
DestroyedMeansDrained ==
  destructor = "destroyed" =>
    /\ tasks = <<>>
    /\ \A t \in Tasks : caller[t] # "idle" => t \in executed
    /\ completed = submitted

(* The two counters, which are advanced by different threads at different  *)
(* times, agree with the queue whenever nobody is between two steps (and   *)
(* completed may be ahead of submitted when somebody is).                  *)
CountersSettle ==
  /\ \A t \in Tasks : caller[t] \in {"idle", "returned"}
  /\ \A w \in Workers : worker[w] \notin {"run", "count"}
  => submitted = completed + Len(tasks)

Executing == {w \in Workers : worker[w] = "run"}

Queue == INSTANCE TaskQueue WITH
  queue <- tasks,
  running <- {task[w] : w \in Executing},
  finished <- executed,
  phase <- CASE destructor = "alive" -> "open"
             [] destructor = "destroyed" -> "gone"
             [] OTHER -> "closed"

(* Workers, callers and destructor together are the queue: tasks start in  *)
(* the order of their push, run once each, and outlive no pool.            *)
ImplementsTaskQueue == Queue!Spec

(* A task pushed is run, as its caller, who waits for it, relies on.       *)
EveryTaskRuns == \A t \in Tasks : caller[t] = "notify" ~> t \in executed

(* The destructor, once called, returns.                                   *)
DestructorTerminates == destructor = "notify" ~> destructor = "destroyed"
===============================================================================
