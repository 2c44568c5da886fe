------------------------------- MODULE TaskQueue -------------------------------
(***************************************************************************)
(* What a thread pool promises its callers, with no mutex, no condition    *)
(* variable and no worker: a first-in first-out queue whose tasks are      *)
(* started in the order they were put and run once each, which, closed     *)
(* once, accepts no more and is gone only when every task has run.         *)
(* ThreadPool implements it.                                               *)
(***************************************************************************)
EXTENDS Naturals, Sequences

CONSTANT Tasks

VARIABLES
  queue,     (* tasks put and not started                                   *)
  running,   (* tasks started and not finished                              *)
  finished,  (* tasks run to their end                                      *)
  phase      (* "open", "closed" (no more tasks), "gone"                    *)

vars == <<queue, running, finished, phase>>

Init ==
  /\ queue = <<>>
  /\ running = {}
  /\ finished = {}
  /\ phase = "open"

Submit(t) ==
  /\ phase = "open"
  /\ t \notin running \cup finished
  /\ \A i \in 1 .. Len(queue) : queue[i] # t
  /\ queue' = Append(queue, t)
  /\ UNCHANGED <<running, finished, phase>>

Start ==
  /\ queue # <<>>
  /\ running' = running \cup {Head(queue)}
  /\ queue' = Tail(queue)
  /\ UNCHANGED <<finished, phase>>

Finish(t) ==
  /\ t \in running
  /\ running' = running \ {t}
  /\ finished' = finished \cup {t}
  /\ UNCHANGED <<queue, phase>>

Close ==
  /\ phase = "open"
  /\ phase' = "closed"
  /\ UNCHANGED <<queue, running, finished>>

Vanish ==
  /\ phase = "closed"
  /\ queue = <<>>
  /\ running = {}
  /\ phase' = "gone"
  /\ UNCHANGED <<queue, running, finished>>

Next ==
  \/ \E t \in Tasks : Submit(t) \/ Finish(t)
  \/ Start
  \/ Close
  \/ Vanish

Spec == Init /\ [][Next]_vars
===============================================================================
