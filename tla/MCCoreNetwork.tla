----------------------------- MODULE MCCoreNetwork -----------------------------
(* CoreNetwork on a small instance: MaxAttempts bounds the registrations   *)
(* that reach the N4 call between two restarts of the AMF, MaxSessions the *)
(* sessions the UPF has made since its start when another may be asked     *)
(* for, MaxFaults the broken calls and restarts together.                  *)
EXTENDS CoreNetwork, TLC

CONSTANTS MaxAttempts, MaxSessions, MaxFaults

AttemptLeft ==
  LET queued == Cardinality({h \in Handlers : pc[h] = "register"})
  IN  /\ ngapIdCounter + queued < FirstNgapId + MaxAttempts
      /\ sessionIdCounter + queued <= MaxSessions

FaultLeft == n4Breaks + amfRestarts + upfRestarts < MaxFaults

MCNext ==
  \/ \E h \in Handlers :
       \/ RequestArrives(h) /\ (AttemptLeft \/ pc'[h] = "deregister")
       \/ HandlerMoves(h)
       \/ UpfExecutes(h)
       \/ FaultLeft /\ N4Breaks(h)
  \/ \E n \in DOMAIN stray : StrayExecutes(n) \/ StrayIsLost(n)
  \/ FaultLeft /\ AmfRestart
  \/ FaultLeft /\ UpfRestart

MCSpec == CoreInit /\ [][MCNext]_coreVars

(* The handlers are alike, and so are the subscribers.                     *)
Symmetry == Permutations(Handlers) \cup Permutations(Supis)
===============================================================================
