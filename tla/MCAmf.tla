--------------------------------- MODULE MCAmf ---------------------------------
(* Amf on a small instance: MaxAttempts bounds the registrations that may  *)
(* reach the N4 call between two restarts, counting those at the mutex, so *)
(* that no handler is stopped half way by the bound.                       *)
EXTENDS Amf

CONSTANT MaxAttempts

AttemptLeft ==
  ngapIdCounter + Cardinality({h \in Handlers : pc[h] = "register"})
    < FirstNgapId + MaxAttempts

MCNext ==
  \/ \E h \in Handlers :
       \/ /\ AttemptLeft
          /\ \E supi \in Supis \cup {Empty}, type \in RegTypes : RegisterArrives(h, supi, type)
       \/ \E supi \in Supis \cup {Empty} : DeregisterArrives(h, supi)
       \/ HandlerStep(h)
       \/ UpfAnswers(h)
  \/ Restart

MCSpec ==
  /\ Init /\ [][MCNext]_vars
  /\ \A h \in Handlers : WF_vars(HandlerStep(h)) /\ WF_vars(UpfAnswers(h))
===============================================================================
