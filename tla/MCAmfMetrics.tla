----------------------------- MODULE MCAmfMetrics -----------------------------
(* AmfMetrics on a small instance: MaxAttempts bounds the registrations    *)
(* that may reach the N4 call between two restarts.                        *)
EXTENDS AmfMetrics

CONSTANT MaxAttempts

AttemptLeft ==
  ngapIdCounter + Cardinality({h \in Handlers : pc[h] = "register"})
    < FirstNgapId + MaxAttempts

RegistrationArrives(h) ==
  AttemptLeft /\ \E supi \in Supis, type \in RegTypes : RegisterArrives(h, supi, type)

DeregistrationArrives(h) == \E supi \in Supis : DeregisterArrives(h, supi)

MCNext ==
  \/ /\ \E h \in Handlers :
          RegistrationArrives(h) \/ DeregistrationArrives(h) \/ HandlerStep(h) \/ UpfAnswers(h)
     /\ UNCHANGED scrapeVars
  \/ Scrape
  \/ MetricsRestart

MCSpec == MetricsInit /\ [][MCNext]_metricsVars
===============================================================================
