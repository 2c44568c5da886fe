----------------------------- MODULE MCUpfSessions -----------------------------
(* UpfSessions on a small instance: any N4 client, MaxSessionId            *)
(* establishments between two restarts.                                    *)
EXTENDS UpfSessions

CONSTANT MaxSessionId

MCNext ==
  \/ /\ sessionIdCounter <= MaxSessionId
     /\ \E supi \in Supis \cup {Empty}, ueIp \in UeIps \cup {Empty}, qos \in QosProfiles :
          EstablishSession(supi, ueIp, qos)
  \/ \E id \in DOMAIN sessions : ReleaseSession(id)
  \/ Restart

MCSpec == Init /\ [][MCNext]_vars
===============================================================================
