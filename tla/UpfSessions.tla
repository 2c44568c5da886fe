------------------------------ MODULE UpfSessions ------------------------------
(***************************************************************************)
(* The PDU session table of the UPF (upf/src/upf_server.{h,cpp}): the two  *)
(* maps sessions_ and ue_to_session_ and the counter session_id_counter_,  *)
(* with the N4 handlers that change them.  EstablishSession and            *)
(* ReleaseSession do all their work under one lock_guard on                *)
(* sessions_mutex_, and nothing reads the maps without that mutex except   *)
(* the metrics gauge, so each handler is one action.  A session id         *)
(* "sess-<n>" is the number n.                                             *)
(*                                                                         *)
(* A request the handler refuses changes nothing: EstablishAccepted says   *)
(* which requests are served, and a release of an unknown id is the reply  *)
(* "session_not_found" of a step that leaves the table alone.              *)
(***************************************************************************)
EXTENDS Naturals, FiniteSets, StdMap

CONSTANTS
  Supis,        (* subscriber identities                                    *)
  UeIps,        (* UE addresses                                             *)
  QosProfiles,  (* values of the request's qos_profile                      *)
  Empty         (* the empty string, in a request field that was not set    *)

ASSUME UpfAssumption == Empty \notin Supis /\ Empty \notin UeIps

VARIABLES
  sessions,          (* sessions_: session id -> PduSession                 *)
  ueToSession,       (* ue_to_session_: UE address -> session id            *)
  sessionIdCounter   (* session_id_counter_                                 *)

vars == <<sessions, ueToSession, sessionIdCounter>>

PduSession == [supi: Supis, ueIp: UeIps, qosProfile: QosProfiles, active: BOOLEAN]

(***************************************************************************)
(* The operations.                                                         *)
(***************************************************************************)
Init ==
  /\ sessions = EmptyMap
  /\ ueToSession = EmptyMap
  /\ sessionIdCounter = 1

EstablishAccepted(supi, ueIp) == supi # Empty /\ ueIp # Empty

(* The record both maps are updated from.                                  *)
NewSession(supi, ueIp, qos) ==
  [supi |-> supi, ueIp |-> ueIp, qosProfile |-> qos, active |-> TRUE]

(* Mutated form: the id is read from the counter without advancing it.     *)
CounterKept == sessionIdCounter

(* Mutated form: the sessions are counted instead.                         *)
CounterOfSize == Cardinality(DOMAIN sessions) + 2

CounterAdvanced == sessionIdCounter + 1

(* Mutated form: emplace in place of operator[], which keeps an old route. *)
RoutesEmplaced(ueIp, id) ==
  IF ueIp \in DOMAIN ueToSession THEN ueToSession ELSE Put(ueToSession, ueIp, id)

RoutesWith(ueIp, id) == Put(ueToSession, ueIp, id)

EstablishSession(supi, ueIp, qos) ==
  /\ EstablishAccepted(supi, ueIp)
  /\ sessions' = Put(sessions, sessionIdCounter, NewSession(supi, ueIp, qos))
  /\ ueToSession' = RoutesWith(ueIp, sessionIdCounter)
  /\ sessionIdCounter' = CounterAdvanced

(* Mutated form: the route is left behind.                                 *)
RoutesKept(id) == ueToSession

(* Mutated form: every route of the subscriber is dropped.                 *)
RoutesOfOtherSupis(id) ==
  Restrict(ueToSession, {ip \in DOMAIN ueToSession :
                           sessions[ueToSession[ip]].supi # sessions[id].supi})

(* The route erased is that of the session's address, whichever session    *)
(* the route now names.                                                    *)
RoutesWithout(id) == Erase(ueToSession, sessions[id].ueIp)

(* The supi of the request is not looked at.                               *)
ReleaseSession(id) ==
  /\ id \in DOMAIN sessions
  /\ ueToSession' = RoutesWithout(id)
  /\ sessions' = Erase(sessions, id)
  /\ UNCHANGED sessionIdCounter

(* The process exits and the container runtime starts it again             *)
(* (docker-compose.yml: restart unless-stopped).  Nothing is persisted.    *)
Restart ==
  /\ sessions' = EmptyMap
  /\ ueToSession' = EmptyMap
  /\ sessionIdCounter' = 1

Next ==
  \/ \E supi \in Supis \cup {Empty}, ueIp \in UeIps \cup {Empty}, qos \in QosProfiles :
       EstablishSession(supi, ueIp, qos)
  \/ \E id \in DOMAIN sessions : ReleaseSession(id)
  \/ Restart

Spec == Init /\ [][Next]_vars

(***************************************************************************)
(* Properties.                                                             *)
(***************************************************************************)
TypeOK ==
  /\ sessionIdCounter \in Nat \ {0}
  /\ DOMAIN sessions \subseteq 1 .. sessionIdCounter - 1
  /\ \A id \in DOMAIN sessions : sessions[id] \in PduSession
  /\ DOMAIN ueToSession \subseteq UeIps
  /\ \A ip \in DOMAIN ueToSession : ueToSession[ip] \in Nat

(* Every route names a live session that has that very address: the        *)
(* unguarded sessions_.at(sit->second) of classify never throws, which on  *)
(* a pool worker would end the process.                                    *)
RouteWellFormed ==
  \A ip \in DOMAIN ueToSession :
    /\ ueToSession[ip] \in DOMAIN sessions
    /\ sessions[ueToSession[ip]].ueIp = ip

(* When several live sessions share an address, the packets of that        *)
(* address are classified by the session established last.                 *)
NewestSessionHoldsRoute ==
  \A id \in DOMAIN sessions :
    LET ip == sessions[id].ueIp
    IN  ip \in DOMAIN ueToSession => id <= ueToSession[ip]

Routed(id) ==
  LET ip == sessions[id].ueIp
  IN  ip \in DOMAIN ueToSession /\ ueToSession[ip] = id

SharesAddress(id) ==
  \E other \in DOMAIN sessions \ {id} : sessions[other].ueIp = sessions[id].ueIp

(* A live session that has its route keeps it through every step it        *)
(* survives, unless another session has the same address before or after   *)
(* the step: only then can an establish or a release of somebody else make *)
(* a session's packets be dropped.                                         *)
RouteLostOnlyBySharing ==
  [][\A id \in DOMAIN sessions \cap DOMAIN sessions' :
       Routed(id) /\ ~ Routed(id)' => SharesAddress(id) \/ SharesAddress(id)']_vars

(* No step rewrites a live session: sessions_[id] = session only ever      *)
(* inserts, because an id is never issued twice by one UPF process.        *)
SessionsAreImmutable ==
  [][\A id \in DOMAIN sessions \cap DOMAIN sessions' :
       sessions'[id] = sessions[id]]_vars
===============================================================================
