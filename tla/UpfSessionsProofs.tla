--------------------------- MODULE UpfSessionsProofs ---------------------------
(***************************************************************************)
(* Proofs about UpfSessions, for any sets of subscribers, addresses and    *)
(* profiles.  The three state invariants are inductive together: the shape *)
(* of the routes rests on the freshness of session ids that TypeOK states. *)
(***************************************************************************)
EXTENDS UpfSessions, TLAPS

IInv == TypeOK /\ RouteWellFormed /\ NewestSessionHoldsRoute

LEMMA InitInvariant == Init => IInv
  BY DEF Init, EmptyMap, IInv, TypeOK, RouteWellFormed, NewestSessionHoldsRoute

(* A new session takes the route of its address over, and its id exceeds   *)
(* every id in the table.                                                  *)
LEMMA EstablishInvariant ==
  ASSUME IInv,
         NEW supi \in Supis \cup {Empty}, NEW ueIp \in UeIps \cup {Empty},
         NEW qos \in QosProfiles,
         EstablishSession(supi, ueIp, qos)
  PROVE  IInv'
<1> DEFINE id == sessionIdCounter
           new == NewSession(supi, ueIp, qos)
<1>1. /\ supi \in Supis
      /\ ueIp \in UeIps
      /\ sessions' = Put(sessions, id, new)
      /\ ueToSession' = Put(ueToSession, ueIp, id)
      /\ sessionIdCounter' = id + 1
  BY DEF EstablishSession, EstablishAccepted, RoutesWith, CounterAdvanced
<1>2. new \in PduSession /\ new.ueIp = ueIp
  BY <1>1 DEF NewSession, PduSession
<1>3. /\ DOMAIN sessions' = DOMAIN sessions \cup {id}
      /\ sessions'[id] = new
      /\ \A x \in DOMAIN sessions : x # id => sessions'[x] = sessions[x]
  BY <1>1 DEF Put
<1>4. /\ DOMAIN ueToSession' = DOMAIN ueToSession \cup {ueIp}
      /\ ueToSession'[ueIp] = id
      /\ \A x \in DOMAIN ueToSession : x # ueIp => ueToSession'[x] = ueToSession[x]
  BY <1>1 DEF Put
<1>5. id \in Nat \ {0} /\ DOMAIN sessions \subseteq 1 .. id - 1
  BY DEF IInv, TypeOK
<1>6. id \notin DOMAIN sessions
  BY <1>5
<1> HIDE DEF new
<1>7. TypeOK'
  BY <1>1, <1>2, <1>3, <1>4, <1>5, <1>6 DEF IInv, TypeOK
<1>8. RouteWellFormed'
  BY <1>2, <1>3, <1>4, <1>6 DEF IInv, RouteWellFormed
<1>9. NewestSessionHoldsRoute'
  BY <1>2, <1>3, <1>4, <1>5, <1>6 DEF IInv, NewestSessionHoldsRoute
<1> QED
  BY <1>7, <1>8, <1>9 DEF IInv

(* The route erased is that of the released session's address, so what is  *)
(* left does not name the session that is gone.                            *)
LEMMA ReleaseInvariant ==
  ASSUME IInv, NEW id \in DOMAIN sessions, ReleaseSession(id)
  PROVE  IInv'
<1> DEFINE ip == sessions[id].ueIp
<1>1. /\ sessions' = Erase(sessions, id)
      /\ ueToSession' = Erase(ueToSession, ip)
      /\ sessionIdCounter' = sessionIdCounter
  BY DEF ReleaseSession, RoutesWithout
<1>2. /\ DOMAIN sessions' = DOMAIN sessions \ {id}
      /\ \A x \in DOMAIN sessions \ {id} : sessions'[x] = sessions[x]
  BY <1>1 DEF Erase, Restrict
<1>3. /\ DOMAIN ueToSession' = DOMAIN ueToSession \ {ip}
      /\ \A x \in DOMAIN ueToSession \ {ip} : ueToSession'[x] = ueToSession[x]
  BY <1>1 DEF Erase, Restrict
<1>4. TypeOK'
  BY <1>1, <1>2, <1>3 DEF IInv, TypeOK
<1>5. RouteWellFormed'
  BY <1>2, <1>3 DEF IInv, RouteWellFormed
<1>6. NewestSessionHoldsRoute'
  BY <1>2, <1>3 DEF IInv, NewestSessionHoldsRoute
<1> QED
  BY <1>4, <1>5, <1>6 DEF IInv

LEMMA RestartInvariant == Restart => IInv'
  BY DEF Restart, EmptyMap, IInv, TypeOK, RouteWellFormed, NewestSessionHoldsRoute

LEMMA NextInvariant == IInv /\ [Next]_vars => IInv'
<1> SUFFICES ASSUME IInv, [Next]_vars PROVE IInv'
  OBVIOUS
<1>1. CASE \E supi \in Supis \cup {Empty}, ueIp \in UeIps \cup {Empty}, qos \in QosProfiles :
             EstablishSession(supi, ueIp, qos)
  BY <1>1, EstablishInvariant
<1>2. CASE \E id \in DOMAIN sessions : ReleaseSession(id)
  BY <1>2, ReleaseInvariant
<1>3. CASE Restart
  BY <1>3, RestartInvariant
<1>4. CASE UNCHANGED vars
  BY <1>4 DEF vars, IInv, TypeOK, RouteWellFormed, NewestSessionHoldsRoute
<1> QED
  BY <1>1, <1>2, <1>3, <1>4 DEF Next

LEMMA Invariant == Spec => []IInv
<1>1. Init => IInv
  BY InitInvariant
<1>2. IInv /\ [Next]_vars => IInv'
  BY NextInvariant
<1> QED
  BY <1>1, <1>2, PTL DEF Spec

(* The tables stay well typed: every id is one that was issued, below the  *)
(* counter.                                                                *)
THEOREM SessionsTypeCorrect == Spec => []TypeOK
<1>1. IInv => TypeOK
  BY DEF IInv
<1> QED
  BY <1>1, Invariant, PTL

(* No route dangles: the at() of ClassifyPacket never throws.              *)
THEOREM RoutesWellFormed == Spec => []RouteWellFormed
<1>1. IInv => RouteWellFormed
  BY DEF IInv
<1> QED
  BY <1>1, Invariant, PTL

(* An address that several sessions share is routed, if at all, to the one *)
(* established last, although a release takes the route of any of them     *)
(* away.                                                                   *)
THEOREM NewestSessionRouted == Spec => []NewestSessionHoldsRoute
<1>1. IInv => NewestSessionHoldsRoute
  BY DEF IInv
<1> QED
  BY <1>1, Invariant, PTL

(* Establish inserts a fresh id, release deletes, a restart leaves nothing *)
(* in common with what was there.                                          *)
LEMMA ImmutableStep ==
  ASSUME IInv, [Next]_vars
  PROVE  \A id \in DOMAIN sessions \cap DOMAIN sessions' : sessions'[id] = sessions[id]
<1>1. sessionIdCounter \notin DOMAIN sessions
  BY DEF IInv, TypeOK
<1>2. CASE \E supi \in Supis \cup {Empty}, ueIp \in UeIps \cup {Empty}, qos \in QosProfiles :
             EstablishSession(supi, ueIp, qos)
  BY <1>1, <1>2 DEF EstablishSession, Put
<1>3. CASE \E id \in DOMAIN sessions : ReleaseSession(id)
  BY <1>3 DEF ReleaseSession, Erase, Restrict
<1>4. CASE Restart
  BY <1>4 DEF Restart, EmptyMap
<1>5. CASE UNCHANGED vars
  BY <1>5 DEF vars
<1> QED
  BY <1>2, <1>3, <1>4, <1>5 DEF Next

(* One UPF process never rewrites a live session.                          *)
THEOREM SessionsImmutable == Spec => SessionsAreImmutable
<1>1. Init => IInv
  BY InitInvariant
<1>2. IInv /\ [Next]_vars => IInv'
  BY NextInvariant
<1>3. IInv /\ [Next]_vars
        => [\A id \in DOMAIN sessions \cap DOMAIN sessions' : sessions'[id] = sessions[id]]_vars
  BY ImmutableStep
<1> QED
  BY <1>1, <1>2, <1>3, PTL DEF Spec, SessionsAreImmutable

(* An establish takes a route over only from a session with the same       *)
(* address as the new one, and a release erases only the route of the      *)
(* released session's address.                                             *)
LEMMA RouteLostStep ==
  ASSUME IInv, [Next]_vars,
         NEW id \in DOMAIN sessions \cap DOMAIN sessions',
         Routed(id), ~ Routed(id)'
  PROVE  SharesAddress(id) \/ SharesAddress(id)'
<1>1. sessions'[id] = sessions[id]
  BY ImmutableStep
<1>2. CASE \E supi \in Supis \cup {Empty}, ueIp \in UeIps \cup {Empty}, qos \in QosProfiles :
             EstablishSession(supi, ueIp, qos)
  <2>1. PICK supi \in Supis \cup {Empty}, ueIp \in UeIps \cup {Empty}, qos \in QosProfiles :
          EstablishSession(supi, ueIp, qos)
    BY <1>2
  <2>2. ueToSession' = Put(ueToSession, ueIp, sessionIdCounter)
    BY <2>1 DEF EstablishSession, RoutesWith
  <2>3. sessions[id].ueIp = ueIp
    BY <1>1, <2>2 DEF Routed, Put
  <2>4. sessionIdCounter \in DOMAIN sessions' \ {id} /\ sessions'[sessionIdCounter].ueIp = ueIp
    BY <2>1 DEF EstablishSession, NewSession, Put, IInv, TypeOK
  <2> QED
    BY <1>1, <2>3, <2>4 DEF SharesAddress
<1>3. CASE \E r \in DOMAIN sessions : ReleaseSession(r)
  <2>1. PICK r \in DOMAIN sessions : ReleaseSession(r)
    BY <1>3
  <2>2. /\ ueToSession' = Erase(ueToSession, sessions[r].ueIp)
        /\ sessions' = Erase(sessions, r)
    BY <2>1 DEF ReleaseSession, RoutesWithout
  <2>3. sessions[r].ueIp = sessions[id].ueIp
    BY <1>1, <2>2 DEF Routed, Erase, Restrict
  <2>4. r # id
    BY <2>2 DEF Erase, Restrict
  <2> QED
    BY <2>3, <2>4 DEF SharesAddress
<1>4. CASE Restart
  BY <1>4 DEF Restart, EmptyMap
<1>5. CASE UNCHANGED vars
  BY <1>5 DEF vars, Routed
<1> QED
  BY <1>2, <1>3, <1>4, <1>5 DEF Next

(* A live session loses its route only to, or with, a session that has     *)
(* the same address.                                                       *)
THEOREM RoutesLostBySharing == Spec => RouteLostOnlyBySharing
<1>1. Init => IInv
  BY InitInvariant
<1>2. IInv /\ [Next]_vars => IInv'
  BY NextInvariant
<1>3. IInv /\ [Next]_vars
        => [\A id \in DOMAIN sessions \cap DOMAIN sessions' :
              Routed(id) /\ ~ Routed(id)' => SharesAddress(id) \/ SharesAddress(id)']_vars
  BY RouteLostStep
<1> QED
  BY <1>1, <1>2, <1>3, PTL DEF Spec, RouteLostOnlyBySharing
===============================================================================
