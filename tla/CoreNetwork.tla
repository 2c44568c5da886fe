------------------------------ MODULE CoreNetwork ------------------------------
(***************************************************************************)
(* The AMF and the UPF connected by N4: Amf's handlers, UpfSessions'       *)
(* table, and the gRPC channel between them.  The channel delivers a call  *)
(* once or reports an error; when it reports one, the call may have been   *)
(* lost, or may have been executed, or may still be executed by the UPF    *)
(* after the AMF has gone on.  Either process may be restarted by its      *)
(* container runtime (docker-compose.yml, k8s/*.yaml) and then starts      *)
(* from nothing.                                                           *)
(***************************************************************************)
EXTENDS Integers, Amf

VARIABLES
  sessions, ueToSession, sessionIdCounter,   (* those of UpfSessions        *)
  stray,         (* calls the AMF has given up, still on their way          *)
  n4Breaks,      (* N4 calls broken so far                                  *)
  amfRestarts,   (* restarts of the AMF so far                              *)
  upfRestarts    (* restarts of the UPF so far                              *)

(* establish_upf_session sets no other qos_profile.                        *)
DefaultQos == 9

Upf == INSTANCE UpfSessions WITH UeIps <- 1 .. AddressPool, QosProfiles <- {DefaultQos}

upfVars == <<sessions, ueToSession, sessionIdCounter>>
faultVars == <<stray, n4Breaks, amfRestarts, upfRestarts>>
coreVars == <<vars, upfVars, faultVars>>

CoreInit ==
  /\ Init
  /\ Upf!Init
  /\ stray = EmptyMap
  /\ n4Breaks = 0
  /\ amfRestarts = 0
  /\ upfRestarts = 0

(* A request of a client, or a step of a handler, in the AMF alone.        *)
RequestArrives(h) ==
  /\ \E supi \in Supis, type \in RegTypes :
       RegisterArrives(h, supi, type) \/ DeregisterArrives(h, supi)
  /\ UNCHANGED <<upfVars, faultVars>>

HandlerMoves(h) == HandlerStep(h) /\ UNCHANGED <<upfVars, faultVars>>

(***************************************************************************)
(* N4.  UpfRuns is the handler of the UPF for a call, and Answer what it   *)
(* replies.                                                                *)
(***************************************************************************)
UpfRuns(call) ==
  \/ /\ call.op = "establish"
     /\ Upf!EstablishSession(call.supi, call.ueIp, DefaultQos)
  \/ /\ call.op = "release"
     /\ Upf!ReleaseSession(call.session)
  \/ /\ call.op = "release"
     /\ call.session \notin DOMAIN sessions
     /\ UNCHANGED upfVars

(* Mutated form: the id answered is read after the increment.              *)
AnswerAfterIncrement(call) ==
  IF call.op = "establish" THEN Ok(sessionIdCounter + 1)
  ELSE IF call.session \in DOMAIN sessions THEN Ok(call.session)
  ELSE Failed

Answer(call) ==
  IF call.op = "establish" THEN Ok(sessionIdCounter)
  ELSE IF call.session \in DOMAIN sessions THEN Ok(call.session)
  ELSE Failed

UpfExecutes(h) ==
  /\ N4Answers(h, Answer(n4Call[h]))
  /\ UpfRuns(n4Call[h])
  /\ UNCHANGED faultVars

(* Every call given up has a number of its own.                            *)
StrayWith(call) == Put(stray, n4Breaks + amfRestarts + 1, call)

(* The connection breaks under the call: the client sees an error.         *)
N4Breaks(h) ==
  /\ N4Answers(h, Failed)
  /\ stray' = StrayWith(n4Call[h])
  /\ n4Breaks' = n4Breaks + 1
  /\ UNCHANGED <<upfVars, amfRestarts, upfRestarts>>

StrayExecutes(n) ==
  /\ UpfRuns(stray[n])
  /\ stray' = Erase(stray, n)
  /\ UNCHANGED <<vars, n4Breaks, amfRestarts, upfRestarts>>

StrayIsLost(n) ==
  /\ stray' = Erase(stray, n)
  /\ UNCHANGED <<vars, upfVars, n4Breaks, amfRestarts, upfRestarts>>

(***************************************************************************)
(* Restarts.                                                               *)
(***************************************************************************)
(* A call the UPF has not answered yet is still on its way to it.          *)
AmfRestart ==
  /\ Restart
  /\ stray' = IF \E h \in Handlers : Pending(h)
              THEN StrayWith(n4Call[CHOOSE h \in Handlers : Pending(h)])
              ELSE stray
  /\ amfRestarts' = amfRestarts + 1
  /\ UNCHANGED <<upfVars, n4Breaks, upfRestarts>>

(* The calls under way fail, and the strays go with the connection.        *)
UpfRestart ==
  /\ Upf!Restart
  /\ n4Reply' = [h \in Handlers |-> IF Pending(h) THEN Failed ELSE n4Reply[h]]
  /\ stray' = EmptyMap
  /\ upfRestarts' = upfRestarts + 1
  /\ UNCHANGED <<ueContexts, ctxMutex, ngapIdCounter, regCount, deregCount,
                 pc, req, ngapId, n4Call, n4Breaks, amfRestarts>>

CoreNext ==
  \/ \E h \in Handlers :
       RequestArrives(h) \/ HandlerMoves(h) \/ UpfExecutes(h) \/ N4Breaks(h)
  \/ \E n \in DOMAIN stray : StrayExecutes(n) \/ StrayIsLost(n)
  \/ AmfRestart
  \/ UpfRestart

CoreSpec == CoreInit /\ [][CoreNext]_coreVars

(***************************************************************************)
(* Properties.                                                             *)
(***************************************************************************)
CoreTypeOK ==
  /\ TypeOK
  /\ Upf!TypeOK
  /\ n4Breaks \in Nat /\ amfRestarts \in Nat /\ upfRestarts \in Nat
  /\ DOMAIN stray \subseteq 1 .. n4Breaks + amfRestarts
  /\ \A n \in DOMAIN stray : stray[n] \in N4Call /\ stray[n].op # "none"

(* The Deregister of this UE has its answer, or was told of a failure.     *)
ReleaseReplied(supi) ==
  \E h \in Handlers : pc[h] = "awaitRelease" /\ req[h].supi = supi /\ n4Reply[h].status # "none"

Backed(supi) ==
  /\ ueContexts[supi].session \in DOMAIN sessions
  /\ sessions[ueContexts[supi].session].supi = supi

(* Until the UPF has restarted, the session a UE context names is live at  *)
(* the UPF and is that UE's: lost answers, late releases and restarts of   *)
(* the AMF take no registered UE's session away, and no two UEs name the   *)
(* same one.  (Only in the last moment of the UE's own Deregister may the  *)
(* session be gone before the context.)                                    *)
ContextsBacked ==
  upfRestarts = 0 =>
    \A supi \in DOMAIN ueContexts : ReleaseReplied(supi) \/ Backed(supi)

(* Until the AMF has restarted and while it has not made more attempts     *)
(* than there are addresses, no two live sessions have the same address,   *)
(* so that every live session is routed: its packets are classified, and   *)
(* by its own qos_profile.  Sessions nobody owns any more are included.    *)
FirstLapRouted ==
  amfRestarts = 0 /\ ngapIdCounter <= FirstNgapId + AddressPool =>
    \A id \in DOMAIN sessions : Upf!Routed(id)

(* The releases a step executes are those of the calls it answers or takes *)
(* from the strays; until the UPF has restarted, a session that goes is a  *)
(* session of the UE whose Deregister asked for it, although the UPF never *)
(* compares the supi of the request with that of the session.              *)
ReleasesOwnSession ==
  [][upfRestarts' = 0 =>
       \A id \in DOMAIN sessions \ DOMAIN sessions' :
         \/ \E h \in Handlers :
              /\ n4Call[h].op = "release" /\ n4Call[h].session = id
              /\ n4Call[h].supi = sessions[id].supi
         \/ \E n \in DOMAIN stray \ DOMAIN stray' :
              /\ stray[n].op = "release" /\ stray[n].session = id
              /\ stray[n].supi = sessions[id].supi]_coreVars

Faultless == n4Breaks = 0 /\ amfRestarts = 0 /\ upfRestarts = 0

(* The two gauges of a deployment in which nothing has failed agree: when  *)
(* no N4 call is under way, amf_active_ues is upf_active_sessions.  (Both  *)
(* count the session a repeated registration leaves behind.)               *)
GaugesAgree ==
  Faultless /\ ctxMutex = Nobody =>
    Cardinality(DOMAIN sessions) + deregCount = regCount

(* What failures can leave behind at the UPF: while the AMF lives, at most *)
(* one session for every broken call beyond those the AMF's counters, and  *)
(* the call under way, account for.                                        *)
LeakBounded ==
  amfRestarts = 0 =>
    Cardinality(DOMAIN sessions) + deregCount
      <= regCount + n4Breaks + (IF ctxMutex = Nobody THEN 0 ELSE 1)
===============================================================================
