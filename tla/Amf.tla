---------------------------------- MODULE Amf ----------------------------------
(***************************************************************************)
(* The AMF (amf/src/amf_server.{h,cpp}): the Register and Deregister       *)
(* handlers of its gRPC server, which run concurrently on the server's     *)
(* threads and share ue_contexts_ under ctx_mutex_.  A handler keeps the   *)
(* mutex while it waits for the UPF to answer its N4 call, so a handler is *)
(* cut at the places where others may move: where it arrives at the        *)
(* mutex, and where the N4 answer comes back.                              *)
(*                                                                         *)
(* The UPF is left open here: an N4 call is answered with any session id   *)
(* or fails, for a lost connection as for a refusal (establish_upf_session *)
(* returns false for both).  CoreNetwork closes it with UpfSessions.       *)
(*                                                                         *)
(* A request that is refused without touching the state is a reply and no  *)
(* step: a Register whose supi is empty never reaches the mutex.           *)
(***************************************************************************)
EXTENDS Naturals, FiniteSets, StdMap

CONSTANTS
  Supis,        (* subscriber identities                                    *)
  Empty,        (* the empty string                                         *)
  RegTypes,     (* values of registration_type                              *)
  Initial,      (* "initial", the one Register compares with                *)
  Handlers,     (* the threads of the gRPC server that run handlers         *)
  Nobody,       (* the holder of a free mutex                               *)
  SessionIds,   (* session ids the UPF may answer with                      *)
  FirstNgapId,  (* initial ngap_id_counter_: 1000                           *)
  AddressPool   (* UE addresses in the range 10.0.0.1 ..: 254               *)

ASSUME AmfAssumption ==
  /\ Empty \notin Supis
  /\ Initial \in RegTypes
  /\ Nobody \notin Handlers
  /\ SessionIds \subseteq Nat
  /\ FirstNgapId \in Nat
  /\ AddressPool \in Nat \ {0}

VARIABLES
  ueContexts,      (* ue_contexts_: supi -> UEContext                       *)
  ctxMutex,        (* holder of ctx_mutex_                                  *)
  ngapIdCounter,   (* ngap_id_counter_                                      *)
  regCount,        (* reg_count_                                            *)
  deregCount,      (* dereg_count_                                          *)
  pc,              (* where each handler is                                 *)
  req,             (* the N1 request it serves                              *)
  ngapId,          (* its local ue.amf_ue_ngap_id                           *)
  n4Call,          (* its outstanding N4 request                            *)
  n4Reply          (* the status and the answer of that request             *)

contextVars == <<ueContexts, ngapIdCounter, regCount, deregCount>>
handlerVars == <<pc, req, ngapId, n4Call, n4Reply>>
vars == <<contextVars, ctxMutex, handlerVars>>

(* The fields of UEContext that are ever read; registered is always true.  *)
UEContext == [ngapId: Nat, session: Nat]

Request == [supi: Supis \cup {Empty}, type: RegTypes]
NoRequest == [supi |-> Empty, type |-> Initial]

N4Call == [op: {"none", "establish", "release"},
           supi: Supis \cup {Empty}, ueIp: 0 .. AddressPool, session: Nat]
NoCall == [op |-> "none", supi |-> Empty, ueIp |-> 0, session |-> 0]

N4Reply == [status: {"none", "ok", "failed"}, session: Nat]
NoReply == [status |-> "none", session |-> 0]
Failed == [status |-> "failed", session |-> 0]
Ok(session) == [status |-> "ok", session |-> session]

(* Mutated form: the last octet is not wrapped.                            *)
UeIpUnwrapped(counter) == counter + 1

(* Mutated form: one address of the pool is never used.                    *)
UeIpOffByOne(counter) == (counter % (AddressPool - 1)) + 1

(* "10.0.0." followed by this number.                                      *)
UeIp(counter) == (counter % AddressPool) + 1

Pending(h) == n4Call[h].op # "none" /\ n4Reply[h] = NoReply

Init ==
  /\ ueContexts = EmptyMap
  /\ ctxMutex = Nobody
  /\ ngapIdCounter = FirstNgapId
  /\ regCount = 0
  /\ deregCount = 0
  /\ pc = [h \in Handlers |-> "idle"]
  /\ req = [h \in Handlers |-> NoRequest]
  /\ ngapId = [h \in Handlers |-> 0]
  /\ n4Call = [h \in Handlers |-> NoCall]
  /\ n4Reply = [h \in Handlers |-> NoReply]

(***************************************************************************)
(* The steps of a handler.                                                 *)
(***************************************************************************)
Arrives(h, label, supi, type) ==
  /\ pc[h] = "idle"
  /\ pc' = [pc EXCEPT ![h] = label]
  /\ req' = [req EXCEPT ![h] = [supi |-> supi, type |-> type]]
  /\ UNCHANGED <<contextVars, ctxMutex, ngapId, n4Call, n4Reply>>

(* The handler returns: its locals die and the lock_guard releases.        *)
Returns(h) ==
  /\ pc' = [pc EXCEPT ![h] = "idle"]
  /\ req' = [req EXCEPT ![h] = NoRequest]
  /\ ngapId' = [ngapId EXCEPT ![h] = 0]
  /\ n4Call' = [n4Call EXCEPT ![h] = NoCall]
  /\ n4Reply' = [n4Reply EXCEPT ![h] = NoReply]
  /\ ctxMutex' = Nobody

RegisterArrives(h, supi, type) ==
  /\ supi # Empty
  /\ Arrives(h, "register", supi, type)

DeregisterArrives(h, supi) == Arrives(h, "deregister", supi, Initial)

AlreadyRegistered(r) == r.supi \in DOMAIN ueContexts /\ r.type = Initial

RegisterDuplicate(h) ==
  /\ pc[h] = "register"
  /\ ctxMutex = Nobody
  /\ AlreadyRegistered(req[h])
  /\ Returns(h)
  /\ UNCHANGED contextVars

(* Mutated form: the mutex is taken for the look-up and given back before  *)
(* the N4 call, so that the requests of other UEs do not wait for it.      *)
ReleasedForN4(h) ==
  /\ ctxMutex = Nobody
  /\ ctxMutex' = Nobody

(* The lock_guard of the handler is taken, and kept through the N4 call.   *)
HeldThroughN4(h) ==
  /\ ctxMutex = Nobody
  /\ ctxMutex' = h

(* The NGAP id is taken, and the N4 request built with the address that    *)
(* the counter gives after the increment.                                  *)
RegisterEstablish(h) ==
  /\ pc[h] = "register"
  /\ ~ AlreadyRegistered(req[h])
  /\ HeldThroughN4(h)
  /\ pc' = [pc EXCEPT ![h] = "awaitEstablish"]
  /\ ngapIdCounter' = ngapIdCounter + 1
  /\ ngapId' = [ngapId EXCEPT ![h] = ngapIdCounter]
  /\ n4Call' = [n4Call EXCEPT ![h] =
                  [op |-> "establish", supi |-> req[h].supi,
                   ueIp |-> UeIp(ngapIdCounter + 1), session |-> 0]]
  /\ UNCHANGED <<ueContexts, regCount, deregCount, req, n4Reply>>

(* The UPF answers, or the channel reports an error: there is no deadline. *)
N4Answers(h, reply) ==
  /\ Pending(h)
  /\ n4Reply' = [n4Reply EXCEPT ![h] = reply]
  /\ UNCHANGED <<contextVars, ctxMutex, pc, req, ngapId, n4Call>>

RegisterFailed(h) ==
  /\ pc[h] = "awaitEstablish"
  /\ n4Reply[h].status = "failed"
  /\ Returns(h)
  /\ UNCHANGED contextVars

(* Mutated form: a known UE keeps the NGAP id it has.                      *)
KeptContext(h) ==
  [ngapId |-> IF req[h].supi \in DOMAIN ueContexts
              THEN ueContexts[req[h].supi].ngapId ELSE FirstNgapId,
   session |-> n4Reply[h].session]

(* Mutated form: the id is found by counting the contexts.                 *)
NumberedContext(h) ==
  [ngapId |-> FirstNgapId + Cardinality(DOMAIN ueContexts), session |-> n4Reply[h].session]

NewContext(h) == [ngapId |-> ngapId[h], session |-> n4Reply[h].session]

RegisterStore(h) ==
  /\ pc[h] = "awaitEstablish"
  /\ n4Reply[h].status = "ok"
  /\ ueContexts' = Put(ueContexts, req[h].supi, NewContext(h))
  /\ regCount' = regCount + 1
  /\ Returns(h)
  /\ UNCHANGED <<ngapIdCounter, deregCount>>

DeregisterUnknown(h) ==
  /\ pc[h] = "deregister"
  /\ ctxMutex = Nobody
  /\ req[h].supi \notin DOMAIN ueContexts
  /\ Returns(h)
  /\ UNCHANGED contextVars

DeregisterRelease(h) ==
  /\ pc[h] = "deregister"
  /\ req[h].supi \in DOMAIN ueContexts
  /\ HeldThroughN4(h)
  /\ pc' = [pc EXCEPT ![h] = "awaitRelease"]
  /\ n4Call' = [n4Call EXCEPT ![h] =
                  [op |-> "release", supi |-> req[h].supi, ueIp |-> 0,
                   session |-> ueContexts[req[h].supi].session]]
  /\ UNCHANGED <<contextVars, req, ngapId, n4Reply>>

(* Mutated form: only a release the UPF confirms ends the handler's wait.  *)
ReleaseConfirmed(h) == n4Reply[h].status = "ok"

(* Mutated form: the release is sent and not waited for.                   *)
ReleaseNotAwaited(h) == TRUE

(* Whatever the N4 call came to, the handler goes on.                      *)
ReleaseReturned(h) == n4Reply[h].status # "none"

DeregisterErase(h) ==
  /\ pc[h] = "awaitRelease"
  /\ ReleaseReturned(h)
  /\ ueContexts' = Erase(ueContexts, req[h].supi)
  /\ deregCount' = deregCount + 1
  /\ Returns(h)
  /\ UNCHANGED <<ngapIdCounter, regCount>>

(* The process exits and is started again; nothing is persisted.           *)
Restart ==
  /\ ueContexts' = EmptyMap
  /\ ctxMutex' = Nobody
  /\ ngapIdCounter' = FirstNgapId
  /\ regCount' = 0
  /\ deregCount' = 0
  /\ pc' = [h \in Handlers |-> "idle"]
  /\ req' = [h \in Handlers |-> NoRequest]
  /\ ngapId' = [h \in Handlers |-> 0]
  /\ n4Call' = [h \in Handlers |-> NoCall]
  /\ n4Reply' = [h \in Handlers |-> NoReply]

HandlerStep(h) ==
  \/ RegisterDuplicate(h)
  \/ RegisterEstablish(h)
  \/ RegisterFailed(h)
  \/ RegisterStore(h)
  \/ DeregisterUnknown(h)
  \/ DeregisterRelease(h)
  \/ DeregisterErase(h)

UpfAnswers(h) == \E reply \in {Failed} \cup {Ok(id) : id \in SessionIds} : N4Answers(h, reply)

Next ==
  \/ \E h \in Handlers :
       \/ \E supi \in Supis \cup {Empty}, type \in RegTypes : RegisterArrives(h, supi, type)
       \/ \E supi \in Supis \cup {Empty} : DeregisterArrives(h, supi)
       \/ HandlerStep(h)
       \/ UpfAnswers(h)
  \/ Restart

Spec == Init /\ [][Next]_vars

(***************************************************************************)
(* Fairness.  A handler that has arrived goes on (its thread is scheduled  *)
(* and nothing in it loops), and an N4 call comes back: gRPC answers it,   *)
(* or reports the broken connection.  Nothing makes clients send requests, *)
(* and std::mutex does not promise a turn to a handler others overtake.    *)
(***************************************************************************)
FairSpec ==
  /\ Spec
  /\ \A h \in Handlers : WF_vars(HandlerStep(h)) /\ WF_vars(UpfAnswers(h))

(***************************************************************************)
(* Properties.                                                             *)
(***************************************************************************)
Awaiting(h) == pc[h] \in {"awaitEstablish", "awaitRelease"}

TypeOK ==
  /\ DOMAIN ueContexts \subseteq Supis
  /\ \A supi \in DOMAIN ueContexts : ueContexts[supi] \in UEContext
  /\ ctxMutex \in Handlers \cup {Nobody}
  /\ ngapIdCounter \in Nat
  /\ regCount \in Nat
  /\ deregCount \in Nat
  /\ pc \in [Handlers -> {"idle", "register", "deregister", "awaitEstablish", "awaitRelease"}]
  /\ req \in [Handlers -> Request]
  /\ ngapId \in [Handlers -> Nat]
  /\ n4Call \in [Handlers -> N4Call]
  /\ n4Reply \in [Handlers -> N4Reply]

(* The duplicate check of Register is made before the N4 round trip and    *)
(* relied on after it: a UE whose initial registration is waiting for the  *)
(* UPF has no context, whatever the other handlers do meanwhile.  So an    *)
(* accepted initial registration never overwrites a context, which would   *)
(* leave the session of the overwritten one live at the UPF.               *)
InitialRegistersNewUe ==
  \A h \in Handlers :
    pc[h] = "awaitEstablish" /\ req[h].type = Initial => req[h].supi \notin DOMAIN ueContexts

(* The iterator Deregister finds before its N4 call is the one it erases   *)
(* after it: the entry is still there, with the session being released.    *)
IteratorStaysValid ==
  \A h \in Handlers :
    pc[h] = "awaitRelease" =>
      /\ req[h].supi \in DOMAIN ueContexts
      /\ ueContexts[req[h].supi].session = n4Call[h].session

(* No two UEs hold the same NGAP id, and a registration under way holds an *)
(* id that no context has.                                                 *)
NgapIdsUnique ==
  /\ \A s, t \in DOMAIN ueContexts : s # t => ueContexts[s].ngapId # ueContexts[t].ngapId
  /\ \A h \in Handlers, s \in DOMAIN ueContexts :
       pc[h] = "awaitEstablish" => ueContexts[s].ngapId < ngapId[h]

(* total_registrations - total_deregistrations, the amf_active_ues gauge,  *)
(* never counts fewer UEs than hold a context (it counts more after a      *)
(* registration of a UE that had one).                                     *)
CountersCoverContexts == Cardinality(DOMAIN ueContexts) + deregCount <= regCount

(* README.md says of concurrent registrations that "requests no longer     *)
(* queue behind slow N4 round trips": no request is at the mutex while the *)
(* handler that holds it waits for the UPF.                                *)
NoQueueBehindN4 ==
  \A h, g \in Handlers :
    ctxMutex = h /\ Pending(h) => pc[g] \notin {"register", "deregister"}

Registry == INSTANCE UeRegistry WITH
  registered <- [supi \in DOMAIN ueContexts |-> ueContexts[supi].ngapId],
  registrations <- regCount

(* The handlers, interleaved around their N4 calls, are the registry.      *)
ImplementsRegistry == Registry!Spec

(* A handler that waits for the UPF stops holding the mutex that every     *)
(* other registration needs.                                               *)
MutexIsReleased == \A h \in Handlers : ctxMutex = h ~> ctxMutex # h
===============================================================================
