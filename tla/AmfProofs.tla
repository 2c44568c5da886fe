------------------------------- MODULE AmfProofs -------------------------------
(***************************************************************************)
(* Proofs about Amf, for any sets of subscribers, handlers and session     *)
(* ids, and with a UPF that answers anything.  The invariants rest on one  *)
(* fact of the code, MutexDiscipline: a handler waits for the UPF exactly  *)
(* while it holds ctx_mutex_.  So what it found before the N4 call is      *)
(* still so after it, and the ids it took are the newest.                  *)
(***************************************************************************)
EXTENDS Amf, FiniteSetTheorems, TLAPS

MutexDiscipline == \A h \in Handlers : Awaiting(h) <=> ctxMutex = h

RegistersSomebody ==
  \A h \in Handlers : pc[h] \in {"register", "awaitEstablish"} => req[h].supi \in Supis

(* A handler has an N4 call exactly while it waits, and for its own UE.    *)
CallsMatch ==
  \A h \in Handlers :
    /\ pc[h] = "awaitEstablish" => n4Call[h].op = "establish" /\ n4Call[h].supi = req[h].supi
    /\ pc[h] = "awaitRelease" => n4Call[h].op = "release" /\ n4Call[h].supi = req[h].supi
    /\ ~ Awaiting(h) => n4Call[h] = NoCall

IdsIssued ==
  /\ \A s \in DOMAIN ueContexts : ueContexts[s].ngapId < ngapIdCounter
  /\ \A h \in Handlers : pc[h] = "awaitEstablish" => ngapId[h] < ngapIdCounter

IInv ==
  /\ TypeOK
  /\ MutexDiscipline
  /\ RegistersSomebody
  /\ CallsMatch
  /\ IdsIssued
  /\ InitialRegistersNewUe
  /\ IteratorStaysValid
  /\ NgapIdsUnique

USE AmfAssumption

LEMMA UeIpInPool == ASSUME NEW n \in Nat PROVE UeIp(n) \in 0 .. AddressPool
  BY DEF UeIp

LEMMA InitInvariant == Init => IInv
<1> SUFFICES ASSUME Init PROVE IInv
  OBVIOUS
<1>1. TypeOK
  BY DEF Init, TypeOK, EmptyMap, Request, NoRequest, N4Call, NoCall, N4Reply, NoReply
<1>2. MutexDiscipline /\ RegistersSomebody /\ CallsMatch /\ InitialRegistersNewUe /\ IteratorStaysValid
  BY DEF Init, MutexDiscipline, Awaiting, RegistersSomebody, CallsMatch, InitialRegistersNewUe, IteratorStaysValid
<1>3. IdsIssued /\ NgapIdsUnique
  BY DEF Init, EmptyMap, IdsIssued, NgapIdsUnique
<1> QED
  BY <1>1, <1>2, <1>3 DEF IInv

LEMMA ArrivesInvariant ==
  ASSUME IInv, NEW h \in Handlers, NEW supi \in Supis \cup {Empty}, NEW type \in RegTypes,
         RegisterArrives(h, supi, type) \/ DeregisterArrives(h, supi)
  PROVE  IInv'
<1>1. PICK label \in {"register", "deregister"}, t \in RegTypes :
        Arrives(h, label, supi, t) /\ (label = "register" => supi \in Supis)
  BY DEF RegisterArrives, DeregisterArrives
<1>2. TypeOK'
  BY <1>1 DEF Arrives, contextVars, IInv, TypeOK, Request
<1>3. MutexDiscipline' /\ RegistersSomebody' /\ CallsMatch'
  BY <1>1 DEF Arrives, contextVars, IInv, TypeOK, MutexDiscipline, Awaiting, RegistersSomebody, CallsMatch
<1>4. IdsIssued' /\ NgapIdsUnique'
  BY <1>1 DEF Arrives, contextVars, IInv, TypeOK, IdsIssued, NgapIdsUnique
<1>5. InitialRegistersNewUe' /\ IteratorStaysValid'
  BY <1>1 DEF Arrives, contextVars, IInv, TypeOK, InitialRegistersNewUe, IteratorStaysValid
<1> QED
  BY <1>2, <1>3, <1>4, <1>5 DEF IInv

(* What every return of a handler keeps, when it alone held the mutex or   *)
(* nobody did.                                                             *)
LEMMA ReturnsInvariant ==
  ASSUME IInv, NEW h \in Handlers, Returns(h), ctxMutex \in {h, Nobody}
  PROVE  /\ ctxMutex' \in Handlers \cup {Nobody}
         /\ pc' \in [Handlers -> {"idle", "register", "deregister", "awaitEstablish", "awaitRelease"}]
         /\ req' \in [Handlers -> Request]
         /\ ngapId' \in [Handlers -> Nat]
         /\ n4Call' \in [Handlers -> N4Call]
         /\ n4Reply' \in [Handlers -> N4Reply]
         /\ MutexDiscipline'
         /\ RegistersSomebody'
         /\ CallsMatch'
         /\ \A g \in Handlers : pc'[g] \notin {"awaitEstablish", "awaitRelease"}
<1>1. NoRequest \in Request /\ NoCall \in N4Call /\ NoReply \in N4Reply
  BY DEF Request, NoRequest, N4Call, NoCall, N4Reply, NoReply
<1>2. \A g \in Handlers : pc'[g] \notin {"awaitEstablish", "awaitRelease"}
  BY DEF Returns, IInv, TypeOK, MutexDiscipline, Awaiting
<1>3. MutexDiscipline' /\ RegistersSomebody' /\ CallsMatch'
  BY <1>2 DEF Returns, IInv, TypeOK, MutexDiscipline, Awaiting, RegistersSomebody, CallsMatch
<1> QED
  BY <1>1, <1>2, <1>3 DEF Returns, IInv, TypeOK

LEMMA RefusedInvariant ==
  ASSUME IInv, NEW h \in Handlers,
         RegisterDuplicate(h) \/ RegisterFailed(h) \/ DeregisterUnknown(h)
  PROVE  IInv'
<1>1. Returns(h) /\ UNCHANGED contextVars
  BY DEF RegisterDuplicate, RegisterFailed, DeregisterUnknown
<1>2. ctxMutex \in {h, Nobody}
  BY DEF RegisterDuplicate, RegisterFailed, DeregisterUnknown, IInv, MutexDiscipline, Awaiting
<1>3. TypeOK'
  BY <1>1, <1>2, ReturnsInvariant DEF IInv, TypeOK, contextVars
<1>4. MutexDiscipline' /\ RegistersSomebody' /\ CallsMatch' /\ InitialRegistersNewUe' /\ IteratorStaysValid'
  BY <1>1, <1>2, ReturnsInvariant DEF InitialRegistersNewUe, IteratorStaysValid
<1>5. IdsIssued' /\ NgapIdsUnique'
  BY <1>1, <1>2, ReturnsInvariant DEF IInv, IdsIssued, NgapIdsUnique, contextVars
<1> QED
  BY <1>3, <1>4, <1>5 DEF IInv

(* The id taken is above every id stored, and nobody else is waiting.      *)
LEMMA EstablishInvariant ==
  ASSUME IInv, NEW h \in Handlers, RegisterEstablish(h)
  PROVE  IInv'
<1>1. \A g \in Handlers : ~ Awaiting(g)
  BY DEF IInv, MutexDiscipline, RegisterEstablish, HeldThroughN4
<1>2. n4Call' \in [Handlers -> N4Call]
  BY UeIpInPool DEF RegisterEstablish, IInv, TypeOK, Request, N4Call
<1>3. TypeOK'
  BY <1>2 DEF RegisterEstablish, HeldThroughN4, IInv, TypeOK
<1>4. MutexDiscipline' /\ RegistersSomebody' /\ CallsMatch'
  BY <1>1 DEF RegisterEstablish, HeldThroughN4, IInv, TypeOK, MutexDiscipline, Awaiting, RegistersSomebody, CallsMatch
<1>5. IdsIssued'
  BY <1>1 DEF RegisterEstablish, IInv, TypeOK, UEContext, IdsIssued, Awaiting
<1>6. NgapIdsUnique'
  BY <1>1 DEF RegisterEstablish, IInv, TypeOK, UEContext, IdsIssued, NgapIdsUnique, Awaiting
<1>7. InitialRegistersNewUe' /\ IteratorStaysValid'
  BY <1>1 DEF RegisterEstablish, AlreadyRegistered, IInv, TypeOK, Awaiting,
              InitialRegistersNewUe, IteratorStaysValid
<1> QED
  BY <1>3, <1>4, <1>5, <1>6, <1>7 DEF IInv

LEMMA AnswersInvariant ==
  ASSUME IInv, NEW h \in Handlers, NEW reply \in N4Reply, N4Answers(h, reply)
  PROVE  IInv'
  BY DEF N4Answers, contextVars, IInv, TypeOK, MutexDiscipline, Awaiting, RegistersSomebody, CallsMatch,
         IdsIssued, InitialRegistersNewUe, IteratorStaysValid, NgapIdsUnique

LEMMA StoreInvariant ==
  ASSUME IInv, NEW h \in Handlers, RegisterStore(h)
  PROVE  IInv'
<1> DEFINE supi == req[h].supi
<1>1. Returns(h) /\ ctxMutex \in {h, Nobody}
  BY DEF RegisterStore, IInv, MutexDiscipline, Awaiting
<1>2. supi \in Supis
  BY DEF RegisterStore, IInv, RegistersSomebody
<1>3. NewContext(h) \in UEContext /\ NewContext(h).ngapId = ngapId[h]
  BY DEF NewContext, UEContext, IInv, TypeOK, N4Reply
<1>4. /\ DOMAIN ueContexts' = DOMAIN ueContexts \cup {supi}
      /\ ueContexts'[supi] = NewContext(h)
      /\ \A s \in DOMAIN ueContexts : s # supi => ueContexts'[s] = ueContexts[s]
  BY DEF RegisterStore, Put
<1>5. UNCHANGED <<ngapIdCounter, deregCount>> /\ regCount' = regCount + 1
  BY DEF RegisterStore
<1>6. TypeOK'
  BY <1>1, <1>2, <1>3, <1>4, <1>5, ReturnsInvariant DEF IInv, TypeOK
<1>7. MutexDiscipline' /\ RegistersSomebody' /\ CallsMatch' /\ InitialRegistersNewUe' /\ IteratorStaysValid'
  BY <1>1, ReturnsInvariant DEF InitialRegistersNewUe, IteratorStaysValid
<1>8. /\ ngapId[h] \in Nat /\ ngapId[h] < ngapIdCounter
      /\ \A s \in DOMAIN ueContexts : ueContexts[s].ngapId \in Nat /\ ueContexts[s].ngapId < ngapId[h]
  BY DEF RegisterStore, IInv, TypeOK, UEContext, IdsIssued, NgapIdsUnique
<1>9. IdsIssued' /\ NgapIdsUnique'
  BY <1>1, <1>3, <1>4, <1>5, <1>8, ReturnsInvariant DEF IInv, TypeOK, IdsIssued, NgapIdsUnique
<1> QED
  BY <1>6, <1>7, <1>9 DEF IInv

LEMMA ReleaseInvariant ==
  ASSUME IInv, NEW h \in Handlers, DeregisterRelease(h)
  PROVE  IInv'
<1>1. \A g \in Handlers : ~ Awaiting(g)
  BY DEF IInv, MutexDiscipline, DeregisterRelease, HeldThroughN4
<1>2. n4Call' \in [Handlers -> N4Call]
  BY DEF DeregisterRelease, IInv, TypeOK, Request, N4Call, UEContext
<1>3. TypeOK'
  BY <1>2 DEF DeregisterRelease, HeldThroughN4, contextVars, IInv, TypeOK
<1>4. MutexDiscipline' /\ RegistersSomebody' /\ CallsMatch'
  BY <1>1 DEF DeregisterRelease, HeldThroughN4, IInv, TypeOK, MutexDiscipline, Awaiting, RegistersSomebody, CallsMatch
<1>5. IdsIssued' /\ NgapIdsUnique'
  BY <1>1 DEF DeregisterRelease, contextVars, IInv, TypeOK, IdsIssued, NgapIdsUnique, Awaiting
<1>6. InitialRegistersNewUe' /\ IteratorStaysValid'
  BY <1>1 DEF DeregisterRelease, contextVars, IInv, TypeOK, Awaiting, InitialRegistersNewUe, IteratorStaysValid
<1> QED
  BY <1>3, <1>4, <1>5, <1>6 DEF IInv

LEMMA EraseInvariant ==
  ASSUME IInv, NEW h \in Handlers, DeregisterErase(h)
  PROVE  IInv'
<1>1. Returns(h) /\ ctxMutex \in {h, Nobody}
  BY DEF DeregisterErase, IInv, MutexDiscipline, Awaiting
<1>2. /\ DOMAIN ueContexts' = DOMAIN ueContexts \ {req[h].supi}
      /\ \A s \in DOMAIN ueContexts' : ueContexts'[s] = ueContexts[s]
  BY DEF DeregisterErase, Erase, Restrict
<1>3. UNCHANGED <<ngapIdCounter, regCount>> /\ deregCount' = deregCount + 1
  BY DEF DeregisterErase
<1>4. TypeOK'
  BY <1>1, <1>2, <1>3, ReturnsInvariant DEF IInv, TypeOK
<1>5. MutexDiscipline' /\ RegistersSomebody' /\ CallsMatch' /\ InitialRegistersNewUe' /\ IteratorStaysValid'
  BY <1>1, ReturnsInvariant DEF InitialRegistersNewUe, IteratorStaysValid
<1>6. IdsIssued' /\ NgapIdsUnique'
  BY <1>1, <1>2, <1>3, ReturnsInvariant DEF IInv, IdsIssued, NgapIdsUnique
<1> QED
  BY <1>4, <1>5, <1>6 DEF IInv

LEMMA RestartInvariant == Restart => IInv'
<1> SUFFICES ASSUME Restart PROVE IInv'
  OBVIOUS
<1>1. TypeOK'
  BY DEF Restart, TypeOK, EmptyMap, Request, NoRequest, N4Call, NoCall, N4Reply, NoReply
<1>2. MutexDiscipline' /\ RegistersSomebody' /\ CallsMatch' /\ InitialRegistersNewUe' /\ IteratorStaysValid'
  BY DEF Restart, MutexDiscipline, Awaiting, RegistersSomebody, CallsMatch, InitialRegistersNewUe, IteratorStaysValid
<1>3. IdsIssued' /\ NgapIdsUnique'
  BY DEF Restart, EmptyMap, IdsIssued, NgapIdsUnique
<1> QED
  BY <1>1, <1>2, <1>3 DEF IInv

LEMMA StutterInvariant == IInv /\ UNCHANGED vars => IInv'
  BY DEF vars, contextVars, handlerVars, IInv, TypeOK, MutexDiscipline, Awaiting, RegistersSomebody, CallsMatch,
         IdsIssued, InitialRegistersNewUe, IteratorStaysValid, NgapIdsUnique

LEMMA NextInvariant == IInv /\ [Next]_vars => IInv'
<1> SUFFICES ASSUME IInv, [Next]_vars PROVE IInv'
  OBVIOUS
<1>1. ASSUME NEW h \in Handlers, NEW supi \in Supis \cup {Empty}, NEW type \in RegTypes,
             RegisterArrives(h, supi, type)
      PROVE  IInv'
  BY <1>1, ArrivesInvariant
<1>2. ASSUME NEW h \in Handlers, NEW supi \in Supis \cup {Empty}, DeregisterArrives(h, supi)
      PROVE  IInv'
  BY <1>2, ArrivesInvariant
<1>3. ASSUME NEW h \in Handlers, HandlerStep(h)
      PROVE  IInv'
  BY <1>3, RefusedInvariant, EstablishInvariant, StoreInvariant, ReleaseInvariant, EraseInvariant
     DEF HandlerStep
<1>4. ASSUME NEW h \in Handlers, UpfAnswers(h)
      PROVE  IInv'
  <2>1. PICK reply \in {Failed} \cup {Ok(id) : id \in SessionIds} : N4Answers(h, reply)
    BY <1>4 DEF UpfAnswers
  <2>2. reply \in N4Reply
    BY DEF N4Reply, Failed, Ok
  <2> QED
    BY <2>1, <2>2, AnswersInvariant
<1> QED
  BY <1>1, <1>2, <1>3, <1>4, RestartInvariant, StutterInvariant DEF Next

LEMMA Invariant == Spec => []IInv
<1>1. Init => IInv
  BY InitInvariant
<1>2. IInv /\ [Next]_vars => IInv'
  BY NextInvariant
<1> QED
  BY <1>1, <1>2, PTL DEF Spec

(* Whatever the UPF answers and however the handlers interleave, the state *)
(* stays well typed.                                                       *)
THEOREM AmfTypeCorrect == Spec => []TypeOK
<1>1. IInv => TypeOK
  BY DEF IInv
<1> QED
  BY <1>1, Invariant, PTL

(* The duplicate check of an initial registration still holds when the N4  *)
(* call it precedes has been answered.                                     *)
THEOREM InitialRegistersNew == Spec => []InitialRegistersNewUe
<1>1. IInv => InitialRegistersNewUe
  BY DEF IInv
<1> QED
  BY <1>1, Invariant, PTL

(* The iterator that Deregister found is still good when the release is    *)
(* answered and the handler erases it.                                     *)
THEOREM IteratorValid == Spec => []IteratorStaysValid
<1>1. IInv => IteratorStaysValid
  BY DEF IInv
<1> QED
  BY <1>1, Invariant, PTL

(* No two UEs hold one NGAP id.                                            *)
THEOREM NgapIdsAreUnique == Spec => []NgapIdsUnique
<1>1. IInv => NgapIdsUnique
  BY DEF IInv
<1> QED
  BY <1>1, Invariant, PTL

CountInv ==
  /\ IsFiniteSet(DOMAIN ueContexts)
  /\ CountersCoverContexts

LEMMA InitCount == Init => CountInv
  BY FS_EmptySet DEF Init, EmptyMap, CountInv, CountersCoverContexts

(* Only a store adds a context, and it is counted; an erase removes one    *)
(* that is there, because its iterator is still good.                      *)
LEMMA NextCount ==
  ASSUME IInv, CountInv, [Next]_vars
  PROVE  CountInv'
<1>1. /\ IsFiniteSet(DOMAIN ueContexts)
      /\ Cardinality(DOMAIN ueContexts) \in Nat
      /\ Cardinality(DOMAIN ueContexts) + deregCount <= regCount
      /\ deregCount \in Nat /\ regCount \in Nat
  BY FS_CardinalityType DEF CountInv, CountersCoverContexts, IInv, TypeOK
<1>2. ASSUME UNCHANGED <<ueContexts, regCount, deregCount>>
      PROVE  CountInv'
  BY <1>1, <1>2 DEF CountInv, CountersCoverContexts
<1>3. ASSUME NEW h \in Handlers, RegisterStore(h)
      PROVE  CountInv'
  <2>1. /\ DOMAIN ueContexts' = DOMAIN ueContexts \cup {req[h].supi}
        /\ regCount' = regCount + 1 /\ deregCount' = deregCount
    BY <1>3 DEF RegisterStore, Put
  <2>2. /\ IsFiniteSet(DOMAIN ueContexts')
        /\ \/ Cardinality(DOMAIN ueContexts') = Cardinality(DOMAIN ueContexts)
           \/ Cardinality(DOMAIN ueContexts') = Cardinality(DOMAIN ueContexts) + 1
    BY <1>1, <2>1, FS_AddElement
  <2> QED
    BY <1>1, <2>1, <2>2 DEF CountInv, CountersCoverContexts
<1>4. ASSUME NEW h \in Handlers, DeregisterErase(h)
      PROVE  CountInv'
  <2>1. /\ DOMAIN ueContexts' = DOMAIN ueContexts \ {req[h].supi}
        /\ deregCount' = deregCount + 1 /\ regCount' = regCount
    BY <1>4 DEF DeregisterErase, Erase, Restrict
  <2>2. req[h].supi \in DOMAIN ueContexts
    BY <1>4 DEF DeregisterErase, IInv, IteratorStaysValid
  <2>3. /\ IsFiniteSet(DOMAIN ueContexts')
        /\ Cardinality(DOMAIN ueContexts') = Cardinality(DOMAIN ueContexts) - 1
    BY <1>1, <2>1, <2>2, FS_RemoveElement
  <2> QED
    BY <1>1, <2>1, <2>3 DEF CountInv, CountersCoverContexts
<1>5. CASE Restart
  BY <1>5, FS_EmptySet DEF Restart, EmptyMap, CountInv, CountersCoverContexts
<1>6. CASE \E h \in Handlers : HandlerStep(h)
  BY <1>2, <1>3, <1>4, <1>6
     DEF HandlerStep, RegisterDuplicate, RegisterEstablish, RegisterFailed, DeregisterUnknown,
         DeregisterRelease, contextVars
<1>7. CASE \E h \in Handlers :
             \/ \E supi \in Supis \cup {Empty}, type \in RegTypes : RegisterArrives(h, supi, type)
             \/ \E supi \in Supis \cup {Empty} : DeregisterArrives(h, supi)
             \/ UpfAnswers(h)
  BY <1>2, <1>7 DEF RegisterArrives, DeregisterArrives, Arrives, UpfAnswers, N4Answers, contextVars
<1>8. CASE UNCHANGED vars
  BY <1>2, <1>8 DEF vars, contextVars
<1> QED
  BY <1>5, <1>6, <1>7, <1>8 DEF Next

(* amf_active_ues never counts fewer UEs than have a context.              *)
THEOREM CountersCover == Spec => []CountersCoverContexts
<1>1. Init => IInv /\ CountInv
  BY InitInvariant, InitCount
<1>2. IInv /\ CountInv /\ [Next]_vars => IInv' /\ CountInv'
  BY NextInvariant, NextCount
<1> QED
  BY <1>1, <1>2, PTL DEF Spec, CountInv

(* A step of the AMF is a step of the registry, or none at all.            *)
LEMMA RegistryStep ==
  ASSUME IInv, [Next]_vars
  PROVE  [Registry!Next]_(Registry!vars)
<1> DEFINE ids == [supi \in DOMAIN ueContexts |-> ueContexts[supi].ngapId]
<1>1. ASSUME UNCHANGED <<ueContexts, regCount>>
      PROVE  UNCHANGED Registry!vars
  BY <1>1 DEF Registry!vars
<1>2. ASSUME NEW h \in Handlers, RegisterStore(h), NEW supi, supi = req[h].supi
      PROVE  Registry!Register(supi)
  <2>1. ueContexts' = Put(ueContexts, supi, NewContext(h)) /\ regCount' = regCount + 1
    BY <1>2 DEF RegisterStore
  <2>2. ids' = Put(ids, supi, ngapId[h])
    BY <2>1 DEF Put, NewContext
  <2>3. \A s \in DOMAIN ids : ids[s] < ngapId[h]
    BY <1>2 DEF RegisterStore, IInv, NgapIdsUnique
  <2>4. supi \in DOMAIN ids' /\ ids'[supi] = ngapId[h]
    BY <2>2 DEF Put
  <2> QED
    BY <2>1, <2>2, <2>3, <2>4 DEF Registry!Register, Registry!Put, Put, ids
<1>3. ASSUME NEW h \in Handlers, DeregisterErase(h), NEW supi, supi = req[h].supi
      PROVE  Registry!Deregister(supi)
  <2>1. ueContexts' = Erase(ueContexts, supi) /\ regCount' = regCount
    BY <1>3 DEF DeregisterErase
  <2>2. supi \in DOMAIN ueContexts
    BY <1>3 DEF DeregisterErase, IInv, IteratorStaysValid
  <2>3. ids' = Erase(ids, supi)
    BY <2>1 DEF Erase, Restrict
  <2> QED
    BY <2>1, <2>2, <2>3 DEF Registry!Deregister, Registry!Erase, Registry!Restrict, Erase, Restrict
<1>4. CASE Restart
  BY <1>4 DEF Restart, EmptyMap, Registry!Next, Registry!Restart, Registry!EmptyMap
<1>5. CASE \E h \in Handlers : HandlerStep(h)
  <2>1. PICK h \in Handlers : HandlerStep(h)
    BY <1>5
  <2>2. CASE RegisterStore(h)
    <3>1. PICK supi \in Supis : supi = req[h].supi
      BY <2>2 DEF RegisterStore, IInv, RegistersSomebody
    <3>2. Registry!Register(supi)
      BY <1>2, <2>2, <3>1
    <3> QED
      BY <3>1, <3>2 DEF Registry!Next
  <2>3. CASE DeregisterErase(h)
    <3>1. PICK supi \in Supis : supi = req[h].supi
      BY <2>3 DEF DeregisterErase, IInv, IteratorStaysValid, TypeOK
    <3>2. Registry!Deregister(supi)
      BY <1>3, <2>3, <3>1
    <3> QED
      BY <3>1, <3>2 DEF Registry!Next
  <2> QED
    BY <1>1, <2>1, <2>2, <2>3
       DEF HandlerStep, RegisterDuplicate, RegisterEstablish, RegisterFailed, DeregisterUnknown,
           DeregisterRelease, contextVars
<1>6. CASE \E h \in Handlers :
             \/ \E supi \in Supis \cup {Empty}, type \in RegTypes : RegisterArrives(h, supi, type)
             \/ \E supi \in Supis \cup {Empty} : DeregisterArrives(h, supi)
             \/ UpfAnswers(h)
  BY <1>1, <1>6 DEF RegisterArrives, DeregisterArrives, Arrives, UpfAnswers, N4Answers, contextVars
<1>7. CASE UNCHANGED vars
  BY <1>1, <1>7 DEF vars, contextVars
<1> QED
  BY <1>4, <1>5, <1>6, <1>7 DEF Next

(* The interleaved handlers implement the registry, for any UPF.           *)
THEOREM AmfImplementsRegistry == Spec => ImplementsRegistry
<1>1. Init => IInv
  BY InitInvariant
<1>2. IInv /\ [Next]_vars => IInv'
  BY NextInvariant
<1>3. Init => Registry!Init
  BY DEF Init, EmptyMap, Registry!Init, Registry!EmptyMap
<1>4. IInv /\ [Next]_vars => [Registry!Next]_(Registry!vars)
  BY RegistryStep
<1> QED
  BY <1>1, <1>2, <1>3, <1>4, PTL DEF Spec, ImplementsRegistry, Registry!Spec
===============================================================================
