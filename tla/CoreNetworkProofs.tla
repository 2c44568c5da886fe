--------------------------- MODULE CoreNetworkProofs ---------------------------
(***************************************************************************)
(* Proofs about CoreNetwork, for any number of handlers, subscribers,      *)
(* faults and restarts: that it is well typed; that the sessions the UE    *)
(* contexts of the AMF name are live and their own, and no release takes   *)
(* another UE's; that the first lap of addresses is routed; and that the   *)
(* sessions the UPF holds are those the counters of the AMF account for    *)
(* and at most one more for every broken call.                             *)
(***************************************************************************)
EXTENDS CoreNetwork, AmfProofs

(***************************************************************************)
(* Types.                                                                  *)
(***************************************************************************)
(* A call the AMF makes.                                                   *)
GoodCall(call) ==
  /\ call \in N4Call
  /\ call.op \in {"establish", "release"}
  /\ call.op = "establish" => call.supi \in Supis /\ call.ueIp \in 1 .. AddressPool

FaultsTyped ==
  /\ n4Breaks \in Nat /\ amfRestarts \in Nat /\ upfRestarts \in Nat
  /\ DOMAIN stray \subseteq 1 .. n4Breaks + amfRestarts
  /\ \A n \in DOMAIN stray : GoodCall(stray[n])

CallsGood == \A h \in Handlers : n4Call[h].op # "none" => GoodCall(n4Call[h])

TypedInv == IInv /\ Upf!TypeOK /\ CallsGood /\ FaultsTyped

LEMMA UeIpPositive == ASSUME NEW n \in Nat PROVE UeIp(n) \in 1 .. AddressPool
<1> DEFINE pool == AddressPool
<1>1. pool \in Nat \ {0}
  BY AmfAssumption
<1> HIDE DEF pool
<1>2. n % pool \in 0 .. pool - 1
  BY <1>1
<1>3. (n % pool) + 1 \in 1 .. pool
  BY <1>1, <1>2
<1> QED
  BY <1>3 DEF UeIp, pool

LEMMA AnswerTyped ==
  ASSUME TypedInv, NEW call \in N4Call
  PROVE  Answer(call) \in N4Reply
  BY DEF Answer, Ok, Failed, N4Reply, N4Call, TypedInv, Upf!TypeOK

(* A step of the AMF alone changes no call but its own.                    *)
LEMMA AmfStepTyped ==
  ASSUME TypedInv, NEW h \in Handlers, RequestArrives(h) \/ HandlerMoves(h)
  PROVE  TypedInv'
<1>1. [Next]_vars /\ UNCHANGED <<upfVars, faultVars>>
  BY DEF RequestArrives, HandlerMoves, Next
<1>2. IInv'
  BY <1>1, NextInvariant DEF TypedInv
<1>3. Upf!TypeOK' /\ FaultsTyped'
  BY <1>1 DEF TypedInv, upfVars, faultVars, Upf!TypeOK, FaultsTyped
<1>4. CASE RequestArrives(h)
  <2>1. UNCHANGED n4Call
    BY <1>4 DEF RequestArrives, RegisterArrives, DeregisterArrives, Arrives
  <2> QED
    BY <1>2, <1>3, <2>1 DEF TypedInv, CallsGood
<1>5. CASE Returns(h)
  BY <1>2, <1>3, <1>5 DEF Returns, NoCall, TypedInv, CallsGood, IInv, TypeOK
<1>6. CASE RegisterEstablish(h)
  <2>1. req[h].supi \in Supis
    BY <1>6 DEF RegisterEstablish, TypedInv, IInv, RegistersSomebody
  <2>2. UeIp(ngapIdCounter + 1) \in 1 .. AddressPool
    BY UeIpPositive DEF TypedInv, IInv, TypeOK
  <2>3. CallsGood'
    BY <1>6, <2>1, <2>2 DEF RegisterEstablish, TypedInv, CallsGood, GoodCall, N4Call, IInv, TypeOK
  <2> QED
    BY <1>2, <1>3, <2>3 DEF TypedInv
<1>7. CASE DeregisterRelease(h)
  <2>1. n4Call' \in [Handlers -> N4Call]
    BY <1>2 DEF IInv, TypeOK
  <2>2. CallsGood'
    BY <1>7, <2>1 DEF DeregisterRelease, TypedInv, CallsGood, GoodCall, IInv, TypeOK
  <2> QED
    BY <1>2, <1>3, <2>2 DEF TypedInv
<1> QED
  BY <1>4, <1>5, <1>6, <1>7
     DEF HandlerMoves, HandlerStep, RegisterDuplicate, RegisterFailed, RegisterStore,
         DeregisterUnknown, DeregisterErase

(* The UPF's part of a call keeps its table typed.                         *)
LEMMA UpfRunsTyped ==
  ASSUME Upf!TypeOK, NEW call, GoodCall(call), UpfRuns(call)
  PROVE  Upf!TypeOK'
<1>1. CASE call.op = "establish" /\ Upf!EstablishSession(call.supi, call.ueIp, DefaultQos)
  BY <1>1 DEF GoodCall, Upf!EstablishSession, Upf!NewSession, Upf!PduSession, Upf!RoutesWith,
              Upf!CounterAdvanced, Upf!Put, Upf!TypeOK
<1>2. CASE call.op = "release" /\ Upf!ReleaseSession(call.session)
  BY <1>2 DEF Upf!ReleaseSession, Upf!RoutesWithout, Upf!Erase, Upf!Restrict, Upf!TypeOK
<1>3. CASE UNCHANGED upfVars
  BY <1>3 DEF upfVars, Upf!TypeOK
<1> QED
  BY <1>1, <1>2, <1>3 DEF UpfRuns

LEMMA PendingIsGood ==
  ASSUME TypedInv, NEW h \in Handlers, Pending(h)
  PROVE  GoodCall(n4Call[h])
  BY DEF TypedInv, CallsGood, Pending

(* A call given up gets a number no stray has had.                         *)
LEMMA FreshNumber ==
  ASSUME NEW k \in Nat, NEW S, S \subseteq 1 .. k
  PROVE  /\ k + 1 \in Nat
         /\ k + 1 \notin S
         /\ S \cup {k + 1} \subseteq 1 .. k + 1
  OBVIOUS

LEMMA StrayWithTyped ==
  ASSUME TypedInv, NEW call, GoodCall(call), NEW k, k = n4Breaks + amfRestarts,
         stray' = StrayWith(call)
  PROVE  /\ DOMAIN stray' \subseteq 1 .. k + 1
         /\ \A n \in DOMAIN stray' : GoodCall(stray'[n])
<1>1. k \in Nat /\ DOMAIN stray \subseteq 1 .. k
  BY DEF TypedInv, FaultsTyped
<1>2. stray' = Put(stray, k + 1, call)
  BY DEF StrayWith
<1>3. DOMAIN stray' = DOMAIN stray \cup {k + 1}
  BY <1>2 DEF Put
<1>4. DOMAIN stray' \subseteq 1 .. k + 1
  BY <1>1, <1>3, FreshNumber
<1>5. ASSUME NEW n \in DOMAIN stray' PROVE GoodCall(stray'[n])
  <2>1. CASE n = k + 1
    <3>1. stray'[n] = call
      BY <1>2, <2>1 DEF Put
    <3> QED
      BY <3>1
  <2>2. CASE n # k + 1
    <3>1. n \in DOMAIN stray /\ stray'[n] = stray[n]
      BY <1>2, <2>2 DEF Put
    <3>2. GoodCall(stray[n])
      BY <3>1 DEF TypedInv, FaultsTyped
    <3> QED
      BY <3>1, <3>2
  <2> QED
    BY <2>1, <2>2
<1> QED
  BY <1>4, <1>5

LEMMA ChannelTyped ==
  ASSUME TypedInv, NEW h \in Handlers, UpfExecutes(h) \/ N4Breaks(h)
  PROVE  TypedInv'
<1>1. PICK reply \in N4Reply : N4Answers(h, reply)
  <2>1. n4Call[h] \in N4Call
    BY DEF TypedInv, IInv, TypeOK
  <2>2. Failed \in N4Reply
    BY DEF Failed, N4Reply
  <2> QED
    BY <2>1, <2>2, AnswerTyped DEF UpfExecutes, N4Breaks
<1>2. IInv'
  BY <1>1, AnswersInvariant DEF TypedInv
<1>3. CallsGood'
  BY <1>1 DEF N4Answers, TypedInv, CallsGood
<1>4. GoodCall(n4Call[h])
  BY <1>1, PendingIsGood DEF N4Answers
<1>5. CASE UpfExecutes(h)
  <2>1. Upf!TypeOK'
    BY <1>4, <1>5, UpfRunsTyped DEF UpfExecutes, TypedInv
  <2> QED
    BY <1>2, <1>3, <1>5, <2>1 DEF UpfExecutes, faultVars, TypedInv, FaultsTyped
<1>6. CASE N4Breaks(h)
  <2>1. PICK k : k = n4Breaks + amfRestarts
    OBVIOUS
  <2>2. DOMAIN stray' \subseteq 1 .. k + 1 /\ \A n \in DOMAIN stray' : GoodCall(stray'[n])
    BY <1>4, <1>6, <2>1, StrayWithTyped DEF N4Breaks
  <2>3. n4Breaks' + amfRestarts' = k + 1 /\ n4Breaks' \in Nat
    BY <1>6, <2>1 DEF N4Breaks, TypedInv, FaultsTyped
  <2>4. FaultsTyped'
    BY <1>6, <2>2, <2>3 DEF N4Breaks, TypedInv, FaultsTyped
  <2> QED
    BY <1>2, <1>3, <1>6, <2>4 DEF N4Breaks, upfVars, TypedInv, Upf!TypeOK
<1> QED
  BY <1>5, <1>6

LEMMA StrayTyped ==
  ASSUME TypedInv, NEW n \in DOMAIN stray, StrayExecutes(n) \/ StrayIsLost(n)
  PROVE  TypedInv'
<1>1. UNCHANGED vars /\ stray' = Erase(stray, n) /\ UNCHANGED <<n4Breaks, amfRestarts, upfRestarts>>
  BY DEF StrayExecutes, StrayIsLost
<1>2. IInv'
  BY <1>1, StutterInvariant DEF TypedInv
<1>3. CallsGood' /\ FaultsTyped'
  BY <1>1 DEF vars, handlerVars, Erase, Restrict, TypedInv, CallsGood, FaultsTyped
<1>4. Upf!TypeOK'
  <2>1. GoodCall(stray[n])
    BY DEF TypedInv, FaultsTyped
  <2>2. CASE StrayExecutes(n)
    BY <2>1, <2>2, UpfRunsTyped DEF StrayExecutes, TypedInv
  <2>3. CASE StrayIsLost(n)
    BY <2>3 DEF StrayIsLost, upfVars, TypedInv, Upf!TypeOK
  <2> QED
    BY <2>2, <2>3
<1> QED
  BY <1>2, <1>3, <1>4 DEF TypedInv

LEMMA AmfRestartTyped ==
  ASSUME TypedInv, AmfRestart
  PROVE  TypedInv'
<1>1. IInv'
  BY RestartInvariant DEF AmfRestart
<1>2. CallsGood'
  BY DEF AmfRestart, Restart, NoCall, CallsGood
<1>3. Upf!TypeOK'
  BY DEF AmfRestart, upfVars, TypedInv, Upf!TypeOK
<1>4. FaultsTyped'
  <2>1. PICK k : k = n4Breaks + amfRestarts
    OBVIOUS
  <2>2. n4Breaks' + amfRestarts' = k + 1 /\ n4Breaks' \in Nat /\ amfRestarts' \in Nat
    BY <2>1 DEF AmfRestart, TypedInv, FaultsTyped
  <2>3. DOMAIN stray' \subseteq 1 .. k + 1 /\ \A n \in DOMAIN stray' : GoodCall(stray'[n])
    <3>1. CASE \E h \in Handlers : Pending(h)
      <4>1. PICK h \in Handlers : Pending(h) /\ stray' = StrayWith(n4Call[h])
        BY <3>1 DEF AmfRestart
      <4>2. GoodCall(n4Call[h])
        BY <4>1, PendingIsGood
      <4> QED
        BY <2>1, <4>1, <4>2, StrayWithTyped
    <3>2. CASE ~ \E h \in Handlers : Pending(h)
      <4>1. stray' = stray
        BY <3>2 DEF AmfRestart
      <4>2. k \in Nat /\ DOMAIN stray \subseteq 1 .. k /\ \A n \in DOMAIN stray : GoodCall(stray[n])
        BY <2>1 DEF TypedInv, FaultsTyped
      <4>3. 1 .. k \subseteq 1 .. k + 1
        BY <4>2
      <4> QED
        BY <4>1, <4>2, <4>3
    <3> QED
      BY <3>1, <3>2
  <2> QED
    BY <2>2, <2>3 DEF AmfRestart, TypedInv, FaultsTyped
<1> QED
  BY <1>1, <1>2, <1>3, <1>4 DEF TypedInv

LEMMA UpfRestartTyped ==
  ASSUME TypedInv, UpfRestart
  PROVE  TypedInv'
<1>1. n4Reply' \in [Handlers -> N4Reply]
  BY DEF UpfRestart, Failed, N4Reply, TypedInv, IInv, TypeOK
<1>2. IInv'
  BY <1>1 DEF UpfRestart, TypedInv, IInv, TypeOK, MutexDiscipline, Awaiting, RegistersSomebody,
              CallsMatch, IdsIssued, InitialRegistersNewUe, IteratorStaysValid, NgapIdsUnique
<1>3. Upf!TypeOK'
  BY DEF UpfRestart, Upf!Restart, Upf!EmptyMap, Upf!TypeOK
<1>4. CallsGood' /\ FaultsTyped'
  BY DEF UpfRestart, EmptyMap, TypedInv, CallsGood, FaultsTyped
<1> QED
  BY <1>2, <1>3, <1>4 DEF TypedInv

LEMMA CoreInitTyped == CoreInit => TypedInv
<1> SUFFICES ASSUME CoreInit PROVE TypedInv
  OBVIOUS
<1>1. IInv
  BY InitInvariant DEF CoreInit
<1>2. Upf!TypeOK
  BY DEF CoreInit, Upf!Init, Upf!EmptyMap, Upf!TypeOK
<1>3. CallsGood /\ FaultsTyped
  BY DEF CoreInit, Init, NoCall, EmptyMap, CallsGood, FaultsTyped
<1> QED
  BY <1>1, <1>2, <1>3 DEF TypedInv

LEMMA CoreNextTyped == TypedInv /\ [CoreNext]_coreVars => TypedInv'
<1> SUFFICES ASSUME TypedInv, [CoreNext]_coreVars PROVE TypedInv'
  OBVIOUS
<1>1. CASE UNCHANGED coreVars
  <2>1. UNCHANGED vars /\ UNCHANGED upfVars /\ UNCHANGED faultVars
    BY <1>1 DEF coreVars
  <2>2. IInv'
    BY <2>1, StutterInvariant DEF TypedInv
  <2> QED
    BY <2>1, <2>2 DEF vars, handlerVars, upfVars, faultVars, TypedInv, Upf!TypeOK, CallsGood, FaultsTyped
<1> QED
  BY <1>1, AmfStepTyped, ChannelTyped, StrayTyped, AmfRestartTyped, UpfRestartTyped DEF CoreNext

(* The whole network is well typed: every session id is one the UPF has    *)
(* issued since its start, every address one of the pool.                  *)
THEOREM CoreTypeCorrect == CoreSpec => []CoreTypeOK
<1>1. TypedInv => CoreTypeOK
  BY DEF TypedInv, IInv, FaultsTyped, GoodCall, CoreTypeOK
<1> QED
  BY <1>1, CoreInitTyped, CoreNextTyped, PTL DEF CoreSpec

(***************************************************************************)
(* The parts in the whole: what the composition does to the table of the   *)
(* UPF and to the contexts of the AMF is what UpfSessions and UeRegistry   *)
(* allow, with broken calls, late executions and restarts on both sides.   *)
(***************************************************************************)
LEMMA UpfRunsAllowed ==
  ASSUME NEW call, GoodCall(call), UpfRuns(call)
  PROVE  [Upf!Next]_Upf!vars
<1>1. CASE call.op = "establish" /\ Upf!EstablishSession(call.supi, call.ueIp, DefaultQos)
  <2>1. call.supi \in Supis /\ call.ueIp \in 1 .. AddressPool
    BY <1>1 DEF GoodCall
  <2> QED
    BY <1>1, <2>1 DEF Upf!Next
<1>2. CASE call.op = "release" /\ Upf!ReleaseSession(call.session)
  BY <1>2 DEF Upf!ReleaseSession, Upf!Next
<1>3. CASE UNCHANGED upfVars
  BY <1>3 DEF upfVars, Upf!vars
<1> QED
  BY <1>1, <1>2, <1>3 DEF UpfRuns

LEMMA CoreStepOfUpf ==
  ASSUME TypedInv, [CoreNext]_coreVars
  PROVE  [Upf!Next]_Upf!vars
<1>1. ASSUME NEW h \in Handlers, UpfExecutes(h)
      PROVE  [Upf!Next]_Upf!vars
  BY <1>1, PendingIsGood, UpfRunsAllowed DEF UpfExecutes, N4Answers
<1>2. ASSUME NEW n \in DOMAIN stray, StrayExecutes(n)
      PROVE  [Upf!Next]_Upf!vars
  BY <1>2, UpfRunsAllowed DEF StrayExecutes, TypedInv, FaultsTyped
<1>3. CASE UpfRestart
  BY <1>3 DEF UpfRestart, Upf!Next
<1>4. CASE UNCHANGED upfVars
  BY <1>4 DEF upfVars, Upf!vars
<1> QED
  BY <1>1, <1>2, <1>3, <1>4
     DEF CoreNext, RequestArrives, HandlerMoves, N4Breaks, StrayIsLost, AmfRestart, coreVars

(* The AMF, its broken calls and its restarts use the table of the UPF     *)
(* only as UpfSessions allows, so that what is proved of that is true in   *)
(* the deployment.                                                         *)
THEOREM CoreUsesUpfSessions == CoreSpec => Upf!Spec
<1>1. CoreInit => Upf!Init
  BY DEF CoreInit
<1>2. TypedInv /\ [CoreNext]_coreVars => [Upf!Next]_Upf!vars
  BY CoreStepOfUpf
<1> QED
  BY <1>1, <1>2, CoreInitTyped, CoreNextTyped, PTL DEF CoreSpec, Upf!Spec

LEMMA CoreStepOfRegistry ==
  ASSUME TypedInv, [CoreNext]_coreVars
  PROVE  [Registry!Next]_(Registry!vars)
<1>1. CASE [Next]_vars
  BY <1>1, RegistryStep DEF TypedInv
<1>2. CASE UNCHANGED <<ueContexts, regCount>>
  BY <1>2 DEF Registry!vars
<1>3. (\E h \in Handlers : RequestArrives(h) \/ HandlerMoves(h)) \/ AmfRestart => [Next]_vars
  BY DEF RequestArrives, HandlerMoves, AmfRestart, Next
<1>4. (\E h \in Handlers : UpfExecutes(h) \/ N4Breaks(h)) => UNCHANGED <<ueContexts, regCount>>
  BY DEF UpfExecutes, N4Breaks, N4Answers, contextVars
<1>5. /\ (\E n \in DOMAIN stray : StrayExecutes(n) \/ StrayIsLost(n)) \/ UNCHANGED coreVars
           => UNCHANGED vars
      /\ UpfRestart => UNCHANGED <<ueContexts, regCount>>
  BY DEF StrayExecutes, StrayIsLost, UpfRestart, coreVars
<1> QED
  BY <1>1, <1>2, <1>3, <1>4, <1>5 DEF CoreNext

(* With the UPF and the channel in place of an environment that answers    *)
(* anything, the AMF implements the registry, and its checks before an N4  *)
(* call are good after it, however that call ends.                         *)
THEOREM CoreKeepsAmfPromises ==
  CoreSpec => ImplementsRegistry /\ [](InitialRegistersNewUe /\ IteratorStaysValid /\ NgapIdsUnique)
<1>1. CoreInit => Registry!Init
  BY DEF CoreInit, Init, EmptyMap, Registry!Init, Registry!EmptyMap
<1>2. TypedInv /\ [CoreNext]_coreVars => [Registry!Next]_(Registry!vars)
  BY CoreStepOfRegistry
<1>3. TypedInv => InitialRegistersNewUe /\ IteratorStaysValid /\ NgapIdsUnique
  BY DEF TypedInv, IInv
<1> QED
  BY <1>1, <1>2, <1>3, CoreInitTyped, CoreNextTyped, PTL
     DEF CoreSpec, ImplementsRegistry, Registry!Spec

(***************************************************************************)
(* Backing, until the UPF restarts.                                        *)
(*                                                                         *)
(* That contexts are backed is not inductive alone.  A late release must   *)
(* not name a session a context names (unless that context is just being   *)
(* erased), and the id in an answer on its way to the AMF must be named by *)
(* nothing yet.  Both rest on the ids of a UPF that has not restarted      *)
(* being all different.                                                    *)
(***************************************************************************)
QuietWhenNotWaiting == \A h \in Handlers : ~ Awaiting(h) => n4Reply[h] = NoReply

(* Every id a context names has been issued, and no two name one.          *)
ContextsNameIssued ==
  /\ \A s \in DOMAIN ueContexts : ueContexts[s].session < sessionIdCounter
  /\ \A s, t \in DOMAIN ueContexts : s # t => ueContexts[s].session # ueContexts[t].session

(* An id answered and not stored yet: live, this UE's, and named by        *)
(* nothing else.                                                           *)
AnswerIsFresh(h) ==
  /\ n4Reply[h].session \in DOMAIN sessions
  /\ sessions[n4Reply[h].session].supi = req[h].supi
  /\ \A s \in DOMAIN ueContexts : ueContexts[s].session # n4Reply[h].session
  /\ \A n \in DOMAIN stray : stray[n].op = "release" => stray[n].session # n4Reply[h].session

AnswersAreFresh ==
  \A h \in Handlers : pc[h] = "awaitEstablish" /\ n4Reply[h].status = "ok" => AnswerIsFresh(h)

(* A release, when it is executed, takes the session of the UE it is for,  *)
(* which no context still counts on.                                       *)
IssuedAndOwn(call) ==
  /\ call.session < sessionIdCounter
  /\ call.session \in DOMAIN sessions => sessions[call.session].supi = call.supi

LateReleasesHarmless ==
  \A n \in DOMAIN stray :
    stray[n].op = "release" =>
      /\ IssuedAndOwn(stray[n])
      /\ \A s \in DOMAIN ueContexts : ueContexts[s].session = stray[n].session => ReleaseReplied(s)

AllBacked == \A s \in DOMAIN ueContexts : ReleaseReplied(s) \/ Backed(s)

Backing ==
  /\ QuietWhenNotWaiting
  /\ ContextsNameIssued
  /\ AnswersAreFresh
  /\ LateReleasesHarmless
  /\ AllBacked

BackingInv == TypedInv /\ QuietWhenNotWaiting /\ (upfRestarts = 0 => Backing)

LEMMA ArrivesBacking ==
  ASSUME TypedInv, Backing, NEW h \in Handlers, RequestArrives(h)
  PROVE  Backing'
<1>1. PICK label \in {"register", "deregister"}, supi \in Supis, type \in RegTypes :
        Arrives(h, label, supi, type)
  BY AmfAssumption DEF RequestArrives, RegisterArrives, DeregisterArrives
<1>2. UNCHANGED <<upfVars, faultVars>>
  BY DEF RequestArrives
<1>3. \A s : ReleaseReplied(s) => ReleaseReplied(s)'
  BY <1>1 DEF Arrives, ReleaseReplied, TypedInv, IInv, TypeOK
<1>4. QuietWhenNotWaiting'
  BY <1>1 DEF Arrives, Awaiting, Backing, QuietWhenNotWaiting, TypedInv, IInv, TypeOK
<1>5. ContextsNameIssued'
  BY <1>1, <1>2 DEF Arrives, contextVars, upfVars, Backing, ContextsNameIssued
<1>6. AnswersAreFresh'
  BY <1>1, <1>2 DEF Arrives, contextVars, upfVars, faultVars, Backing, AnswersAreFresh, AnswerIsFresh,
                    TypedInv, IInv, TypeOK
<1>7. LateReleasesHarmless'
  BY <1>1, <1>2, <1>3 DEF Arrives, contextVars, upfVars, faultVars, Backing, LateReleasesHarmless, IssuedAndOwn
<1>8. AllBacked'
  BY <1>1, <1>2, <1>3 DEF Arrives, contextVars, upfVars, Backing, AllBacked, Backed
<1> QED
  BY <1>4, <1>5, <1>6, <1>7, <1>8 DEF Backing

(* A handler that refuses its request changes no context and is not one a  *)
(* context's release waits in.                                             *)
LEMMA RefusedBacking ==
  ASSUME TypedInv, Backing, NEW h \in Handlers, UNCHANGED <<upfVars, faultVars>>,
         RegisterDuplicate(h) \/ RegisterFailed(h) \/ DeregisterUnknown(h)
  PROVE  Backing'
<1>1. Returns(h) /\ UNCHANGED contextVars /\ pc[h] # "awaitRelease"
  BY DEF RegisterDuplicate, RegisterFailed, DeregisterUnknown
<1>3. \A s : ReleaseReplied(s) => ReleaseReplied(s)'
  BY <1>1 DEF Returns, ReleaseReplied, TypedInv, IInv, TypeOK
<1>4. QuietWhenNotWaiting'
  BY <1>1 DEF Returns, Awaiting, Backing, QuietWhenNotWaiting, TypedInv, IInv, TypeOK
<1>5. ContextsNameIssued'
  BY <1>1 DEF contextVars, upfVars, Backing, ContextsNameIssued
<1>6. AnswersAreFresh'
  BY <1>1 DEF Returns, contextVars, upfVars, faultVars, Backing, AnswersAreFresh, AnswerIsFresh,
              TypedInv, IInv, TypeOK
<1>7. LateReleasesHarmless'
  BY <1>1, <1>3 DEF contextVars, upfVars, faultVars, Backing, LateReleasesHarmless, IssuedAndOwn
<1>8. AllBacked'
  BY <1>1, <1>3 DEF contextVars, upfVars, Backing, AllBacked, Backed
<1> QED
  BY <1>4, <1>5, <1>6, <1>7, <1>8 DEF Backing

(* A handler that makes its N4 call: the mutex was free, nobody waited.    *)
LEMMA CallsBacking ==
  ASSUME TypedInv, Backing, NEW h \in Handlers, UNCHANGED <<upfVars, faultVars>>,
         RegisterEstablish(h) \/ DeregisterRelease(h)
  PROVE  Backing'
<1>1. /\ UNCHANGED <<ueContexts, req, n4Reply>>
      /\ \A g \in Handlers : ~ Awaiting(g)
  <2>1. UNCHANGED <<ueContexts, req, n4Reply>>
    BY DEF RegisterEstablish, DeregisterRelease, contextVars
  <2>2. ctxMutex = Nobody
    BY DEF RegisterEstablish, DeregisterRelease, HeldThroughN4
  <2> QED
    BY <2>1, <2>2, AmfAssumption DEF TypedInv, IInv, MutexDiscipline
<1>2. \A g \in Handlers : n4Reply'[g] = NoReply
  BY <1>1 DEF Backing, QuietWhenNotWaiting
<1>3. \A s : ~ ReleaseReplied(s)
  BY <1>1 DEF ReleaseReplied, Awaiting
<1>4. QuietWhenNotWaiting'
  BY <1>2 DEF QuietWhenNotWaiting
<1>5. ContextsNameIssued'
  BY <1>1 DEF upfVars, Backing, ContextsNameIssued
<1>6. AnswersAreFresh'
  BY <1>2 DEF NoReply, AnswersAreFresh
<1>7. LateReleasesHarmless'
  BY <1>1, <1>3 DEF upfVars, faultVars, Backing, LateReleasesHarmless, IssuedAndOwn
<1>8. AllBacked'
  BY <1>1, <1>3 DEF upfVars, Backing, AllBacked, Backed
<1> QED
  BY <1>4, <1>5, <1>6, <1>7, <1>8 DEF Backing

(* The new context names the session just answered.                        *)
LEMMA StoreBacking ==
  ASSUME TypedInv, Backing, NEW h \in Handlers, UNCHANGED <<upfVars, faultVars>>, RegisterStore(h)
  PROVE  Backing'
<1>1. PICK supi \in Supis : supi = req[h].supi
  BY DEF RegisterStore, TypedInv, IInv, RegistersSomebody
<1>2. PICK id \in Nat : id = n4Reply[h].session
  BY DEF TypedInv, IInv, TypeOK, N4Reply
<1>3. /\ id \in DOMAIN sessions
      /\ sessions[id].supi = supi
      /\ \A s \in DOMAIN ueContexts : ueContexts[s].session # id
      /\ \A n \in DOMAIN stray : stray[n].op = "release" => stray[n].session # id
  BY <1>1, <1>2 DEF RegisterStore, Backing, AnswersAreFresh, AnswerIsFresh
<1>4. /\ DOMAIN ueContexts' = DOMAIN ueContexts \cup {supi}
      /\ ueContexts'[supi].session = id
      /\ \A s \in DOMAIN ueContexts : s # supi => ueContexts'[s] = ueContexts[s]
  BY <1>1, <1>2 DEF RegisterStore, NewContext, Put
<1>5. Returns(h) /\ pc[h] # "awaitRelease"
  BY DEF RegisterStore
<1>6. \A s : ReleaseReplied(s) => ReleaseReplied(s)'
  BY <1>5 DEF Returns, ReleaseReplied, TypedInv, IInv, TypeOK
<1>7. id < sessionIdCounter
  BY <1>3 DEF TypedInv, Upf!TypeOK
<1>8. QuietWhenNotWaiting'
  BY <1>5 DEF Returns, Awaiting, Backing, QuietWhenNotWaiting, TypedInv, IInv, TypeOK
<1>9. ContextsNameIssued'
  BY <1>3, <1>4, <1>7 DEF upfVars, Backing, ContextsNameIssued
<1>10. AnswersAreFresh'
  <2>1. \A g \in Handlers : pc'[g] # "awaitEstablish"
    BY <1>5 DEF RegisterStore, Returns, Awaiting, TypedInv, IInv, TypeOK, MutexDiscipline
  <2> QED
    BY <2>1 DEF AnswersAreFresh
<1>11. LateReleasesHarmless'
  BY <1>3, <1>4, <1>6 DEF upfVars, faultVars, Backing, LateReleasesHarmless, IssuedAndOwn
<1>12. AllBacked'
  BY <1>3, <1>4, <1>6 DEF upfVars, Backing, AllBacked, Backed
<1> QED
  BY <1>8, <1>9, <1>10, <1>11, <1>12 DEF Backing

(* The context goes with the session its own release took.                 *)
LEMMA EraseBacking ==
  ASSUME TypedInv, Backing, NEW h \in Handlers, UNCHANGED <<upfVars, faultVars>>, DeregisterErase(h)
  PROVE  Backing'
<1>1. Returns(h) /\ pc[h] = "awaitRelease"
  BY DEF DeregisterErase
<1>2. /\ DOMAIN ueContexts' = DOMAIN ueContexts \ {req[h].supi}
      /\ \A s \in DOMAIN ueContexts' : ueContexts'[s] = ueContexts[s]
  BY DEF DeregisterErase, Erase, Restrict
<1>3. \A s \in DOMAIN ueContexts' : ReleaseReplied(s) => ReleaseReplied(s)'
  BY <1>1, <1>2 DEF Returns, ReleaseReplied, TypedInv, IInv, TypeOK
<1>4. QuietWhenNotWaiting'
  BY <1>1 DEF Returns, Awaiting, Backing, QuietWhenNotWaiting, TypedInv, IInv, TypeOK
<1>5. ContextsNameIssued'
  BY <1>2 DEF upfVars, Backing, ContextsNameIssued
<1>6. AnswersAreFresh'
  <2>1. \A g \in Handlers : pc'[g] # "awaitEstablish"
    BY <1>1 DEF Returns, Awaiting, TypedInv, IInv, TypeOK, MutexDiscipline
  <2> QED
    BY <2>1 DEF AnswersAreFresh
<1>7. LateReleasesHarmless'
  BY <1>2, <1>3 DEF upfVars, faultVars, Backing, LateReleasesHarmless, IssuedAndOwn
<1>8. AllBacked'
  BY <1>2, <1>3 DEF upfVars, Backing, AllBacked, Backed
<1> QED
  BY <1>4, <1>5, <1>6, <1>7, <1>8 DEF Backing

LEMMA HandlerMovesBacking ==
  ASSUME TypedInv, Backing, NEW h \in Handlers, HandlerMoves(h)
  PROVE  Backing'
  BY RefusedBacking, CallsBacking, StoreBacking, EraseBacking DEF HandlerMoves, HandlerStep

(* The handler that waits is alone: the other handlers wait for nothing.   *)
LEMMA OneWaits ==
  ASSUME TypedInv, NEW h \in Handlers, Pending(h)
  PROVE  /\ Awaiting(h)
         /\ n4Call[h].supi = req[h].supi
         /\ n4Call[h].op = IF pc[h] = "awaitEstablish" THEN "establish" ELSE "release"
         /\ \A g \in Handlers : Awaiting(g) => g = h
         /\ \A s : ~ ReleaseReplied(s)
<1>1. Awaiting(h)
  BY DEF Pending, NoCall, TypedInv, IInv, CallsMatch
<1>2. \A g \in Handlers : Awaiting(g) => g = h
  BY <1>1 DEF TypedInv, IInv, MutexDiscipline
<1>3. \A s : ~ ReleaseReplied(s)
  BY <1>2 DEF ReleaseReplied, Awaiting, Pending, NoReply
<1> QED
  BY <1>1, <1>2, <1>3 DEF Awaiting, TypedInv, IInv, CallsMatch

(* What a release under way names: the session of its UE's context, which  *)
(* is that UE's and no other context's.                                    *)
LEMMA PendingRelease ==
  ASSUME TypedInv, Backing, NEW h \in Handlers, Pending(h), n4Call[h].op = "release"
  PROVE  /\ req[h].supi \in DOMAIN ueContexts
         /\ IssuedAndOwn(n4Call[h])
         /\ n4Call[h].session \in DOMAIN sessions
         /\ \A s \in DOMAIN ueContexts : ueContexts[s].session = n4Call[h].session => s = req[h].supi
<1>1. PICK supi \in Supis \cup {Empty} : supi = req[h].supi
  BY DEF TypedInv, IInv, TypeOK, Request
<1>2. pc[h] = "awaitRelease" /\ n4Call[h].supi = supi /\ ~ ReleaseReplied(supi)
  BY <1>1, OneWaits DEF Awaiting
<1>3. supi \in DOMAIN ueContexts /\ ueContexts[supi].session = n4Call[h].session
  BY <1>1, <1>2 DEF TypedInv, IInv, IteratorStaysValid
<1>4. Backed(supi)
  BY <1>2, <1>3 DEF Backing, AllBacked
<1> QED
  BY <1>1, <1>2, <1>3, <1>4 DEF Backed, Backing, ContextsNameIssued, IssuedAndOwn

(* What the UPF does for an establishment: one more session, under an id   *)
(* greater than all before; nothing else named before changes.             *)
LEMMA UpfEstablishes ==
  ASSUME TypedInv, NEW call, GoodCall(call), call.op = "establish", UpfRuns(call),
         NEW id, id = sessionIdCounter
  PROVE  /\ id \in Nat
         /\ sessionIdCounter' = id + 1
         /\ id \notin DOMAIN sessions
         /\ DOMAIN sessions' = DOMAIN sessions \cup {id}
         /\ sessions'[id].supi = call.supi
         /\ \A i \in DOMAIN sessions : sessions'[i] = sessions[i]
<1>1. id \in Nat /\ id \notin DOMAIN sessions
  BY DEF TypedInv, Upf!TypeOK
<1>2. Upf!EstablishSession(call.supi, call.ueIp, DefaultQos)
  BY DEF UpfRuns
<1> QED
  BY <1>1, <1>2 DEF Upf!EstablishSession, Upf!NewSession, Upf!CounterAdvanced, Upf!Put

(* And for a release: the session it names goes, if it is there.           *)
LEMMA UpfReleases ==
  ASSUME NEW call, call.op = "release", UpfRuns(call)
  PROVE  /\ sessionIdCounter' = sessionIdCounter
         /\ DOMAIN sessions' = DOMAIN sessions \ {call.session}
         /\ \A i \in DOMAIN sessions' : sessions'[i] = sessions[i]
  BY DEF UpfRuns, upfVars, Upf!ReleaseSession, Upf!Erase, Upf!Restrict

LEMMA AnsweredEstablishBacking ==
  ASSUME TypedInv, Backing, NEW h \in Handlers, UpfExecutes(h), n4Call[h].op = "establish"
  PROVE  Backing'
<1>1. N4Answers(h, Answer(n4Call[h])) /\ UpfRuns(n4Call[h]) /\ UNCHANGED faultVars /\ Pending(h)
  BY DEF UpfExecutes, N4Answers
<1>2. PICK supi \in Supis : supi = n4Call[h].supi /\ supi = req[h].supi /\ GoodCall(n4Call[h])
  BY <1>1, PendingIsGood, OneWaits DEF GoodCall
<1>3. PICK id \in Nat : id = sessionIdCounter
  BY DEF TypedInv, Upf!TypeOK
<1>4. /\ sessionIdCounter' = id + 1
      /\ id \notin DOMAIN sessions
      /\ DOMAIN sessions' = DOMAIN sessions \cup {id}
      /\ sessions'[id].supi = supi
      /\ \A i \in DOMAIN sessions : sessions'[i] = sessions[i]
  BY <1>1, <1>2, <1>3, UpfEstablishes
<1>5. n4Reply' = [n4Reply EXCEPT ![h] = Ok(id)]
  BY <1>1, <1>3 DEF N4Answers, Answer
<1>6. Awaiting(h) /\ pc[h] = "awaitEstablish" /\ (\A g \in Handlers : Awaiting(g) => g = h)
      /\ \A s : ~ ReleaseReplied(s)
  BY <1>1, OneWaits DEF Awaiting
<1>7. UNCHANGED <<ueContexts, pc, req, n4Call, stray>>
  BY <1>1 DEF N4Answers, contextVars, faultVars
<1>8. QuietWhenNotWaiting'
  BY <1>5, <1>6, <1>7 DEF Awaiting, Backing, QuietWhenNotWaiting, TypedInv, IInv, TypeOK
<1>9. ContextsNameIssued'
  BY <1>3, <1>4, <1>7 DEF Backing, ContextsNameIssued, TypedInv, IInv, TypeOK, UEContext
<1>10. AnswersAreFresh'
  <2>1. n4Reply'[h].session = id
    BY <1>5 DEF Ok, TypedInv, IInv, TypeOK
  <2>2. \A s \in DOMAIN ueContexts : ueContexts[s].session # id
    BY <1>3 DEF Backing, ContextsNameIssued, TypedInv, IInv, TypeOK, UEContext
  <2>3. \A n \in DOMAIN stray : stray[n].op = "release" => stray[n].session # id
    BY <1>3 DEF Backing, LateReleasesHarmless, IssuedAndOwn, TypedInv, FaultsTyped, GoodCall, N4Call
  <2>4. AnswerIsFresh(h)'
    BY <1>2, <1>4, <1>7, <2>1, <2>2, <2>3 DEF AnswerIsFresh
  <2>5. \A g \in Handlers : pc'[g] = "awaitEstablish" => g = h
    BY <1>6, <1>7 DEF Awaiting
  <2> QED
    BY <2>4, <2>5 DEF AnswersAreFresh
<1>11. LateReleasesHarmless'
  BY <1>3, <1>4, <1>6, <1>7
     DEF Backing, LateReleasesHarmless, IssuedAndOwn, TypedInv, FaultsTyped, GoodCall, N4Call
<1>12. AllBacked'
  BY <1>4, <1>6, <1>7 DEF Backing, AllBacked, Backed
<1> QED
  BY <1>8, <1>9, <1>10, <1>11, <1>12 DEF Backing

(* The release takes the session of the context its own Deregister erases. *)
LEMMA AnsweredReleaseBacking ==
  ASSUME TypedInv, Backing, NEW h \in Handlers, UpfExecutes(h), n4Call[h].op = "release"
  PROVE  Backing'
<1>1. N4Answers(h, Answer(n4Call[h])) /\ UpfRuns(n4Call[h]) /\ UNCHANGED faultVars /\ Pending(h)
  BY DEF UpfExecutes, N4Answers
<1>2. PICK supi \in Supis \cup {Empty} : supi = req[h].supi
  BY DEF TypedInv, IInv, TypeOK, Request
<1>3. PICK gone \in Nat : gone = n4Call[h].session
  BY DEF TypedInv, IInv, TypeOK, N4Call
<1>4. /\ sessionIdCounter' = sessionIdCounter
      /\ DOMAIN sessions' = DOMAIN sessions \ {gone}
      /\ \A i \in DOMAIN sessions' : sessions'[i] = sessions[i]
  BY <1>1, <1>3, UpfReleases
<1>5. pc[h] = "awaitRelease" /\ (\A g \in Handlers : Awaiting(g) => g = h) /\ \A s : ~ ReleaseReplied(s)
  BY <1>1, OneWaits DEF Awaiting
<1>6. UNCHANGED <<ueContexts, pc, req, n4Call, stray>>
  BY <1>1 DEF N4Answers, contextVars, faultVars
<1>7. n4Reply'[h].status # "none" /\ \A g \in Handlers : g # h => n4Reply'[g] = n4Reply[g]
  BY <1>1 DEF N4Answers, Answer, Ok, Failed, TypedInv, IInv, TypeOK
<1>8. ReleaseReplied(supi)'
  BY <1>2, <1>5, <1>6, <1>7 DEF ReleaseReplied
<1>9. \A s \in DOMAIN ueContexts : ueContexts[s].session = gone => s = supi
  BY <1>1, <1>2, <1>3, PendingRelease
<1>10. QuietWhenNotWaiting'
  BY <1>5, <1>6, <1>7 DEF Awaiting, Backing, QuietWhenNotWaiting
<1>11. ContextsNameIssued'
  BY <1>4, <1>6 DEF Backing, ContextsNameIssued
<1>12. AnswersAreFresh'
  <2>1. \A g \in Handlers : pc'[g] # "awaitEstablish"
    BY <1>5, <1>6 DEF Awaiting
  <2> QED
    BY <2>1 DEF AnswersAreFresh
<1>13. LateReleasesHarmless'
  BY <1>4, <1>5, <1>6 DEF Backing, LateReleasesHarmless, IssuedAndOwn
<1>14. AllBacked'
  BY <1>4, <1>5, <1>6, <1>8, <1>9 DEF Backing, AllBacked, Backed
<1> QED
  BY <1>10, <1>11, <1>12, <1>13, <1>14 DEF Backing

(* A pending call that joins the strays is as harmless as they are.        *)
LEMMA StrayWithContents ==
  ASSUME NEW call, stray' = StrayWith(call)
  PROVE  \A n \in DOMAIN stray' : stray'[n] = call \/ (n \in DOMAIN stray /\ stray'[n] = stray[n])
  BY DEF StrayWith, Put

LEMMA BreaksBacking ==
  ASSUME TypedInv, Backing, NEW h \in Handlers, N4Breaks(h)
  PROVE  Backing'
<1>1. N4Answers(h, Failed) /\ stray' = StrayWith(n4Call[h]) /\ UNCHANGED upfVars /\ Pending(h)
  BY DEF N4Breaks, N4Answers
<1>2. PICK supi \in Supis \cup {Empty} : supi = req[h].supi
  BY DEF TypedInv, IInv, TypeOK, Request
<1>3. PICK call \in N4Call : call = n4Call[h]
  BY DEF TypedInv, IInv, TypeOK
<1>4. \A n \in DOMAIN stray' : stray'[n] = call \/ (n \in DOMAIN stray /\ stray'[n] = stray[n])
  BY <1>1, <1>3, StrayWithContents
<1>5. /\ Awaiting(h)
      /\ call.op = "release" => pc[h] = "awaitRelease"
      /\ \A g \in Handlers : Awaiting(g) => g = h
      /\ \A s : ~ ReleaseReplied(s)
  BY <1>1, <1>3, OneWaits DEF Awaiting
<1>6. UNCHANGED <<ueContexts, pc, req>> /\ UNCHANGED <<sessions, sessionIdCounter>>
  BY <1>1 DEF N4Answers, contextVars, upfVars
<1>7. n4Reply'[h].status = "failed" /\ \A g \in Handlers : g # h => n4Reply'[g] = n4Reply[g]
  BY <1>1 DEF N4Answers, Failed, TypedInv, IInv, TypeOK
<1>8. QuietWhenNotWaiting'
  BY <1>5, <1>6, <1>7 DEF Awaiting, Backing, QuietWhenNotWaiting
<1>9. ContextsNameIssued'
  BY <1>6 DEF Backing, ContextsNameIssued
<1>10. AnswersAreFresh'
  BY <1>5, <1>6, <1>7 DEF Awaiting, AnswersAreFresh
<1>11. LateReleasesHarmless'
  <2> SUFFICES ASSUME NEW n \in DOMAIN stray', stray'[n].op = "release"
               PROVE  /\ IssuedAndOwn(stray[n])'
                      /\ \A s \in DOMAIN ueContexts' :
                           ueContexts'[s].session = stray'[n].session => ReleaseReplied(s)'
    BY DEF LateReleasesHarmless
  <2>1. CASE stray'[n] = call
    <3>1. call.op = "release"
      BY <2>1
    <3>2. IssuedAndOwn(call) /\ \A s \in DOMAIN ueContexts : ueContexts[s].session = call.session => s = supi
      BY <1>1, <1>2, <1>3, <3>1, PendingRelease
    <3>3. ReleaseReplied(supi)'
      BY <1>2, <1>5, <1>6, <1>7, <3>1 DEF ReleaseReplied
    <3>4. IssuedAndOwn(stray[n])'
      BY <1>6, <2>1, <3>2 DEF IssuedAndOwn
    <3> QED
      BY <1>6, <2>1, <3>2, <3>3, <3>4
  <2>2. CASE n \in DOMAIN stray /\ stray'[n] = stray[n]
    <3>1. IssuedAndOwn(stray[n]) /\ \A s \in DOMAIN ueContexts : ueContexts[s].session # stray[n].session
      BY <1>5, <2>2 DEF Backing, LateReleasesHarmless
    <3>2. IssuedAndOwn(stray[n])'
      BY <1>6, <2>2, <3>1 DEF IssuedAndOwn
    <3> QED
      BY <1>6, <2>2, <3>1, <3>2
  <2> QED
    BY <1>4, <2>1, <2>2
<1>12. AllBacked'
  BY <1>5, <1>6 DEF Backing, AllBacked, Backed
<1> QED
  BY <1>8, <1>9, <1>10, <1>11, <1>12 DEF Backing

LEMMA StrayLostBacking ==
  ASSUME TypedInv, Backing, NEW n \in DOMAIN stray, StrayIsLost(n)
  PROVE  Backing'
<1>1. UNCHANGED vars /\ UNCHANGED upfVars
  BY DEF StrayIsLost
<1>2. DOMAIN stray' \subseteq DOMAIN stray /\ \A k \in DOMAIN stray' : stray'[k] = stray[k]
  BY DEF StrayIsLost, Erase, Restrict
<1>3. QuietWhenNotWaiting' /\ ContextsNameIssued' /\ AllBacked'
  BY <1>1 DEF vars, contextVars, handlerVars, upfVars, Backing, QuietWhenNotWaiting, Awaiting,
              ContextsNameIssued, AllBacked, Backed, ReleaseReplied
<1>4. AnswersAreFresh'
  BY <1>1, <1>2 DEF vars, contextVars, handlerVars, upfVars, Backing, AnswersAreFresh, AnswerIsFresh
<1>5. LateReleasesHarmless'
  BY <1>1, <1>2 DEF vars, contextVars, handlerVars, upfVars, Backing, LateReleasesHarmless, IssuedAndOwn,
                    ReleaseReplied
<1> QED
  BY <1>3, <1>4, <1>5 DEF Backing

LEMMA LateEstablishBacking ==
  ASSUME TypedInv, Backing, NEW n \in DOMAIN stray, StrayExecutes(n), stray[n].op = "establish"
  PROVE  Backing'
<1>1. UNCHANGED vars /\ UpfRuns(stray[n]) /\ GoodCall(stray[n])
  BY DEF StrayExecutes, TypedInv, FaultsTyped
<1>2. DOMAIN stray' \subseteq DOMAIN stray /\ \A k \in DOMAIN stray' : stray'[k] = stray[k]
  BY DEF StrayExecutes, Erase, Restrict
<1>3. PICK id \in Nat : id = sessionIdCounter
  BY DEF TypedInv, Upf!TypeOK
<1>4. PICK call : call = stray[n]
  OBVIOUS
<1>5. /\ sessionIdCounter' = id + 1
      /\ id \notin DOMAIN sessions
      /\ DOMAIN sessions' = DOMAIN sessions \cup {id}
      /\ \A i \in DOMAIN sessions : sessions'[i] = sessions[i]
  BY <1>1, <1>3, <1>4, UpfEstablishes
<1>6. UNCHANGED <<ueContexts, pc, req, n4Reply>>
  BY <1>1 DEF vars, contextVars, handlerVars
<1>7. QuietWhenNotWaiting'
  BY <1>6 DEF Backing, QuietWhenNotWaiting, Awaiting
<1>8. ContextsNameIssued'
  BY <1>3, <1>5, <1>6 DEF Backing, ContextsNameIssued, TypedInv, IInv, TypeOK, UEContext
<1>9. AnswersAreFresh'
  BY <1>2, <1>5, <1>6 DEF Backing, AnswersAreFresh, AnswerIsFresh
<1>10. LateReleasesHarmless'
  BY <1>2, <1>3, <1>5, <1>6
     DEF Backing, LateReleasesHarmless, IssuedAndOwn, ReleaseReplied, TypedInv, FaultsTyped, GoodCall, N4Call
<1>11. AllBacked'
  BY <1>5, <1>6 DEF Backing, AllBacked, Backed, ReleaseReplied
<1> QED
  BY <1>7, <1>8, <1>9, <1>10, <1>11 DEF Backing

LEMMA LateReleaseBacking ==
  ASSUME TypedInv, Backing, NEW n \in DOMAIN stray, StrayExecutes(n), stray[n].op = "release"
  PROVE  Backing'
<1>1. UNCHANGED vars /\ UpfRuns(stray[n])
  BY DEF StrayExecutes
<1>2. DOMAIN stray' \subseteq DOMAIN stray /\ \A k \in DOMAIN stray' : stray'[k] = stray[k]
  BY DEF StrayExecutes, Erase, Restrict
<1>3. PICK gone : gone = stray[n].session
  OBVIOUS
<1>4. PICK call : call = stray[n]
  OBVIOUS
<1>5. /\ sessionIdCounter' = sessionIdCounter
      /\ DOMAIN sessions' = DOMAIN sessions \ {gone}
      /\ \A i \in DOMAIN sessions' : sessions'[i] = sessions[i]
  BY <1>1, <1>3, <1>4, UpfReleases
<1>6. UNCHANGED <<ueContexts, pc, req, n4Reply>>
  BY <1>1 DEF vars, contextVars, handlerVars
<1>7. QuietWhenNotWaiting'
  BY <1>6 DEF Backing, QuietWhenNotWaiting, Awaiting
<1>8. ContextsNameIssued'
  BY <1>5, <1>6 DEF Backing, ContextsNameIssued
<1>9. AnswersAreFresh'
  BY <1>2, <1>3, <1>5, <1>6 DEF Backing, AnswersAreFresh, AnswerIsFresh
<1>10. LateReleasesHarmless'
  BY <1>2, <1>5, <1>6 DEF Backing, LateReleasesHarmless, IssuedAndOwn, ReleaseReplied
<1>11. AllBacked'
  <2>1. \A s \in DOMAIN ueContexts : ueContexts[s].session = gone => ReleaseReplied(s)
    BY <1>3 DEF Backing, LateReleasesHarmless
  <2> QED
    BY <1>5, <1>6, <2>1 DEF Backing, AllBacked, Backed, ReleaseReplied
<1> QED
  BY <1>7, <1>8, <1>9, <1>10, <1>11 DEF Backing

(* A restarted AMF names nothing; the release it was waiting for is late.  *)
LEMMA AmfRestartBacking ==
  ASSUME TypedInv, Backing, AmfRestart
  PROVE  Backing'
<1>1. /\ DOMAIN ueContexts' = {}
      /\ \A h \in Handlers : pc'[h] = "idle" /\ n4Reply'[h] = NoReply
      /\ UNCHANGED <<sessions, sessionIdCounter>>
  BY DEF AmfRestart, Restart, EmptyMap, upfVars
<1>2. QuietWhenNotWaiting' /\ ContextsNameIssued' /\ AnswersAreFresh' /\ AllBacked'
  BY <1>1 DEF QuietWhenNotWaiting, ContextsNameIssued, AnswersAreFresh, AllBacked
<1>3. LateReleasesHarmless'
  <2> SUFFICES ASSUME NEW n \in DOMAIN stray', stray'[n].op = "release"
               PROVE  IssuedAndOwn(stray[n])'
    BY <1>1 DEF LateReleasesHarmless
  <2>1. CASE \E h \in Handlers : Pending(h) /\ stray' = StrayWith(n4Call[h]) /\ stray'[n] = n4Call[h]
    <3>1. PICK h \in Handlers : Pending(h) /\ stray'[n] = n4Call[h]
      BY <2>1
    <3>2. n4Call[h].op = "release"
      BY <3>1
    <3>3. IssuedAndOwn(n4Call[h])
      BY <3>1, <3>2, PendingRelease
    <3> QED
      BY <1>1, <3>1, <3>3 DEF IssuedAndOwn
  <2>2. CASE n \in DOMAIN stray /\ stray'[n] = stray[n]
    <3>1. IssuedAndOwn(stray[n])
      BY <2>2 DEF Backing, LateReleasesHarmless
    <3> QED
      BY <1>1, <2>2, <3>1 DEF IssuedAndOwn
  <2>3. CASE \E h \in Handlers : Pending(h)
    <3>1. PICK h \in Handlers : Pending(h) /\ stray' = StrayWith(n4Call[h])
      BY <2>3 DEF AmfRestart
    <3>2. PICK call : call = n4Call[h]
      OBVIOUS
    <3>3. stray'[n] = call \/ (n \in DOMAIN stray /\ stray'[n] = stray[n])
      BY <3>1, <3>2, StrayWithContents
    <3> QED
      BY <2>1, <2>2, <3>1, <3>2, <3>3
  <2>4. CASE ~ \E h \in Handlers : Pending(h)
    BY <2>2, <2>4 DEF AmfRestart
  <2> QED
    BY <2>3, <2>4
<1> QED
  BY <1>2, <1>3 DEF Backing

(* The restart of the UPF ends the guarantee, and answers who waits.       *)
LEMMA UpfRestartQuiet ==
  ASSUME TypedInv, QuietWhenNotWaiting, UpfRestart
  PROVE  QuietWhenNotWaiting' /\ upfRestarts' # 0
<1>1. \A h \in Handlers : ~ Awaiting(h) => ~ Pending(h)
  BY DEF Pending, NoCall, TypedInv, IInv, CallsMatch
<1>2. upfRestarts' # 0
  BY DEF UpfRestart, TypedInv, FaultsTyped
<1> QED
  BY <1>1, <1>2 DEF UpfRestart, Awaiting, QuietWhenNotWaiting

(* What is left of Backing once the UPF has restarted.                     *)
LEMMA StaysQuiet ==
  ASSUME TypedInv, QuietWhenNotWaiting, [CoreNext]_coreVars
  PROVE  QuietWhenNotWaiting'
<1>1. ASSUME NEW h \in Handlers, RequestArrives(h) \/ HandlerMoves(h)
      PROVE  QuietWhenNotWaiting'
  <2>1. CASE Returns(h)
    BY <2>1 DEF Returns, Awaiting, QuietWhenNotWaiting, TypedInv, IInv, TypeOK
  <2>2. CASE UNCHANGED n4Reply /\ \A g \in Handlers : Awaiting(g) => Awaiting(g)'
    BY <2>2 DEF QuietWhenNotWaiting
  <2>3. ASSUME NEW label, NEW supi, NEW type, Arrives(h, label, supi, type)
        PROVE  QuietWhenNotWaiting'
    <3>1. UNCHANGED n4Reply /\ \A g \in Handlers : Awaiting(g) => Awaiting(g)'
      BY <2>3 DEF Arrives, Awaiting, TypedInv, IInv, TypeOK
    <3> QED
      BY <2>2, <3>1
  <2>4. CASE RegisterEstablish(h) \/ DeregisterRelease(h)
    <3>1. UNCHANGED n4Reply /\ \A g \in Handlers : Awaiting(g) => Awaiting(g)'
      BY <2>4 DEF RegisterEstablish, DeregisterRelease, Awaiting, TypedInv, IInv, TypeOK
    <3> QED
      BY <2>2, <3>1
  <2>5. CASE RequestArrives(h)
    BY <2>3, <2>5 DEF RequestArrives, RegisterArrives, DeregisterArrives
  <2> QED
    BY <1>1, <2>1, <2>4, <2>5
       DEF HandlerMoves, HandlerStep, RegisterDuplicate, RegisterFailed, RegisterStore, DeregisterUnknown,
           DeregisterErase
<1>2. ASSUME NEW h \in Handlers, UpfExecutes(h) \/ N4Breaks(h)
      PROVE  QuietWhenNotWaiting'
  <2>1. PICK reply : N4Answers(h, reply)
    BY <1>2 DEF UpfExecutes, N4Breaks
  <2>2. Awaiting(h)
    BY <2>1, OneWaits DEF N4Answers
  <2> QED
    BY <2>1, <2>2 DEF N4Answers, Awaiting, QuietWhenNotWaiting
<1>3. CASE UNCHANGED vars
  BY <1>3 DEF vars, handlerVars, Awaiting, QuietWhenNotWaiting
<1>4. CASE AmfRestart
  BY <1>4 DEF AmfRestart, Restart, QuietWhenNotWaiting
<1> QED
  BY <1>1, <1>2, <1>3, <1>4, UpfRestartQuiet DEF CoreNext, coreVars, StrayExecutes, StrayIsLost

LEMMA StutterBacking ==
  ASSUME Backing, UNCHANGED coreVars
  PROVE  Backing'
<1>1. UNCHANGED vars /\ UNCHANGED upfVars /\ UNCHANGED faultVars
  BY DEF coreVars
<1>2. QuietWhenNotWaiting' /\ ContextsNameIssued' /\ AllBacked'
  BY <1>1 DEF vars, contextVars, handlerVars, upfVars, Backing, QuietWhenNotWaiting, Awaiting,
              ContextsNameIssued, AllBacked, Backed, ReleaseReplied
<1>3. AnswersAreFresh' /\ LateReleasesHarmless'
  BY <1>1 DEF vars, contextVars, handlerVars, upfVars, faultVars, Backing, AnswersAreFresh, AnswerIsFresh,
              LateReleasesHarmless, IssuedAndOwn, ReleaseReplied
<1> QED
  BY <1>2, <1>3 DEF Backing

LEMMA NextBacking ==
  ASSUME BackingInv, [CoreNext]_coreVars
  PROVE  BackingInv'
<1>1. TypedInv /\ TypedInv' /\ QuietWhenNotWaiting'
  BY CoreNextTyped, StaysQuiet DEF BackingInv
<1>2. ASSUME upfRestarts' = 0 PROVE Backing'
  <2>1. upfRestarts = 0 /\ Backing /\ ~ UpfRestart
    <3>1. ~ UpfRestart
      BY <1>2, UpfRestartQuiet DEF BackingInv
    <3>2. UNCHANGED upfRestarts
      BY <3>1 DEF CoreNext, coreVars, faultVars, RequestArrives, HandlerMoves, UpfExecutes, N4Breaks,
                  StrayExecutes, StrayIsLost, AmfRestart
    <3> QED
      BY <1>2, <3>1, <3>2 DEF BackingInv
  <2>2. ASSUME NEW h \in Handlers, UpfExecutes(h) PROVE Backing'
    <3>1. n4Call[h].op \in {"establish", "release"}
      BY <1>1, <2>2, PendingIsGood DEF UpfExecutes, N4Answers, GoodCall
    <3> QED
      BY <1>1, <2>1, <2>2, <3>1, AnsweredEstablishBacking, AnsweredReleaseBacking
  <2>3. ASSUME NEW n \in DOMAIN stray, StrayExecutes(n) PROVE Backing'
    <3>1. stray[n].op \in {"establish", "release"}
      BY <1>1, <2>3 DEF TypedInv, FaultsTyped, GoodCall
    <3> QED
      BY <1>1, <2>1, <2>3, <3>1, LateEstablishBacking, LateReleaseBacking
  <2>4. CASE UNCHANGED coreVars
    BY <2>1, <2>4, StutterBacking
  <2> QED
    BY <1>1, <2>1, <2>2, <2>3, <2>4, ArrivesBacking, HandlerMovesBacking, BreaksBacking, StrayLostBacking,
       AmfRestartBacking DEF CoreNext
<1> QED
  BY <1>1, <1>2 DEF BackingInv

LEMMA InitBacking == CoreInit => BackingInv
<1> SUFFICES ASSUME CoreInit PROVE BackingInv
  OBVIOUS
<1>1. QuietWhenNotWaiting /\ ContextsNameIssued /\ AnswersAreFresh /\ AllBacked
  BY DEF CoreInit, Init, EmptyMap, QuietWhenNotWaiting, ContextsNameIssued, AnswersAreFresh, AllBacked
<1>2. LateReleasesHarmless
  BY DEF CoreInit, EmptyMap, LateReleasesHarmless
<1> QED
  BY <1>1, <1>2, CoreInitTyped DEF BackingInv, Backing

(* Until the UPF has restarted, every UE context names a live session of   *)
(* its own UE: lost answers, late executions and restarts of the AMF take  *)
(* none away.                                                              *)
THEOREM ContextsStayBacked == CoreSpec => []ContextsBacked
<1>1. BackingInv => ContextsBacked
  BY DEF BackingInv, Backing, AllBacked, ContextsBacked
<1>2. BackingInv /\ [CoreNext]_coreVars => BackingInv'
  BY NextBacking
<1> QED
  BY <1>1, <1>2, InitBacking, PTL DEF CoreSpec

(* A step removes a session only for a release that names it and is of     *)
(* the session's own UE.                                                   *)
LEMMA ReleaseIsOwn ==
  ASSUME TypedInv, Backing, [CoreNext]_coreVars, ~ UpfRestart,
         NEW id \in DOMAIN sessions \ DOMAIN sessions'
  PROVE  \/ \E h \in Handlers :
              /\ n4Call[h].op = "release" /\ n4Call[h].session = id
              /\ n4Call[h].supi = sessions[id].supi
         \/ \E n \in DOMAIN stray \ DOMAIN stray' :
              /\ stray[n].op = "release" /\ stray[n].session = id
              /\ stray[n].supi = sessions[id].supi
<1>1. CASE UNCHANGED sessions
  BY <1>1
<1>2. ASSUME NEW h \in Handlers, UpfExecutes(h)
      PROVE  n4Call[h].op = "release" /\ n4Call[h].session = id /\ n4Call[h].supi = sessions[id].supi
  <2>1. Pending(h) /\ UpfRuns(n4Call[h])
    BY <1>2 DEF UpfExecutes, N4Answers
  <2>2. PICK call : call = n4Call[h] /\ GoodCall(call) /\ UpfRuns(call)
    BY <2>1, PendingIsGood
  <2>3. call.op = "release"
    BY <2>2, UpfEstablishes DEF GoodCall
  <2>4. call.session = id
    BY <2>2, <2>3, UpfReleases
  <2>5. IssuedAndOwn(call)
    BY <2>1, <2>2, <2>3, PendingRelease
  <2> QED
    BY <2>2, <2>3, <2>4, <2>5 DEF IssuedAndOwn
<1>3. ASSUME NEW n \in DOMAIN stray, StrayExecutes(n)
      PROVE  /\ n \notin DOMAIN stray'
             /\ stray[n].op = "release" /\ stray[n].session = id /\ stray[n].supi = sessions[id].supi
  <2>1. n \notin DOMAIN stray'
    BY <1>3 DEF StrayExecutes, Erase, Restrict
  <2>2. PICK call : call = stray[n] /\ GoodCall(call) /\ UpfRuns(call)
    BY <1>3 DEF StrayExecutes, TypedInv, FaultsTyped
  <2>3. call.op = "release"
    BY <2>2, UpfEstablishes DEF GoodCall
  <2>4. call.session = id
    BY <2>2, <2>3, UpfReleases
  <2>5. IssuedAndOwn(call)
    BY <2>2, <2>3 DEF Backing, LateReleasesHarmless
  <2> QED
    BY <2>1, <2>2, <2>3, <2>4, <2>5 DEF IssuedAndOwn
<1> QED
  BY <1>1, <1>2, <1>3
     DEF CoreNext, coreVars, upfVars, RequestArrives, HandlerMoves, N4Breaks, StrayIsLost, AmfRestart

(* Until the UPF has restarted, a session goes only by a release of the UE *)
(* that owns it, although ReleaseSession never compares the two.           *)
THEOREM ReleasesAreOwn == CoreSpec => ReleasesOwnSession
<1>1. BackingInv /\ [CoreNext]_coreVars =>
        [upfRestarts' = 0 =>
           \A id \in DOMAIN sessions \ DOMAIN sessions' :
             \/ \E h \in Handlers :
                  /\ n4Call[h].op = "release" /\ n4Call[h].session = id
                  /\ n4Call[h].supi = sessions[id].supi
             \/ \E n \in DOMAIN stray \ DOMAIN stray' :
                  /\ stray[n].op = "release" /\ stray[n].session = id
                  /\ stray[n].supi = sessions[id].supi]_coreVars
  <2> SUFFICES ASSUME BackingInv, [CoreNext]_coreVars, upfRestarts' = 0
               PROVE  \A id \in DOMAIN sessions \ DOMAIN sessions' :
                        \/ \E h \in Handlers :
                             /\ n4Call[h].op = "release" /\ n4Call[h].session = id
                             /\ n4Call[h].supi = sessions[id].supi
                        \/ \E n \in DOMAIN stray \ DOMAIN stray' :
                             /\ stray[n].op = "release" /\ stray[n].session = id
                             /\ stray[n].supi = sessions[id].supi
    OBVIOUS
  <2>1. ~ UpfRestart /\ upfRestarts = 0
    <3>1. ~ UpfRestart
      BY UpfRestartQuiet DEF BackingInv
    <3>2. UNCHANGED upfRestarts
      BY <3>1 DEF CoreNext, coreVars, faultVars, RequestArrives, HandlerMoves, UpfExecutes, N4Breaks,
                  StrayExecutes, StrayIsLost, AmfRestart
    <3> QED
      BY <3>1, <3>2
  <2> QED
    BY <2>1, ReleaseIsOwn DEF BackingInv
<1>2. BackingInv /\ [CoreNext]_coreVars => BackingInv'
  BY NextBacking
<1> QED
  BY <1>1, <1>2, InitBacking, PTL DEF CoreSpec, ReleasesOwnSession

(***************************************************************************)
(* Addresses.                                                              *)
(***************************************************************************)
LEMMA Division ==
  ASSUME NEW pool \in Nat \ {0}, NEW j \in Nat
  PROVE  /\ j \div pool \in Int
         /\ j % pool \in Nat
         /\ j = pool * (j \div pool) + (j % pool)
<1>1. j \div pool \in Int
  OBVIOUS
<1>2. j % pool \in Nat
  OBVIOUS
<1>3. j = pool * (j \div pool) + (j % pool)
  OBVIOUS
<1> QED
  BY <1>1, <1>2, <1>3

LEMMA MultipleApart ==
  ASSUME NEW n \in Nat \ {0}, NEW d \in Int
  PROVE  n * d \notin 1 .. n - 1
<1>1. CASE d >= 1
  <2>1. n * d >= n
    BY <1>1
  <2>2. n * d \in Int
    OBVIOUS
  <2> QED
    BY <2>1, <2>2
<1>2. CASE d <= 0
  <2>1. n * d <= 0
    BY <1>2
  <2>2. n * d \in Int
    OBVIOUS
  <2> QED
    BY <2>1, <2>2
<1> QED
  BY <1>1, <1>2

LEMMA ModuloInjective ==
  ASSUME NEW pool \in Nat \ {0}, NEW j \in Nat, NEW k \in Nat, j < k, k < j + pool
  PROVE  j % pool # k % pool
<1> SUFFICES ASSUME j % pool = k % pool PROVE FALSE
  OBVIOUS
<1>1. PICK p \in Int, q \in Int, r \in Nat : j = pool * p + r /\ k = pool * q + r
  BY Division
<1>2. pool * p \in Int /\ pool * q \in Int /\ pool * q - pool * p = pool * (q - p)
  BY <1>1
<1>3. k - j = pool * q - pool * p
  BY <1>1, <1>2
<1>4. k - j \in 1 .. pool - 1
  OBVIOUS
<1>5. q - p \in Int
  BY <1>1
<1> QED
  BY <1>2, <1>3, <1>4, <1>5, MultipleApart

LEMMA FirstLapDistinct ==
  ASSUME NEW j \in Nat, NEW k \in Nat, j < k, k < j + AddressPool
  PROVE  UeIp(j) # UeIp(k)
<1>1. PICK pool \in Nat \ {0} : pool = AddressPool
  BY AmfAssumption
<1>2. j % pool # k % pool
  BY <1>1, ModuloInjective
<1>3. j % pool \in Nat /\ k % pool \in Nat
  BY Division
<1> QED
  BY <1>1, <1>2, <1>3 DEF UeIp

(* The addresses that attempts have been made with.                        *)
Used(a) == \E k \in Nat : FirstNgapId < k /\ k <= ngapIdCounter /\ a = UeIp(k)
Unserved(a) == \A id \in DOMAIN sessions : sessions[id].ueIp # a

(* Establishments the UPF has not executed yet and may still execute.      *)
UnderWay(h) == Pending(h) /\ n4Call[h].op = "establish"
Strays == {n \in DOMAIN stray : stray[n].op = "establish"}

AllRouted == \A id \in DOMAIN sessions : Used(sessions[id].ueIp) /\ Upf!Routed(id)

StraysBringNew ==
  /\ \A n \in Strays : Used(stray[n].ueIp) /\ Unserved(stray[n].ueIp)
  /\ \A m, n \in Strays : m # n => stray[m].ueIp # stray[n].ueIp

CallBringsNew(h) ==
  /\ Used(n4Call[h].ueIp) /\ Unserved(n4Call[h].ueIp)
  /\ \A n \in Strays : stray[n].ueIp # n4Call[h].ueIp

CallsBringNew == \A h \in Handlers : UnderWay(h) => CallBringsNew(h)

(* Every session is routed, and no establishment still to be executed      *)
(* brings an address that is in use or that another one brings.            *)
Lap ==
  /\ FirstNgapId <= ngapIdCounter
  /\ AllRouted
  /\ StraysBringNew
  /\ CallsBringNew

InFirstLap == amfRestarts = 0 /\ ngapIdCounter <= FirstNgapId + AddressPool

RoutingInv == TypedInv /\ (InFirstLap => Lap)

LEMMA CounterIsNat == TypedInv => ngapIdCounter \in Nat /\ FirstNgapId \in Nat /\ AddressPool \in Nat
  BY AmfAssumption DEF TypedInv, IInv, TypeOK

(* The address of a new attempt is one that no attempt has been made with. *)
LEMMA EstablishLap ==
  ASSUME TypedInv, Lap, InFirstLap', NEW h \in Handlers, RegisterEstablish(h),
         UNCHANGED <<upfVars, faultVars>>
  PROVE  Lap'
<1>1. PICK n \in Nat : n = ngapIdCounter + 1
  BY CounterIsNat
<1>2. PICK a : a = UeIp(n)
  OBVIOUS
<1>3. ngapIdCounter' = n /\ n <= FirstNgapId + AddressPool /\ FirstNgapId < n
  BY <1>1, CounterIsNat DEF RegisterEstablish, InFirstLap, Lap
<1>4. \A b : Used(b) => Used(b)'
  BY <1>1, <1>3, CounterIsNat DEF Used
<1>5. Used(a)'
  BY <1>1, <1>2, <1>3, CounterIsNat DEF Used
<1>6. ~ Used(a)
  <2>1. ASSUME NEW k \in Nat, FirstNgapId < k, k <= ngapIdCounter PROVE UeIp(n) # UeIp(k)
    <3>1. k < n /\ n < k + AddressPool
      BY <1>1, <1>3, <2>1, CounterIsNat
    <3> QED
      BY <3>1, FirstLapDistinct
  <2> QED
    BY <1>2, <2>1 DEF Used
<1>7. UNCHANGED <<sessions, ueToSession, stray>>
  BY DEF upfVars, faultVars
<1>8. Strays' = Strays
  BY <1>7 DEF Strays
<1>9. AllRouted' /\ StraysBringNew'
  BY <1>4, <1>7, <1>8 DEF Lap, AllRouted, Upf!Routed, StraysBringNew, Unserved
<1>10. ASSUME NEW g \in Handlers, UnderWay(g)' PROVE CallBringsNew(g)'
  <2>1. CASE g = h
    <3>1. n4Call'[h].ueIp = a
      BY <1>1, <1>2 DEF RegisterEstablish, TypedInv, IInv, TypeOK
    <3>2. Unserved(a)
      BY <1>6 DEF Lap, AllRouted, Unserved
    <3>3. \A m \in Strays : stray[m].ueIp # a
      BY <1>6 DEF Lap, StraysBringNew
    <3> QED
      BY <1>5, <1>7, <1>8, <2>1, <3>1, <3>2, <3>3 DEF CallBringsNew, Unserved
  <2>2. CASE g # h
    <3>1. n4Call'[g] = n4Call[g] /\ n4Reply'[g] = n4Reply[g]
      BY <2>2 DEF RegisterEstablish, TypedInv, IInv, TypeOK
    <3>2. CallBringsNew(g)
      BY <1>10, <3>1 DEF UnderWay, Pending, Lap, CallsBringNew
    <3> QED
      BY <1>4, <1>7, <1>8, <3>1, <3>2 DEF CallBringsNew, Unserved
  <2> QED
    BY <2>1, <2>2
<1> QED
  BY <1>1, <1>3, <1>9, <1>10, CounterIsNat DEF Lap, CallsBringNew

(* The other steps of the AMF alone use no address.                        *)
LEMMA MovesLap ==
  ASSUME TypedInv, Lap, NEW h \in Handlers, RequestArrives(h) \/ HandlerMoves(h), ~ RegisterEstablish(h)
  PROVE  Lap'
<1>1. UNCHANGED <<sessions, ueToSession, stray>>
  BY DEF RequestArrives, HandlerMoves, upfVars, faultVars
<1>2. ngapIdCounter' = ngapIdCounter
  BY DEF RequestArrives, RegisterArrives, DeregisterArrives, Arrives, HandlerMoves, HandlerStep,
         RegisterDuplicate, RegisterFailed, RegisterStore, DeregisterUnknown, DeregisterRelease,
         DeregisterErase, contextVars
<1>3. \A b : Used(b)' = Used(b)
  BY <1>2 DEF Used
<1>4. Strays' = Strays
  BY <1>1 DEF Strays
<1>5. ASSUME NEW g \in Handlers, UnderWay(g)' PROVE UnderWay(g) /\ n4Call'[g] = n4Call[g]
  <2>1. CASE Returns(h)
    BY <1>5, <2>1 DEF Returns, UnderWay, Pending, NoCall, TypedInv, IInv, TypeOK
  <2>2. CASE DeregisterRelease(h)
    BY <1>5, <2>2 DEF DeregisterRelease, UnderWay, Pending, TypedInv, IInv, TypeOK
  <2>3. CASE UNCHANGED <<n4Call, n4Reply>>
    BY <1>5, <2>3 DEF UnderWay, Pending
  <2> QED
    BY <2>1, <2>2, <2>3
       DEF RequestArrives, RegisterArrives, DeregisterArrives, Arrives, HandlerMoves, HandlerStep,
           RegisterDuplicate, RegisterFailed, RegisterStore, DeregisterUnknown, DeregisterErase
<1>6. AllRouted' /\ StraysBringNew'
  BY <1>1, <1>3, <1>4 DEF Lap, AllRouted, Upf!Routed, StraysBringNew, Unserved
<1>7. CallsBringNew'
  BY <1>1, <1>3, <1>4, <1>5 DEF Lap, CallsBringNew, CallBringsNew, Unserved
<1> QED
  BY <1>2, <1>6, <1>7 DEF Lap

(***************************************************************************)
(* What the UPF does.                                                      *)
(***************************************************************************)
LEMMA EstablishKeepsRoutes ==
  ASSUME TypedInv, AllRouted, ngapIdCounter' = ngapIdCounter,
         NEW call, GoodCall(call), call.op = "establish", UpfRuns(call),
         Used(call.ueIp), Unserved(call.ueIp)
  PROVE  /\ AllRouted'
         /\ \A a : Unserved(a) /\ a # call.ueIp => Unserved(a)'
<1>1. PICK id \in Nat : id = sessionIdCounter
  BY DEF TypedInv, Upf!TypeOK
<1>2. Upf!EstablishSession(call.supi, call.ueIp, DefaultQos)
  BY DEF UpfRuns
<1>3. /\ id \notin DOMAIN sessions
      /\ DOMAIN sessions' = DOMAIN sessions \cup {id}
      /\ \A i \in DOMAIN sessions : sessions'[i] = sessions[i]
  BY <1>1, UpfEstablishes
<1>4. sessions'[id].ueIp = call.ueIp
  BY <1>1, <1>2 DEF Upf!EstablishSession, Upf!NewSession, Upf!Put
<1>5. /\ call.ueIp \in DOMAIN ueToSession' /\ ueToSession'[call.ueIp] = id
      /\ \A a \in DOMAIN ueToSession :
           a # call.ueIp => a \in DOMAIN ueToSession' /\ ueToSession'[a] = ueToSession[a]
  BY <1>1, <1>2 DEF Upf!EstablishSession, Upf!RoutesWith, Upf!Put
<1>6. \A a : Used(a)' = Used(a)
  BY DEF Used
<1>7. \A i \in DOMAIN sessions' : i = id \/ (i \in DOMAIN sessions /\ sessions[i].ueIp # call.ueIp)
  BY <1>3 DEF Unserved
<1>8. ASSUME NEW i \in DOMAIN sessions' PROVE (Used(sessions[i].ueIp) /\ Upf!Routed(i))'
  <2>1. CASE i = id
    BY <1>4, <1>5, <1>6, <2>1 DEF Upf!Routed
  <2>2. CASE i \in DOMAIN sessions /\ sessions[i].ueIp # call.ueIp
    BY <1>3, <1>5, <1>6, <2>2 DEF AllRouted, Upf!Routed
  <2> QED
    BY <1>7, <2>1, <2>2
<1> QED
  BY <1>3, <1>4, <1>7, <1>8 DEF AllRouted, Unserved

LEMMA ReleaseKeepsRoutes ==
  ASSUME AllRouted, ngapIdCounter' = ngapIdCounter,
         NEW call, call.op = "release", UpfRuns(call)
  PROVE  /\ AllRouted'
         /\ \A a : Unserved(a) => Unserved(a)'
<1>1. \A a : Used(a)' = Used(a)
  BY DEF Used
<1>2. /\ DOMAIN sessions' = DOMAIN sessions \ {call.session}
      /\ \A i \in DOMAIN sessions' : sessions'[i] = sessions[i]
  BY UpfReleases
<1>3. CASE UNCHANGED upfVars
  BY <1>1, <1>3 DEF upfVars, AllRouted, Unserved, Upf!Routed
<1>4. CASE Upf!ReleaseSession(call.session)
  <2>1. ueToSession' = Upf!Erase(ueToSession, sessions[call.session].ueIp) /\ call.session \in DOMAIN sessions
    BY <1>4 DEF Upf!ReleaseSession, Upf!RoutesWithout
  <2>2. \A i \in DOMAIN sessions' : sessions[i].ueIp # sessions[call.session].ueIp
    BY <1>2, <2>1 DEF AllRouted, Upf!Routed
  <2>3. \A a \in DOMAIN ueToSession :
          a # sessions[call.session].ueIp => a \in DOMAIN ueToSession' /\ ueToSession'[a] = ueToSession[a]
    BY <2>1 DEF Upf!Erase, Upf!Restrict
  <2>4. AllRouted'
    BY <1>1, <1>2, <2>2, <2>3 DEF AllRouted, Upf!Routed
  <2> QED
    BY <1>2, <2>4 DEF Unserved
<1> QED
  BY <1>3, <1>4 DEF UpfRuns

(* A call answered, or given up, is under way no more, and was the only    *)
(* one.                                                                    *)
LEMMA AnsweredIsOver ==
  ASSUME TypedInv, NEW h \in Handlers, NEW reply, reply.status # "none", N4Answers(h, reply)
  PROVE  /\ \A g \in Handlers : ~ UnderWay(g)'
         /\ UNCHANGED ngapIdCounter
<1>1. \A g \in Handlers : g # h => ~ Pending(g)
  BY OneWaits DEF N4Answers
<1>2. n4Reply'[h] = reply /\ reply # NoReply
  BY DEF N4Answers, NoReply, TypedInv, IInv, TypeOK
<1>3. \A g \in Handlers : g # h => n4Reply'[g] = n4Reply[g] /\ n4Call'[g] = n4Call[g]
  BY DEF N4Answers, TypedInv, IInv, TypeOK
<1> QED
  BY <1>1, <1>2, <1>3 DEF N4Answers, contextVars, UnderWay, Pending

LEMMA ExecutesLap ==
  ASSUME TypedInv, Lap, NEW h \in Handlers, UpfExecutes(h)
  PROVE  Lap'
<1>1. PICK call : call = n4Call[h] /\ GoodCall(call)
  BY PendingIsGood DEF UpfExecutes, N4Answers
<1>2. PICK reply : reply = Answer(call)
  OBVIOUS
<1>3. N4Answers(h, reply) /\ UpfRuns(call) /\ stray' = stray /\ Pending(h) /\ reply.status # "none"
  BY <1>1, <1>2 DEF UpfExecutes, N4Answers, Answer, Ok, Failed, faultVars
<1>4. (\A g \in Handlers : ~ UnderWay(g)') /\ ngapIdCounter' = ngapIdCounter
  BY <1>3, AnsweredIsOver
<1>5. Strays' = Strays /\ \A a : Used(a)' = Used(a)
  BY <1>3, <1>4 DEF Strays, Used
<1>6. CASE call.op = "establish"
  <2>1. CallBringsNew(h)
    BY <1>1, <1>3, <1>6 DEF UnderWay, Lap, CallsBringNew
  <2>2. AllRouted' /\ \A a : Unserved(a) /\ a # call.ueIp => Unserved(a)'
    BY <1>1, <1>3, <1>4, <1>6, <2>1, EstablishKeepsRoutes DEF Lap, CallBringsNew
  <2>3. StraysBringNew'
    BY <1>1, <1>3, <1>5, <2>1, <2>2 DEF Lap, StraysBringNew, CallBringsNew
  <2> QED
    BY <1>4, <2>2, <2>3 DEF Lap, CallsBringNew
<1>7. CASE call.op = "release"
  <2>1. AllRouted' /\ \A a : Unserved(a) => Unserved(a)'
    BY <1>3, <1>4, <1>7, ReleaseKeepsRoutes DEF Lap
  <2>2. StraysBringNew'
    BY <1>3, <1>5, <2>1 DEF Lap, StraysBringNew
  <2> QED
    BY <1>4, <2>1, <2>2 DEF Lap, CallsBringNew
<1> QED
  BY <1>1, <1>6, <1>7 DEF GoodCall

(* A call given up takes its address to the strays.                        *)
LEMMA BreaksLap ==
  ASSUME TypedInv, Lap, NEW h \in Handlers, N4Breaks(h)
  PROVE  Lap'
<1>1. PICK call : call = n4Call[h]
  OBVIOUS
<1>2. N4Answers(h, Failed) /\ stray' = StrayWith(call) /\ Pending(h) /\ UNCHANGED upfVars
  BY <1>1 DEF N4Breaks, N4Answers
<1>3. (\A g \in Handlers : ~ UnderWay(g)') /\ ngapIdCounter' = ngapIdCounter
  BY <1>2, AnsweredIsOver DEF Failed
<1>4. \A a : Used(a)' = Used(a) /\ Unserved(a)' = Unserved(a)
  BY <1>2, <1>3 DEF Used, Unserved, upfVars
<1>5. AllRouted'
  BY <1>2, <1>4 DEF Lap, AllRouted, Upf!Routed, upfVars
<1>6. PICK k : k = n4Breaks + amfRestarts + 1
  OBVIOUS
<1>7. /\ DOMAIN stray' = DOMAIN stray \cup {k}
      /\ \A n \in DOMAIN stray' : stray'[n] = IF n = k THEN call ELSE stray[n]
  BY <1>2, <1>6 DEF StrayWith, Put
<1>8. call.op = "establish" => Used(call.ueIp) /\ Unserved(call.ueIp) /\ \A n \in Strays : stray[n].ueIp # call.ueIp
  BY <1>1, <1>2 DEF UnderWay, Lap, CallsBringNew, CallBringsNew
<1>9. \A n \in Strays' : (n = k /\ stray'[n] = call /\ call.op = "establish") \/ (n \in Strays /\ stray'[n] = stray[n])
  BY <1>7 DEF Strays
<1>10. StraysBringNew'
  BY <1>4, <1>8, <1>9 DEF Lap, StraysBringNew
<1> QED
  BY <1>3, <1>5, <1>10 DEF Lap, CallsBringNew

(* A stray executed, or lost, is a stray no more.                          *)
LEMMA StrayLap ==
  ASSUME TypedInv, Lap, NEW n \in DOMAIN stray, StrayExecutes(n) \/ StrayIsLost(n)
  PROVE  Lap'
<1>1. UNCHANGED vars /\ ngapIdCounter' = ngapIdCounter
  BY DEF StrayExecutes, StrayIsLost, vars, contextVars
<1>2. \A m \in Strays' : m \in Strays /\ m # n /\ stray'[m] = stray[m]
  BY DEF StrayExecutes, StrayIsLost, Erase, Restrict, Strays
<1>3. \A a : Used(a)' = Used(a)
  BY <1>1 DEF Used
<1>4. \A g \in Handlers : UnderWay(g)' = UnderWay(g) /\ n4Call'[g] = n4Call[g]
  BY <1>1 DEF UnderWay, Pending, vars, handlerVars
<1>5. PICK call : call = stray[n] /\ GoodCall(call)
  BY DEF TypedInv, FaultsTyped
<1>6. CASE StrayIsLost(n)
  <2>1. AllRouted' /\ \A a : Unserved(a)' = Unserved(a)
    BY <1>3, <1>6 DEF StrayIsLost, upfVars, Lap, AllRouted, Upf!Routed, Unserved
  <2>2. StraysBringNew' /\ CallsBringNew'
    BY <1>2, <1>3, <1>4, <2>1 DEF Lap, StraysBringNew, CallsBringNew, CallBringsNew
  <2> QED
    BY <1>1, <2>1, <2>2 DEF Lap
<1>7. CASE StrayExecutes(n) /\ call.op = "establish"
  <2>1. n \in Strays /\ UpfRuns(call)
    BY <1>5, <1>7 DEF Strays, StrayExecutes
  <2>2. Used(call.ueIp) /\ Unserved(call.ueIp)
    BY <1>5, <2>1 DEF Lap, StraysBringNew
  <2>3. AllRouted' /\ \A a : Unserved(a) /\ a # call.ueIp => Unserved(a)'
    BY <1>1, <1>5, <1>7, <2>1, <2>2, EstablishKeepsRoutes DEF Lap
  <2>4. StraysBringNew'
    BY <1>2, <1>3, <1>5, <2>1, <2>3 DEF Lap, StraysBringNew
  <2>5. CallsBringNew'
    BY <1>2, <1>3, <1>4, <1>5, <2>1, <2>3 DEF Lap, CallsBringNew, CallBringsNew
  <2> QED
    BY <1>1, <2>3, <2>4, <2>5 DEF Lap
<1>8. CASE StrayExecutes(n) /\ call.op = "release"
  <2>1. AllRouted' /\ \A a : Unserved(a) => Unserved(a)'
    BY <1>1, <1>5, <1>8, ReleaseKeepsRoutes DEF Lap, StrayExecutes
  <2>2. StraysBringNew' /\ CallsBringNew'
    BY <1>2, <1>3, <1>4, <2>1 DEF Lap, StraysBringNew, CallsBringNew, CallBringsNew
  <2> QED
    BY <1>1, <2>1, <2>2 DEF Lap
<1> QED
  BY <1>5, <1>6, <1>7, <1>8 DEF GoodCall

(* A restarted UPF has no session, and its connection no call.             *)
LEMMA UpfRestartLap ==
  ASSUME TypedInv, Lap, UpfRestart
  PROVE  Lap'
<1>1. DOMAIN sessions' = {} /\ DOMAIN stray' = {} /\ ngapIdCounter' = ngapIdCounter
  BY DEF UpfRestart, Upf!Restart, Upf!EmptyMap, EmptyMap
<1>2. \A g \in Handlers : ~ UnderWay(g)'
  BY DEF UpfRestart, UnderWay, Pending, Failed, NoReply
<1> QED
  BY <1>1, <1>2 DEF Lap, AllRouted, StraysBringNew, Strays, CallsBringNew

LEMMA NextRouting == RoutingInv /\ [CoreNext]_coreVars => RoutingInv'
<1> SUFFICES ASSUME RoutingInv, [CoreNext]_coreVars, InFirstLap' PROVE Lap'
  BY CoreNextTyped DEF RoutingInv
<1>1. TypedInv
  BY DEF RoutingInv
<1>2. ~ AmfRestart
  BY <1>1 DEF AmfRestart, InFirstLap, TypedInv, FaultsTyped
<1>3. amfRestarts' = amfRestarts
  BY <1>2 DEF CoreNext, coreVars, faultVars, RequestArrives, HandlerMoves, UpfExecutes, N4Breaks,
              StrayExecutes, StrayIsLost, UpfRestart
<1>4. ngapIdCounter' = ngapIdCounter \/ ngapIdCounter' = ngapIdCounter + 1
  BY <1>2 DEF CoreNext, coreVars, vars, contextVars, RequestArrives, RegisterArrives, DeregisterArrives,
              Arrives, HandlerMoves, HandlerStep, RegisterDuplicate, RegisterEstablish, RegisterFailed,
              RegisterStore, DeregisterUnknown, DeregisterRelease, DeregisterErase, UpfExecutes, N4Breaks,
              N4Answers, StrayExecutes, StrayIsLost, UpfRestart
<1>5. Lap
  BY <1>1, <1>3, <1>4, CounterIsNat DEF RoutingInv, InFirstLap
<1>6. ASSUME NEW h \in Handlers, RequestArrives(h) \/ HandlerMoves(h) PROVE Lap'
  <2>1. UNCHANGED <<upfVars, faultVars>>
    BY <1>6 DEF RequestArrives, HandlerMoves
  <2> QED
    BY <1>1, <1>5, <1>6, <2>1, EstablishLap, MovesLap
<1>7. CASE UNCHANGED coreVars
  BY <1>5, <1>7
     DEF coreVars, vars, contextVars, handlerVars, upfVars, faultVars, Lap, AllRouted, StraysBringNew,
         CallsBringNew, CallBringsNew, Used, Unserved, UnderWay, Pending, Strays, Upf!Routed
<1> QED
  BY <1>1, <1>2, <1>5, <1>6, <1>7, ExecutesLap, BreaksLap, StrayLap, UpfRestartLap DEF CoreNext

LEMMA InitRouting == CoreInit => RoutingInv
<1> SUFFICES ASSUME CoreInit PROVE Lap
  BY CoreInitTyped DEF RoutingInv
<1>1. DOMAIN sessions = {} /\ DOMAIN stray = {} /\ ngapIdCounter = FirstNgapId
  BY DEF CoreInit, Init, Upf!Init, Upf!EmptyMap, EmptyMap
<1>2. \A h \in Handlers : ~ UnderWay(h)
  BY DEF CoreInit, Init, UnderWay, NoCall
<1> QED
  BY <1>1, <1>2, AmfAssumption DEF Lap, AllRouted, StraysBringNew, Strays, CallsBringNew

(* Until the AMF restarts, and while it has not made more attempts than    *)
(* there are addresses, every live session is routed, however many calls   *)
(* broke, came late or were lost and however often the UPF restarted.      *)
THEOREM FirstLapIsRouted == CoreSpec => []FirstLapRouted
<1>1. RoutingInv => FirstLapRouted
  BY DEF RoutingInv, InFirstLap, Lap, AllRouted, FirstLapRouted
<1>2. RoutingInv /\ [CoreNext]_coreVars => RoutingInv'
  BY NextRouting
<1> QED
  BY <1>1, <1>2, InitRouting, PTL DEF CoreSpec

(***************************************************************************)
(* What is left behind.  A session is covered when a context counts on it  *)
(* or its establishment has been answered and not been stored yet; the     *)
(* others are orphans.  The counters of the AMF account for its contexts,  *)
(* its orphans and the establishments still on their way.                  *)
(***************************************************************************)
Covered(id) ==
  \/ \E s \in DOMAIN ueContexts : ueContexts[s].session = id /\ ~ ReleaseReplied(s)
  \/ \E h \in Handlers : pc[h] = "awaitEstablish" /\ n4Reply[h].status = "ok" /\ n4Reply[h].session = id

Orphans == {id \in DOMAIN sessions : ~ Covered(id)}

Leak ==
  /\ IsFiniteSet(DOMAIN ueContexts) /\ IsFiniteSet(Orphans) /\ IsFiniteSet(Strays)
  /\ Cardinality(DOMAIN ueContexts) + deregCount + Cardinality(Orphans) + Cardinality(Strays)
       <= regCount + n4Breaks

LeakInv == TypedInv /\ QuietWhenNotWaiting /\ (amfRestarts = 0 => Leak)

LEMMA NoMore ==
  ASSUME NEW S, IsFiniteSet(S), NEW T, T \subseteq S
  PROVE  IsFiniteSet(T) /\ Cardinality(T) <= Cardinality(S) /\ Cardinality(T) \in Nat
  BY FS_Subset, FS_CardinalityType

LEMMA OneMore ==
  ASSUME NEW S, IsFiniteSet(S), NEW e, NEW T, T \subseteq S \cup {e}
  PROVE  IsFiniteSet(T) /\ Cardinality(T) <= Cardinality(S) + 1 /\ Cardinality(T) \in Nat
<1>1. IsFiniteSet(S \cup {e}) /\ Cardinality(S \cup {e}) <= Cardinality(S) + 1
  <2>1. Cardinality(S) \in Nat
    BY FS_CardinalityType
  <2>2. IsFiniteSet(S \cup {e})
    BY FS_AddElement
  <2>3. Cardinality(S \cup {e}) = IF e \in S THEN Cardinality(S) ELSE Cardinality(S) + 1
    BY FS_AddElement
  <2> QED
    BY <2>1, <2>2, <2>3
<1>2. /\ IsFiniteSet(T) /\ Cardinality(T) \in Nat
      /\ Cardinality(T) <= Cardinality(S \cup {e})
  BY <1>1, NoMore
<1>3. Cardinality(S \cup {e}) \in Nat /\ Cardinality(S) \in Nat
  BY <1>1, FS_CardinalityType
<1> QED
  BY <1>1, <1>2, <1>3

LEMMA LeakNumbers ==
  ASSUME TypedInv, Leak
  PROVE  /\ Cardinality(DOMAIN ueContexts) \in Nat /\ Cardinality(Orphans) \in Nat
         /\ Cardinality(Strays) \in Nat
         /\ deregCount \in Nat /\ regCount \in Nat /\ n4Breaks \in Nat
  BY FS_CardinalityType DEF Leak, TypedInv, IInv, TypeOK, FaultsTyped

(* A step that leaves nobody behind and starts nothing.                    *)
LEMMA NothingLeft ==
  ASSUME TypedInv, Leak, Orphans' \subseteq Orphans, Strays' \subseteq Strays,
         UNCHANGED <<ueContexts, regCount, deregCount, n4Breaks>>
  PROVE  Leak'
<1>1. /\ IsFiniteSet(Orphans') /\ Cardinality(Orphans') <= Cardinality(Orphans)
      /\ Cardinality(Orphans') \in Nat
  BY NoMore DEF Leak
<1>2. /\ IsFiniteSet(Strays') /\ Cardinality(Strays') <= Cardinality(Strays)
      /\ Cardinality(Strays') \in Nat
  BY NoMore DEF Leak
<1> QED
  BY <1>1, <1>2, LeakNumbers DEF Leak

(* The same of a step of the AMF alone that keeps the contexts: what was   *)
(* covered stays covered.                                                  *)
LEMMA QuietStepLeak ==
  ASSUME TypedInv, QuietWhenNotWaiting, Leak, NEW h \in Handlers, RequestArrives(h) \/ HandlerMoves(h),
         ~ RegisterStore(h), ~ DeregisterErase(h)
  PROVE  Leak'
<1>1. UNCHANGED <<sessions, stray, n4Breaks>> /\ Strays' = Strays
  BY DEF RequestArrives, HandlerMoves, upfVars, faultVars, Strays
<1>2. UNCHANGED <<ueContexts, regCount, deregCount>>
  BY DEF RequestArrives, RegisterArrives, DeregisterArrives, Arrives, HandlerMoves, HandlerStep,
         RegisterDuplicate, RegisterEstablish, RegisterFailed, DeregisterUnknown, DeregisterRelease,
         contextVars
<1>3. \A g \in Handlers : g # h => pc'[g] = pc[g] /\ req'[g] = req[g] /\ n4Reply'[g] = n4Reply[g]
  BY DEF RequestArrives, RegisterArrives, DeregisterArrives, Arrives, HandlerMoves, HandlerStep,
         RegisterDuplicate, RegisterEstablish, RegisterFailed, DeregisterUnknown, DeregisterRelease,
         Returns, TypedInv, IInv, TypeOK
<1>4. pc'[h] = "awaitRelease" => n4Reply'[h].status = "none"
  <2>1. CASE RegisterEstablish(h) \/ DeregisterRelease(h)
    <3>1. n4Reply[h] = NoReply /\ n4Reply' = n4Reply
      BY <2>1 DEF RegisterEstablish, DeregisterRelease, QuietWhenNotWaiting, Awaiting
    <3> QED
      BY <3>1 DEF NoReply
  <2>2. CASE RequestArrives(h) \/ Returns(h)
    BY <2>2 DEF RequestArrives, RegisterArrives, DeregisterArrives, Arrives, Returns, TypedInv, IInv, TypeOK
  <2> QED
    BY <2>1, <2>2 DEF HandlerMoves, HandlerStep, RegisterDuplicate, RegisterFailed, DeregisterUnknown
<1>5. ~ (pc[h] = "awaitEstablish" /\ n4Reply[h].status = "ok")
  BY DEF RequestArrives, RegisterArrives, DeregisterArrives, Arrives, HandlerMoves, HandlerStep,
         RegisterDuplicate, RegisterEstablish, RegisterFailed, DeregisterUnknown, DeregisterRelease
<1>6. \A s : ReleaseReplied(s)' => ReleaseReplied(s)
  BY <1>3, <1>4 DEF ReleaseReplied
<1>7. \A id : Covered(id) => Covered(id)'
  BY <1>2, <1>3, <1>5, <1>6 DEF Covered
<1>8. Orphans' \subseteq Orphans
  BY <1>1, <1>7 DEF Orphans
<1> QED
  BY <1>1, <1>2, <1>8, NothingLeft

(* A store counts one, and adds a context or orphans the session of the    *)
(* context it overwrites.                                                  *)
LEMMA StoreLeak ==
  ASSUME TypedInv, Leak, NEW h \in Handlers, UNCHANGED <<upfVars, faultVars>>, RegisterStore(h)
  PROVE  Leak'
<1>1. PICK supi \in Supis : supi = req[h].supi
  BY DEF RegisterStore, TypedInv, IInv, RegistersSomebody
<1>2. PICK id \in Nat : id = n4Reply[h].session
  BY DEF TypedInv, IInv, TypeOK, N4Reply
<1>3. /\ DOMAIN ueContexts' = DOMAIN ueContexts \cup {supi}
      /\ ueContexts'[supi].session = id
      /\ \A s \in DOMAIN ueContexts : s # supi => ueContexts'[s] = ueContexts[s]
  BY <1>1, <1>2 DEF RegisterStore, NewContext, Put
<1>4. UNCHANGED <<sessions, stray, n4Breaks, deregCount>> /\ regCount' = regCount + 1
  BY DEF RegisterStore, upfVars, faultVars
<1>5. \A g \in Handlers : pc'[g] # "awaitRelease" /\ (pc[g] = "awaitEstablish" => g = h)
  BY DEF RegisterStore, Returns, Awaiting, TypedInv, IInv, TypeOK, MutexDiscipline
<1>6. \A s : ~ ReleaseReplied(s)'
  BY <1>5 DEF ReleaseReplied
<1>7. \A i : Covered(i) => Covered(i)' \/ (supi \in DOMAIN ueContexts /\ i = ueContexts[supi].session)
  BY <1>2, <1>3, <1>5, <1>6 DEF Covered
<1>8. Strays' = Strays
  BY <1>4 DEF Strays
<1>9. CASE supi \in DOMAIN ueContexts
  <2>1. DOMAIN ueContexts' = DOMAIN ueContexts
    BY <1>3, <1>9
  <2>2. PICK old : old = ueContexts[supi].session
    OBVIOUS
  <2>3. Orphans' \subseteq Orphans \cup {old}
    BY <1>4, <1>7, <2>2 DEF Orphans
  <2>4. /\ IsFiniteSet(Orphans') /\ Cardinality(Orphans') <= Cardinality(Orphans) + 1
        /\ Cardinality(Orphans') \in Nat
    BY <2>3, OneMore DEF Leak
  <2> QED
    BY <1>4, <1>8, <2>1, <2>4, LeakNumbers DEF Leak
<1>10. CASE supi \notin DOMAIN ueContexts
  <2>1. Orphans' \subseteq Orphans
    BY <1>4, <1>7, <1>10 DEF Orphans
  <2>2. /\ IsFiniteSet(Orphans') /\ Cardinality(Orphans') <= Cardinality(Orphans)
        /\ Cardinality(Orphans') \in Nat
    BY <2>1, NoMore DEF Leak
  <2>3. /\ IsFiniteSet(DOMAIN ueContexts')
        /\ Cardinality(DOMAIN ueContexts') <= Cardinality(DOMAIN ueContexts) + 1
        /\ Cardinality(DOMAIN ueContexts') \in Nat
    BY <1>3, OneMore DEF Leak
  <2> QED
    BY <1>4, <1>8, <2>2, <2>3, LeakNumbers DEF Leak
<1> QED
  BY <1>9, <1>10

(* The context erased covered nothing any more.                            *)
LEMMA EraseLeak ==
  ASSUME TypedInv, Leak, NEW h \in Handlers, UNCHANGED <<upfVars, faultVars>>, DeregisterErase(h)
  PROVE  Leak'
<1>1. PICK supi \in Supis \cup {Empty} : supi = req[h].supi
  BY DEF TypedInv, IInv, TypeOK, Request
<1>2. /\ DOMAIN ueContexts' = DOMAIN ueContexts \ {supi}
      /\ \A s \in DOMAIN ueContexts' : ueContexts'[s] = ueContexts[s]
  BY <1>1 DEF DeregisterErase, Erase, Restrict
<1>3. supi \in DOMAIN ueContexts /\ ReleaseReplied(supi)
  BY <1>1 DEF DeregisterErase, ReleaseReturned, ReleaseReplied, TypedInv, IInv, IteratorStaysValid
<1>4. UNCHANGED <<sessions, stray, n4Breaks, regCount>> /\ deregCount' = deregCount + 1
  BY DEF DeregisterErase, upfVars, faultVars
<1>5. \A g \in Handlers : pc'[g] # "awaitRelease" /\ pc[g] # "awaitEstablish"
  BY DEF DeregisterErase, Returns, Awaiting, TypedInv, IInv, TypeOK, MutexDiscipline
<1>6. \A s : ~ ReleaseReplied(s)'
  BY <1>5 DEF ReleaseReplied
<1>7. \A i : Covered(i) => Covered(i)'
  BY <1>2, <1>3, <1>5, <1>6 DEF Covered
<1>8. Strays' = Strays /\ Orphans' \subseteq Orphans
  BY <1>4, <1>7 DEF Strays, Orphans
<1>9. /\ IsFiniteSet(Orphans') /\ Cardinality(Orphans') <= Cardinality(Orphans)
      /\ Cardinality(Orphans') \in Nat
  BY <1>8, NoMore DEF Leak
<1>10. /\ IsFiniteSet(DOMAIN ueContexts')
       /\ Cardinality(DOMAIN ueContexts') = Cardinality(DOMAIN ueContexts) - 1
  BY <1>2, <1>3, FS_RemoveElement DEF Leak
<1> QED
  BY <1>4, <1>8, <1>9, <1>10, LeakNumbers DEF Leak

(***************************************************************************)
(* N4.                                                                     *)
(***************************************************************************)
(* A session established and answered is covered by its answer; one        *)
(* released is no session.                                                 *)
LEMMA ExecutesLeak ==
  ASSUME TypedInv, Leak, NEW h \in Handlers, UpfExecutes(h)
  PROVE  Leak'
<1>1. PICK call : call = n4Call[h] /\ GoodCall(call)
  BY PendingIsGood DEF UpfExecutes, N4Answers
<1>2. PICK reply : reply = Answer(call)
  OBVIOUS
<1>3. N4Answers(h, reply) /\ UpfRuns(call) /\ UNCHANGED faultVars /\ Pending(h)
  BY <1>1, <1>2 DEF UpfExecutes, N4Answers
<1>4. UNCHANGED <<ueContexts, regCount, deregCount, n4Breaks, stray, pc, req>> /\ Strays' = Strays
  BY <1>3 DEF N4Answers, contextVars, faultVars, Strays
<1>5. n4Reply'[h] = reply /\ \A g \in Handlers : g # h => n4Reply'[g] = n4Reply[g]
  BY <1>3 DEF N4Answers, TypedInv, IInv, TypeOK
<1>6. /\ Awaiting(h) /\ n4Call[h].supi = req[h].supi
      /\ call.op = IF pc[h] = "awaitEstablish" THEN "establish" ELSE "release"
      /\ \A g \in Handlers : Awaiting(g) => g = h
      /\ \A s : ~ ReleaseReplied(s)
  BY <1>1, <1>3, OneWaits
<1>7. n4Reply[h].status = "none"
  BY <1>3 DEF Pending, NoReply
<1>8. CASE call.op = "establish"
  <2>1. PICK id \in Nat : id = sessionIdCounter
    BY DEF TypedInv, Upf!TypeOK
  <2>2. DOMAIN sessions' = DOMAIN sessions \cup {id}
    BY <1>1, <1>3, <1>8, <2>1, UpfEstablishes
  <2>3. pc[h] = "awaitEstablish" /\ reply = Ok(id)
    BY <1>2, <1>6, <1>8, <2>1 DEF Answer
  <2>4. Covered(id)'
    BY <1>4, <1>5, <2>3 DEF Covered, Ok
  <2>5. \A s : ~ ReleaseReplied(s)'
    BY <1>4, <1>6, <2>3 DEF ReleaseReplied, Awaiting
  <2>6. \A i : Covered(i) => Covered(i)'
    BY <1>4, <1>5, <1>6, <1>7, <2>5 DEF Covered
  <2>7. Orphans' \subseteq Orphans
    BY <2>2, <2>4, <2>6 DEF Orphans
  <2> QED
    BY <1>4, <2>7, NothingLeft
<1>9. CASE call.op = "release"
  <2>1. PICK gone : gone = call.session
    OBVIOUS
  <2>2. DOMAIN sessions' = DOMAIN sessions \ {gone}
    BY <1>3, <1>9, <2>1, UpfReleases
  <2>3. PICK supi : supi = req[h].supi
    OBVIOUS
  <2>4. pc[h] = "awaitRelease" /\ supi \in DOMAIN ueContexts /\ ueContexts[supi].session = gone
    BY <1>1, <1>6, <1>9, <2>1, <2>3 DEF Awaiting, TypedInv, IInv, IteratorStaysValid
  <2>5. \A s : ReleaseReplied(s)' => s = supi
    BY <1>4, <1>6, <2>3 DEF ReleaseReplied, Awaiting
  <2>6. \A i : Covered(i) => i = gone \/ Covered(i)'
    BY <1>4, <1>5, <1>7, <2>4, <2>5 DEF Covered
  <2>7. Orphans' \subseteq Orphans
    BY <2>2, <2>6 DEF Orphans
  <2> QED
    BY <1>4, <2>7, NothingLeft
<1> QED
  BY <1>1, <1>8, <1>9 DEF GoodCall

(* A broken call leaves one more establishment on its way, or one session  *)
(* that its context counts on no more.                                     *)
LEMMA BreaksLeak ==
  ASSUME TypedInv, Leak, NEW h \in Handlers, N4Breaks(h)
  PROVE  Leak'
<1>1. PICK call : call = n4Call[h] /\ GoodCall(call)
  BY PendingIsGood DEF N4Breaks, N4Answers
<1>2. N4Answers(h, Failed) /\ stray' = StrayWith(call) /\ Pending(h) /\ n4Breaks' = n4Breaks + 1
  BY <1>1 DEF N4Breaks, N4Answers
<1>3. UNCHANGED <<ueContexts, regCount, deregCount, pc, req>> /\ sessions' = sessions
  BY <1>2 DEF N4Breaks, N4Answers, contextVars, upfVars
<1>4. n4Reply'[h].status = "failed" /\ \A g \in Handlers : g # h => n4Reply'[g] = n4Reply[g]
  BY <1>2 DEF N4Answers, Failed, TypedInv, IInv, TypeOK
<1>5. /\ Awaiting(h) /\ call.supi = req[h].supi
      /\ call.op = IF pc[h] = "awaitEstablish" THEN "establish" ELSE "release"
      /\ \A g \in Handlers : Awaiting(g) => g = h
      /\ \A s : ~ ReleaseReplied(s)
  BY <1>1, <1>2, OneWaits
<1>6. n4Reply[h].status = "none"
  BY <1>2 DEF Pending, NoReply
<1>7. PICK k : k = n4Breaks + amfRestarts + 1
  OBVIOUS
<1>8. /\ DOMAIN stray' = DOMAIN stray \cup {k}
      /\ \A n \in DOMAIN stray' : stray'[n] = IF n = k THEN call ELSE stray[n]
  BY <1>2, <1>7 DEF StrayWith, Put
<1>9. CASE call.op = "establish"
  <2>1. \A s : ~ ReleaseReplied(s)'
    BY <1>3, <1>5, <1>9 DEF ReleaseReplied, Awaiting
  <2>2. \A i : Covered(i) => Covered(i)'
    BY <1>3, <1>4, <1>6, <2>1 DEF Covered
  <2>3. Orphans' \subseteq Orphans
    BY <1>3, <2>2 DEF Orphans
  <2>4. /\ IsFiniteSet(Orphans') /\ Cardinality(Orphans') <= Cardinality(Orphans)
        /\ Cardinality(Orphans') \in Nat
    BY <2>3, NoMore DEF Leak
  <2>5. Strays' \subseteq Strays \cup {k}
    BY <1>8 DEF Strays
  <2>6. /\ IsFiniteSet(Strays') /\ Cardinality(Strays') <= Cardinality(Strays) + 1
        /\ Cardinality(Strays') \in Nat
    BY <2>5, OneMore DEF Leak
  <2> QED
    BY <1>2, <1>3, <2>4, <2>6, LeakNumbers DEF Leak
<1>10. CASE call.op = "release"
  <2>1. PICK supi : supi = req[h].supi
    OBVIOUS
  <2>2. \A s : ReleaseReplied(s)' => s = supi
    BY <1>3, <1>5, <2>1 DEF ReleaseReplied, Awaiting
  <2>3. PICK left : left = ueContexts[supi].session
    OBVIOUS
  <2>4. \A i : Covered(i) => i = left \/ Covered(i)'
    BY <1>3, <1>4, <1>6, <2>2, <2>3 DEF Covered
  <2>5. Orphans' \subseteq Orphans \cup {left}
    BY <1>3, <2>4 DEF Orphans
  <2>6. /\ IsFiniteSet(Orphans') /\ Cardinality(Orphans') <= Cardinality(Orphans) + 1
        /\ Cardinality(Orphans') \in Nat
    BY <2>5, OneMore DEF Leak
  <2>7. Strays' \subseteq Strays
    BY <1>8, <1>10 DEF Strays
  <2>8. /\ IsFiniteSet(Strays') /\ Cardinality(Strays') <= Cardinality(Strays)
        /\ Cardinality(Strays') \in Nat
    BY <2>7, NoMore DEF Leak
  <2> QED
    BY <1>2, <1>3, <2>6, <2>8, LeakNumbers DEF Leak
<1> QED
  BY <1>1, <1>9, <1>10 DEF GoodCall

(* A late establishment makes the orphan it was counted for.               *)
LEMMA StrayLeak ==
  ASSUME TypedInv, Leak, NEW n \in DOMAIN stray, StrayExecutes(n) \/ StrayIsLost(n)
  PROVE  Leak'
<1>1. UNCHANGED <<ueContexts, regCount, deregCount, n4Breaks, pc, req, n4Reply>>
  BY DEF StrayExecutes, StrayIsLost, vars, contextVars, handlerVars
<1>2. \A i : Covered(i)' = Covered(i)
  BY <1>1 DEF Covered, ReleaseReplied
<1>3. Strays' = Strays \ {n}
  BY DEF StrayExecutes, StrayIsLost, Erase, Restrict, Strays
<1>4. PICK call : call = stray[n] /\ GoodCall(call)
  BY DEF TypedInv, FaultsTyped
<1>5. CASE StrayExecutes(n) /\ call.op = "establish"
  <2>1. PICK id \in Nat : id = sessionIdCounter
    BY DEF TypedInv, Upf!TypeOK
  <2>2. DOMAIN sessions' = DOMAIN sessions \cup {id}
    BY <1>4, <1>5, <2>1, UpfEstablishes DEF StrayExecutes
  <2>3. Orphans' \subseteq Orphans \cup {id}
    BY <1>2, <2>2 DEF Orphans
  <2>4. /\ IsFiniteSet(Orphans') /\ Cardinality(Orphans') <= Cardinality(Orphans) + 1
        /\ Cardinality(Orphans') \in Nat
    BY <2>3, OneMore DEF Leak
  <2>5. n \in Strays
    BY <1>4, <1>5 DEF Strays
  <2>6. IsFiniteSet(Strays') /\ Cardinality(Strays') = Cardinality(Strays) - 1
    BY <1>3, <2>5, FS_RemoveElement DEF Leak
  <2> QED
    BY <1>1, <2>4, <2>6, LeakNumbers DEF Leak
<1>6. CASE StrayIsLost(n) \/ call.op = "release"
  <2>1. DOMAIN sessions' \subseteq DOMAIN sessions
    <3>1. CASE StrayIsLost(n)
      BY <3>1 DEF StrayIsLost, upfVars
    <3>2. CASE StrayExecutes(n) /\ call.op = "release"
      BY <1>4, <3>2, UpfReleases DEF StrayExecutes
    <3> QED
      BY <1>6, <3>1, <3>2
  <2>2. Orphans' \subseteq Orphans
    BY <1>2, <2>1 DEF Orphans
  <2>3. Strays' \subseteq Strays
    BY <1>3
  <2> QED
    BY <1>1, <2>2, <2>3, NothingLeft
<1> QED
  BY <1>4, <1>5, <1>6 DEF GoodCall

LEMMA NextLeak == LeakInv /\ [CoreNext]_coreVars => LeakInv'
<1> SUFFICES ASSUME LeakInv, [CoreNext]_coreVars, amfRestarts' = 0 PROVE Leak'
  BY CoreNextTyped, StaysQuiet DEF LeakInv
<1>1. TypedInv /\ QuietWhenNotWaiting
  BY DEF LeakInv
<1>2. ~ AmfRestart
  BY <1>1 DEF AmfRestart, TypedInv, FaultsTyped
<1>3. amfRestarts' = amfRestarts
  BY <1>2 DEF CoreNext, coreVars, faultVars, RequestArrives, HandlerMoves, UpfExecutes, N4Breaks,
              StrayExecutes, StrayIsLost, UpfRestart
<1>4. Leak
  BY <1>3 DEF LeakInv
<1>5. ASSUME NEW h \in Handlers, RequestArrives(h) \/ HandlerMoves(h) PROVE Leak'
  <2>1. UNCHANGED <<upfVars, faultVars>>
    BY <1>5 DEF RequestArrives, HandlerMoves
  <2> QED
    BY <1>1, <1>4, <1>5, <2>1, QuietStepLeak, StoreLeak, EraseLeak
<1>6. CASE UpfRestart
  <2>1. DOMAIN sessions' = {} /\ DOMAIN stray' = {}
    BY <1>6 DEF UpfRestart, Upf!Restart, Upf!EmptyMap, EmptyMap
  <2>2. Orphans' \subseteq Orphans /\ Strays' \subseteq Strays
    BY <2>1 DEF Orphans, Strays
  <2> QED
    BY <1>1, <1>4, <1>6, <2>2, NothingLeft DEF UpfRestart
<1>7. CASE UNCHANGED coreVars
  <2>1. Orphans' = Orphans /\ Strays' = Strays
    BY <1>7 DEF coreVars, vars, contextVars, handlerVars, upfVars, faultVars, Orphans, Covered,
                ReleaseReplied, Strays
  <2>2. UNCHANGED <<ueContexts, regCount, deregCount, n4Breaks>>
    BY <1>7 DEF coreVars, vars, contextVars, faultVars
  <2> QED
    BY <1>1, <1>4, <2>1, <2>2, NothingLeft
<1> QED
  BY <1>1, <1>2, <1>4, <1>5, <1>6, <1>7, ExecutesLeak, BreaksLeak, StrayLeak DEF CoreNext

LEMMA InitLeak == CoreInit => LeakInv
<1> SUFFICES ASSUME CoreInit PROVE Leak
  BY CoreInitTyped, InitBacking DEF LeakInv, BackingInv
<1>1. DOMAIN ueContexts = {} /\ DOMAIN sessions = {} /\ DOMAIN stray = {}
  BY DEF CoreInit, Init, Upf!Init, Upf!EmptyMap, EmptyMap
<1>2. Orphans = {} /\ Strays = {}
  BY <1>1 DEF Orphans, Strays
<1>3. regCount = 0 /\ deregCount = 0 /\ n4Breaks = 0
  BY DEF CoreInit, Init
<1> QED
  BY <1>1, <1>2, <1>3, FS_EmptySet DEF Leak

(* Every session is an orphan, that of a context, or the one just answered.*)
LEMMA LeakBoundsSessions ==
  ASSUME TypedInv, Leak
  PROVE  Cardinality(DOMAIN sessions) + deregCount
           <= regCount + n4Breaks + (IF ctxMutex = Nobody THEN 0 ELSE 1)
<1> DEFINE counted == [s \in DOMAIN ueContexts |-> ueContexts[s].session]
           Named == Range(counted)
           Kept == Named \cup Orphans
<1>1. IsFiniteSet(Named) /\ Cardinality(Named) <= Cardinality(DOMAIN ueContexts)
  <2>1. counted \in Surjection(DOMAIN ueContexts, Named)
    BY DEF Surjection, Range
  <2> QED
    BY <2>1, FS_Surjection DEF Leak
<1>2. Cardinality(Named) \in Nat /\ Cardinality(Orphans) \in Nat /\ Cardinality(Named \cap Orphans) \in Nat
  BY <1>1, FS_CardinalityType, FS_Intersection DEF Leak
<1>3. IsFiniteSet(Kept) /\ Cardinality(Kept) <= Cardinality(Named) + Cardinality(Orphans)
  <2>1. IsFiniteSet(Named) /\ IsFiniteSet(Orphans)
    BY <1>1 DEF Leak
  <2> HIDE DEF Named
  <2>2. IsFiniteSet(Kept)
    BY <2>1, FS_Union
  <2>3. Cardinality(Kept) = Cardinality(Named) + Cardinality(Orphans) - Cardinality(Named \cap Orphans)
    BY <2>1, FS_Union
  <2> HIDE DEF Kept
  <2> QED
    BY <1>2, <2>2, <2>3
<1>4. \A i : Covered(i) => i \in Named \/ \E h \in Handlers : Awaiting(h) /\ n4Reply[h].session = i
  BY DEF Covered, Awaiting, Range
<1> HIDE DEF counted, Named
<1>5. Cardinality(Kept) \in Nat
  BY <1>3, FS_CardinalityType
<1>6. CASE ctxMutex = Nobody
  <2>1. \A h \in Handlers : ~ Awaiting(h)
    BY <1>6, AmfAssumption DEF TypedInv, IInv, MutexDiscipline
  <2>2. DOMAIN sessions \subseteq Kept
    BY <1>4, <2>1 DEF Orphans
  <2>3. Cardinality(DOMAIN sessions) <= Cardinality(Kept) /\ Cardinality(DOMAIN sessions) \in Nat
    BY <1>3, <2>2, NoMore
  <2> QED
    BY <1>1, <1>2, <1>3, <1>5, <1>6, <2>3, LeakNumbers DEF Leak
<1>7. CASE ctxMutex # Nobody
  <2>1. PICK h : \A g \in Handlers : Awaiting(g) => g = h
    BY DEF TypedInv, IInv, MutexDiscipline
  <2>2. PICK answered : answered = n4Reply[h].session
    OBVIOUS
  <2>3. DOMAIN sessions \subseteq Kept \cup {answered}
    BY <1>4, <2>1, <2>2 DEF Orphans
  <2>4. Cardinality(DOMAIN sessions) <= Cardinality(Kept) + 1 /\ Cardinality(DOMAIN sessions) \in Nat
    BY <1>3, <2>3, OneMore
  <2> QED
    BY <1>1, <1>2, <1>3, <1>5, <1>7, <2>4, LeakNumbers DEF Leak
<1> QED
  BY <1>6, <1>7

(* While the AMF lives, every session at the UPF that its counters do not  *)
(* account for was left by a broken call of its own.                       *)
THEOREM LeakIsBounded == CoreSpec => []LeakBounded
<1>1. LeakInv => LeakBounded
  BY LeakBoundsSessions DEF LeakInv, LeakBounded
<1>2. LeakInv /\ [CoreNext]_coreVars => LeakInv'
  BY NextLeak
<1> QED
  BY <1>1, <1>2, InitLeak, PTL DEF CoreSpec

(***************************************************************************)
(* The gauges of a deployment without faults.  Between the answer of the   *)
(* UPF and the counter of the AMF they differ by the one call answered.    *)
(***************************************************************************)
EstablishReplied == \E h \in Handlers : pc[h] = "awaitEstablish" /\ n4Reply[h].status # "none"
AnyReleaseReplied == \E h \in Handlers : pc[h] = "awaitRelease" /\ n4Reply[h].status # "none"

Difference ==
  /\ ~ EstablishReplied /\ ~ AnyReleaseReplied => Cardinality(DOMAIN sessions) + deregCount = regCount
  /\ EstablishReplied => Cardinality(DOMAIN sessions) + deregCount = regCount + 1
  /\ AnyReleaseReplied => Cardinality(DOMAIN sessions) + deregCount + 1 = regCount

Balanced ==
  /\ IsFiniteSet(DOMAIN sessions)
  /\ DOMAIN stray = {}
  /\ \A h \in Handlers : n4Reply[h].status # "failed"
  /\ Difference

BalanceInv == BackingInv /\ (Faultless => Balanced)

LEMMA BalanceNumbers ==
  ASSUME TypedInv, Balanced
  PROVE  Cardinality(DOMAIN sessions) \in Nat /\ deregCount \in Nat /\ regCount \in Nat
  BY FS_CardinalityType DEF Balanced, TypedInv, IInv, TypeOK

(* Requests, refusals and calls made change neither side.                  *)
LEMMA QuietStepBalance ==
  ASSUME TypedInv, QuietWhenNotWaiting, Balanced, NEW h \in Handlers, RequestArrives(h) \/ HandlerMoves(h),
         ~ RegisterStore(h), ~ DeregisterErase(h)
  PROVE  Balanced'
<1>1. UNCHANGED <<sessions, stray>>
  BY DEF RequestArrives, HandlerMoves, upfVars, faultVars
<1>2. UNCHANGED <<regCount, deregCount>>
  BY DEF RequestArrives, RegisterArrives, DeregisterArrives, Arrives, HandlerMoves, HandlerStep,
         RegisterDuplicate, RegisterEstablish, RegisterFailed, DeregisterUnknown, DeregisterRelease,
         contextVars
<1>3. \A g \in Handlers : g # h => pc'[g] = pc[g] /\ n4Reply'[g] = n4Reply[g]
  BY DEF RequestArrives, RegisterArrives, DeregisterArrives, Arrives, HandlerMoves, HandlerStep,
         RegisterDuplicate, RegisterEstablish, RegisterFailed, DeregisterUnknown, DeregisterRelease,
         Returns, TypedInv, IInv, TypeOK
<1>4. ~ Awaiting(h)
  BY DEF RequestArrives, RegisterArrives, DeregisterArrives, Arrives, HandlerMoves, HandlerStep,
         RegisterDuplicate, RegisterEstablish, RegisterFailed, DeregisterUnknown, DeregisterRelease,
         Balanced, Awaiting
<1>5. n4Reply[h] = NoReply /\ n4Reply'[h] = NoReply
  BY <1>4 DEF QuietWhenNotWaiting, RequestArrives, RegisterArrives, DeregisterArrives, Arrives, HandlerMoves,
         HandlerStep, RegisterDuplicate, RegisterEstablish, RegisterFailed, DeregisterUnknown,
         DeregisterRelease, Returns, TypedInv, IInv, TypeOK
<1>6. n4Reply[h].status = "none" /\ n4Reply'[h].status = "none"
  BY <1>5 DEF NoReply
<1>7. EstablishReplied' = EstablishReplied /\ AnyReleaseReplied' = AnyReleaseReplied
  BY <1>3, <1>6 DEF EstablishReplied, AnyReleaseReplied
<1>8. \A g \in Handlers : n4Reply'[g].status # "failed"
  BY <1>3, <1>6 DEF Balanced
<1> QED
  BY <1>1, <1>2, <1>7, <1>8 DEF Balanced, Difference

(* The counter catches up with the UPF.                                    *)
LEMMA CountedBalance ==
  ASSUME TypedInv, Balanced, NEW h \in Handlers, UNCHANGED <<upfVars, faultVars>>,
         RegisterStore(h) \/ DeregisterErase(h)
  PROVE  Balanced'
<1>1. UNCHANGED <<sessions, stray>> /\ Returns(h) /\ Awaiting(h)
  BY DEF upfVars, faultVars, RegisterStore, DeregisterErase, Awaiting
<1>2. \A g \in Handlers : Awaiting(g) => g = h
  BY <1>1 DEF TypedInv, IInv, MutexDiscipline
<1>3. \A g \in Handlers : ~ Awaiting(g)'
  BY <1>1, <1>2 DEF Returns, Awaiting, TypedInv, IInv, TypeOK
<1>4. ~ EstablishReplied' /\ ~ AnyReleaseReplied'
  BY <1>3 DEF EstablishReplied, AnyReleaseReplied, Awaiting
<1>5. \A g \in Handlers : n4Reply'[g].status # "failed"
  BY <1>1 DEF Returns, NoReply, Balanced, TypedInv, IInv, TypeOK
<1>6. CASE RegisterStore(h)
  <2>1. EstablishReplied /\ regCount' = regCount + 1 /\ deregCount' = deregCount
    BY <1>6 DEF RegisterStore, EstablishReplied
  <2> QED
    BY <1>1, <1>4, <1>5, <2>1, BalanceNumbers DEF Balanced, Difference
<1>7. CASE DeregisterErase(h)
  <2>1. AnyReleaseReplied /\ deregCount' = deregCount + 1 /\ regCount' = regCount
    BY <1>7 DEF DeregisterErase, ReleaseReturned, AnyReleaseReplied
  <2> QED
    BY <1>1, <1>4, <1>5, <2>1, BalanceNumbers DEF Balanced, Difference
<1> QED
  BY <1>6, <1>7

(* The UPF goes first, with a session that is new or is there.             *)
LEMMA ExecutesBalance ==
  ASSUME TypedInv, Backing, Balanced, NEW h \in Handlers, UpfExecutes(h)
  PROVE  Balanced'
<1>1. PICK call : call = n4Call[h] /\ GoodCall(call)
  BY PendingIsGood DEF UpfExecutes, N4Answers
<1>2. PICK reply : reply = Answer(call)
  OBVIOUS
<1>3. N4Answers(h, reply) /\ UpfRuns(call) /\ UNCHANGED faultVars /\ Pending(h)
  BY <1>1, <1>2 DEF UpfExecutes, N4Answers
<1>4. UNCHANGED <<regCount, deregCount, stray, pc>>
  BY <1>3 DEF N4Answers, contextVars, faultVars
<1>5. n4Reply'[h] = reply /\ \A g \in Handlers : g # h => n4Reply'[g] = n4Reply[g]
  BY <1>3 DEF N4Answers, TypedInv, IInv, TypeOK
<1>6. /\ Awaiting(h)
      /\ call.op = IF pc[h] = "awaitEstablish" THEN "establish" ELSE "release"
      /\ \A g \in Handlers : Awaiting(g) => g = h
  BY <1>1, <1>3, OneWaits
<1>7. n4Reply[h].status = "none"
  BY <1>3 DEF Pending, NoReply
<1>8. ~ EstablishReplied /\ ~ AnyReleaseReplied
  BY <1>6, <1>7 DEF EstablishReplied, AnyReleaseReplied, Awaiting
<1>9. Cardinality(DOMAIN sessions) + deregCount = regCount
  BY <1>8 DEF Balanced, Difference
<1>10. CASE call.op = "establish"
  <2>1. PICK id \in Nat : id = sessionIdCounter
    BY DEF TypedInv, Upf!TypeOK
  <2>2. DOMAIN sessions' = DOMAIN sessions \cup {id} /\ id \notin DOMAIN sessions
    BY <1>1, <1>3, <1>10, <2>1, UpfEstablishes
  <2>3. /\ IsFiniteSet(DOMAIN sessions')
        /\ Cardinality(DOMAIN sessions') = Cardinality(DOMAIN sessions) + 1
    BY <2>2, FS_AddElement DEF Balanced
  <2>4. reply.status = "ok" /\ pc[h] = "awaitEstablish"
    BY <1>2, <1>6, <1>10 DEF Answer, Ok
  <2>5. EstablishReplied' /\ ~ AnyReleaseReplied'
    BY <1>4, <1>5, <1>6, <2>4 DEF EstablishReplied, AnyReleaseReplied, Awaiting
  <2>6. \A g \in Handlers : n4Reply'[g].status # "failed"
    BY <1>5, <2>4 DEF Balanced
  <2>7. Cardinality(DOMAIN sessions') + deregCount' = regCount' + 1
    BY <1>4, <1>9, <2>3, BalanceNumbers
  <2> QED
    BY <1>4, <2>3, <2>5, <2>6, <2>7 DEF Balanced, Difference
<1>11. CASE call.op = "release"
  <2>1. PICK gone : gone = call.session
    OBVIOUS
  <2>2. DOMAIN sessions' = DOMAIN sessions \ {gone} /\ gone \in DOMAIN sessions
    BY <1>1, <1>3, <1>11, <2>1, UpfReleases, PendingRelease
  <2>3. /\ IsFiniteSet(DOMAIN sessions')
        /\ Cardinality(DOMAIN sessions') = Cardinality(DOMAIN sessions) - 1
    BY <2>2, FS_RemoveElement DEF Balanced
  <2>4. reply.status = "ok" /\ pc[h] = "awaitRelease"
    BY <1>2, <1>6, <1>11, <2>1, <2>2 DEF Answer, Ok, Awaiting
  <2>5. AnyReleaseReplied' /\ ~ EstablishReplied'
    BY <1>4, <1>5, <1>6, <2>4 DEF EstablishReplied, AnyReleaseReplied, Awaiting
  <2>6. \A g \in Handlers : n4Reply'[g].status # "failed"
    BY <1>5, <2>4 DEF Balanced
  <2>7. Cardinality(DOMAIN sessions') + deregCount' + 1 = regCount'
    BY <1>4, <1>9, <2>3, BalanceNumbers
  <2> QED
    BY <1>4, <2>3, <2>5, <2>6, <2>7 DEF Balanced, Difference
<1> QED
  BY <1>1, <1>10, <1>11 DEF GoodCall

LEMMA NextBalance == BalanceInv /\ [CoreNext]_coreVars => BalanceInv'
<1> SUFFICES ASSUME BalanceInv, [CoreNext]_coreVars, Faultless' PROVE Balanced'
  BY NextBacking DEF BalanceInv
<1>1. BackingInv /\ TypedInv /\ QuietWhenNotWaiting
  BY DEF BalanceInv, BackingInv
<1>2. ~ AmfRestart /\ ~ UpfRestart /\ \A h \in Handlers : ~ N4Breaks(h)
  BY <1>1 DEF AmfRestart, UpfRestart, N4Breaks, Faultless, TypedInv, FaultsTyped
<1>3. UNCHANGED <<n4Breaks, amfRestarts, upfRestarts>>
  BY <1>2 DEF CoreNext, coreVars, faultVars, RequestArrives, HandlerMoves, UpfExecutes, StrayExecutes,
              StrayIsLost
<1>4. Balanced /\ Backing
  BY <1>1, <1>3 DEF BalanceInv, BackingInv, Faultless
<1>5. ASSUME NEW h \in Handlers, RequestArrives(h) \/ HandlerMoves(h) PROVE Balanced'
  <2>1. UNCHANGED <<upfVars, faultVars>>
    BY <1>5 DEF RequestArrives, HandlerMoves
  <2> QED
    BY <1>1, <1>4, <1>5, <2>1, QuietStepBalance, CountedBalance
<1>6. CASE UNCHANGED coreVars
  BY <1>4, <1>6 DEF coreVars, vars, contextVars, handlerVars, upfVars, faultVars, Balanced, Difference,
                    EstablishReplied, AnyReleaseReplied
<1>7. ~ \E n \in DOMAIN stray : TRUE
  BY <1>4 DEF Balanced
<1> QED
  BY <1>1, <1>2, <1>4, <1>5, <1>6, <1>7, ExecutesBalance DEF CoreNext

LEMMA InitBalance == CoreInit => BalanceInv
<1> SUFFICES ASSUME CoreInit PROVE Balanced
  BY InitBacking DEF BalanceInv
<1>1. DOMAIN sessions = {} /\ DOMAIN stray = {} /\ regCount = 0 /\ deregCount = 0
  BY DEF CoreInit, Init, Upf!Init, Upf!EmptyMap, EmptyMap
<1>2. \A h \in Handlers : pc[h] = "idle" /\ n4Reply[h].status = "none"
  BY DEF CoreInit, Init, NoReply
<1>3. ~ EstablishReplied /\ ~ AnyReleaseReplied
  BY <1>2 DEF EstablishReplied, AnyReleaseReplied
<1> QED
  BY <1>1, <1>2, <1>3, FS_EmptySet DEF Balanced, Difference

(* As long as nothing has failed, amf_active_ues and upf_active_sessions   *)
(* agree whenever no N4 call is under way.                                 *)
THEOREM GaugesDoAgree == CoreSpec => []GaugesAgree
<1>1. BalanceInv => GaugesAgree
  <2> SUFFICES ASSUME BalanceInv, Faultless, ctxMutex = Nobody
               PROVE  Cardinality(DOMAIN sessions) + deregCount = regCount
    BY DEF GaugesAgree
  <2>1. \A h \in Handlers : ~ Awaiting(h)
    BY AmfAssumption DEF BalanceInv, BackingInv, TypedInv, IInv, MutexDiscipline
  <2>2. ~ EstablishReplied /\ ~ AnyReleaseReplied
    BY <2>1 DEF EstablishReplied, AnyReleaseReplied, Awaiting
  <2> QED
    BY <2>2 DEF BalanceInv, Balanced, Difference
<1>2. BalanceInv /\ [CoreNext]_coreVars => BalanceInv'
  BY NextBalance
<1> QED
  BY <1>1, <1>2, InitBalance, PTL DEF CoreSpec
===============================================================================
