---------------------------- MODULE AmfMetricsProofs ----------------------------
(***************************************************************************)
(* Proofs about AmfMetrics, for any sets of subscribers and handlers and   *)
(* any modulus.  A scrape takes nothing from the handlers, so that what is *)
(* proved of Amf is true beside it; and the gauge is sound when the        *)
(* deregistrations are read first, because each has a registration that    *)
(* was counted before it (CountersCoverContexts).                          *)
(***************************************************************************)
EXTENDS AmfMetrics, AmfProofs

LEMMA MetricsStepIsAllowed ==
  ASSUME [MetricsNext]_metricsVars
  PROVE  [Next]_vars
<1>1. CASE AmfStep
  BY <1>1 DEF AmfStep, Next
<1>2. CASE Scrape \/ UNCHANGED metricsVars
  BY <1>2 DEF Scrape, ReadRegistrations, ReadDeregistrations, ScrapeEnds, metricsVars
<1>3. CASE MetricsRestart
  BY <1>3 DEF MetricsRestart, Next
<1> QED
  BY <1>1, <1>2, <1>3 DEF MetricsNext

(* With a scrape beside them the handlers do what Amf says, and nothing    *)
(* else.                                                                   *)
THEOREM MetricsLeaveAmf == MetricsSpec => Spec
<1>1. MetricsInit => Init
  BY DEF MetricsInit
<1>2. [MetricsNext]_metricsVars => [Next]_vars
  BY MetricsStepIsAllowed
<1> QED
  BY <1>1, <1>2, PTL DEF MetricsSpec, Spec

(* Each counter is read at most once in a scrape.                          *)
ReadsTyped ==
  /\ scrapeRead \in Seq({"registrations", "deregistrations"})
  /\ Len(scrapeRead) <= 2
  /\ Len(scrapeRead) = 2 => scrapeRead[1] # scrapeRead[2]

(* The registrations had then overtaken the deregistrations that are read, *)
(* and have not been reset since: a restart ends the scrape.               *)
GaugeInv ==
  /\ ReadsTyped
  /\ Len(scrapeRead) > 0 /\ scrapeRead[1] = "deregistrations" =>
       /\ scrapeDeregs \in 0 .. regCount
       /\ Len(scrapeRead) = 2 => scrapeRegs \in scrapeDeregs .. regCount

LEMMA RegCountGrows ==
  ASSUME IInv, AmfStep \/ UNCHANGED vars
  PROVE  regCount \in Nat /\ regCount' \in Nat /\ regCount <= regCount'
<1>1. regCount \in Nat
  BY DEF IInv, TypeOK
<1>2. regCount' \in {regCount, regCount + 1}
  BY DEF AmfStep, RegisterArrives, DeregisterArrives, Arrives, UpfAnswers, N4Answers, HandlerStep,
         RegisterDuplicate, RegisterEstablish, RegisterFailed, RegisterStore, DeregisterUnknown,
         DeregisterRelease, DeregisterErase, contextVars, vars
<1> QED
  BY <1>1, <1>2

(* A read appends the other counter's name, if any is there.               *)
LEMMA ReadAppends ==
  ASSUME ReadsTyped, NEW counter \in {"registrations", "deregistrations"}, ~ HasRead(counter),
         scrapeRead' = Append(scrapeRead, counter)
  PROVE  /\ ReadsTyped' /\ Len(scrapeRead') > 0
         /\ Len(scrapeRead) = 0 => scrapeRead'[1] = counter /\ Len(scrapeRead') = 1
         /\ Len(scrapeRead) > 0 => scrapeRead'[1] = scrapeRead[1] /\ scrapeRead[1] # counter
                                 /\ Len(scrapeRead') = 2
<1>1. \A i \in 1 .. Len(scrapeRead) : scrapeRead[i] # counter
  BY DEF HasRead, ReadsTyped
<1> DEFINE n == Len(scrapeRead)
<1>2. n \in Nat /\ n <= 2
  BY DEF ReadsTyped
<1>3. n # 2
  <2> SUFFICES ASSUME n = 2 PROVE FALSE
    OBVIOUS
  <2>1. \A i \in {1, 2} : scrapeRead[i] \in {"registrations", "deregistrations"} \ {counter}
    BY <1>1 DEF ReadsTyped
  <2> QED
    BY <2>1 DEF ReadsTyped
<1>4. n = 0 \/ n = 1
  <2> HIDE DEF n
  <2> QED
    BY <1>2, <1>3
<1> QED
  BY <1>1, <1>4 DEF ReadsTyped

LEMMA NextGauge ==
  ASSUME IInv, CountInv, GaugeInv, [MetricsNext]_metricsVars
  PROVE  GaugeInv'
<1>1. regCount \in Nat /\ deregCount \in Nat /\ deregCount <= regCount
  BY FS_CardinalityType DEF IInv, TypeOK, CountInv, CountersCoverContexts
<1>2. CASE MetricsRestart \/ ScrapeEnds
  <2>1. scrapeRead' = <<>>
    BY <1>2 DEF MetricsRestart, ScrapeEnds
  <2>2. scrapeRead' \in Seq({"registrations", "deregistrations"}) /\ Len(scrapeRead') = 0
    BY <2>1
  <2> QED
    BY <2>2 DEF GaugeInv, ReadsTyped
<1>3. CASE ReadRegistrations
  <2>1. /\ scrapeRead' = Append(scrapeRead, "registrations") /\ ~ HasRead("registrations")
        /\ UNCHANGED <<regCount, scrapeDeregs>> /\ scrapeRegs' = regCount
    BY <1>3 DEF ReadRegistrations, vars, contextVars
  <2> QED
    BY <1>1, <2>1, ReadAppends DEF GaugeInv
<1>4. CASE ReadDeregistrations
  <2>1. /\ scrapeRead' = Append(scrapeRead, "deregistrations") /\ ~ HasRead("deregistrations")
        /\ UNCHANGED <<regCount, scrapeRegs>> /\ scrapeDeregs' = deregCount
    BY <1>4 DEF ReadDeregistrations, vars, contextVars
  <2>2. Len(scrapeRead) > 0 => scrapeRead'[1] # "deregistrations"
    BY <2>1, ReadAppends DEF GaugeInv
  <2> QED
    BY <1>1, <2>1, <2>2, ReadAppends DEF GaugeInv
<1>5. CASE UNCHANGED scrapeVars /\ (AmfStep \/ UNCHANGED vars)
  <2>1. regCount' \in Nat /\ regCount <= regCount'
    BY <1>5, RegCountGrows
  <2> QED
    BY <1>1, <1>5, <2>1 DEF GaugeInv, ReadsTyped, scrapeVars
<1> QED
  BY <1>2, <1>3, <1>4, <1>5 DEF MetricsNext, Scrape, metricsVars

(* In that order of the reads the gauge is at least 0 and no more than the *)
(* registrations accepted, wherever the handlers come between them.        *)
THEOREM GaugeIsSound == MetricsSpec => []GaugeSoundInThatOrder
<1>1. MetricsInit => IInv /\ CountInv /\ GaugeInv
  BY InitInvariant, InitCount DEF MetricsInit, GaugeInv, ReadsTyped
<1>2. IInv /\ CountInv /\ GaugeInv /\ [MetricsNext]_metricsVars => IInv' /\ CountInv' /\ GaugeInv'
  BY MetricsStepIsAllowed, NextInvariant, NextCount, NextGauge
<1>3. ASSUME IInv, GaugeInv
      PROVE  GaugeSoundInThatOrder
  <2> SUFFICES ASSUME DeregistrationsReadFirst
               PROVE  Gauge <= regCount
    BY DEF GaugeSoundInThatOrder
  <2>1. /\ Len(scrapeRead) > 0 /\ scrapeRead[1] = "deregistrations" /\ Len(scrapeRead) = 2
        /\ regCount \in Nat
    BY <1>3 DEF DeregistrationsReadFirst, GaugeReady, IInv, TypeOK
  <2>2. scrapeDeregs \in Nat /\ scrapeRegs - scrapeDeregs \in 0 .. regCount
    BY <1>3, <2>1 DEF GaugeInv
  <2> QED
    BY <2>1, <2>2, MetricsAssumption DEF Gauge
<1> QED
  BY <1>1, <1>2, <1>3, PTL DEF MetricsSpec
===============================================================================
