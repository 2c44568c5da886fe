------------------------------ MODULE AmfMetrics ------------------------------
(***************************************************************************)
(* The amf_active_ues gauge (the metrics callback of amf/src/main.cpp),    *)
(* which a thread of the Prometheus exporter evaluates for each scrape     *)
(* while the handlers of Amf run.  The two counters are atomics read one   *)
(* after the other, without ctx_mutex_, and C++ leaves open which operand  *)
(* of the subtraction is read first.                                       *)
(***************************************************************************)
EXTENDS Integers, Sequences, Amf

CONSTANT CounterModulus   (* 2^64: the range of uint64_t                    *)

ASSUME MetricsAssumption == CounterModulus \in Nat \ {0}

VARIABLES
  scrapeRead,     (* the operands read, in order                            *)
  scrapeRegs,     (* what total_registrations() returned                    *)
  scrapeDeregs    (* what total_deregistrations() returned                  *)

scrapeVars == <<scrapeRead, scrapeRegs, scrapeDeregs>>
metricsVars == <<vars, scrapeVars>>

MetricsInit ==
  /\ Init
  /\ scrapeRead = <<>>
  /\ scrapeRegs = 0
  /\ scrapeDeregs = 0

HasRead(counter) == \E i \in DOMAIN scrapeRead : scrapeRead[i] = counter

ReadRegistrations ==
  /\ ~ HasRead("registrations")
  /\ scrapeRead' = Append(scrapeRead, "registrations")
  /\ scrapeRegs' = regCount
  /\ UNCHANGED <<vars, scrapeDeregs>>

ReadDeregistrations ==
  /\ ~ HasRead("deregistrations")
  /\ scrapeRead' = Append(scrapeRead, "deregistrations")
  /\ scrapeDeregs' = deregCount
  /\ UNCHANGED <<vars, scrapeRegs>>

GaugeReady == Len(scrapeRead) = 2

(* Mutated form: the operands are exchanged.                               *)
GaugeReversed == (scrapeDeregs - scrapeRegs) % CounterModulus

(* The difference of two uint64_t.                                         *)
Gauge == (scrapeRegs - scrapeDeregs) % CounterModulus

(* The response is sent, and the exporter waits for the next scrape.       *)
ScrapeEnds ==
  /\ GaugeReady
  /\ scrapeRead' = <<>>
  /\ scrapeRegs' = 0
  /\ scrapeDeregs' = 0
  /\ UNCHANGED vars

(* A restart of the process ends the scrape it interrupts.                 *)
MetricsRestart ==
  /\ Restart
  /\ scrapeRead' = <<>>
  /\ scrapeRegs' = 0
  /\ scrapeDeregs' = 0

Scrape == ReadRegistrations \/ ReadDeregistrations \/ ScrapeEnds

AmfStep ==
  \E h \in Handlers :
    \/ \E supi \in Supis \cup {Empty}, type \in RegTypes : RegisterArrives(h, supi, type)
    \/ \E supi \in Supis \cup {Empty} : DeregisterArrives(h, supi)
    \/ HandlerStep(h)
    \/ UpfAnswers(h)

MetricsNext ==
  \/ AmfStep /\ UNCHANGED scrapeVars
  \/ Scrape
  \/ MetricsRestart

MetricsSpec == MetricsInit /\ [][MetricsNext]_metricsVars

(***************************************************************************)
(* Properties.                                                             *)
(***************************************************************************)
DeregistrationsReadFirst == GaugeReady /\ scrapeRead[1] = "deregistrations"

(* When the deregistrations happen to be read first, the gauge is sound:   *)
(* the handlers that finish between the two reads only add to it, so that  *)
(* it is at least 0 and no more than the registrations accepted.           *)
GaugeSoundInThatOrder == DeregistrationsReadFirst => Gauge <= regCount

(* "Number of currently registered UEs" (amf/src/main.cpp): whatever the   *)
(* order of the reads, no more UEs are registered than registrations have  *)
(* been accepted.                                                          *)
GaugeNeverAboveRegistrations == GaugeReady => Gauge <= regCount

(* "Number of currently registered UEs": a scrape during which no handler  *)
(* was at work, so that both counters are still what was read, shows the   *)
(* number of UEs that have a context.                                      *)
GaugeCountsRegisteredUes ==
  /\ GaugeReady
  /\ scrapeRegs = regCount /\ scrapeDeregs = deregCount
  => Gauge = Cardinality(DOMAIN ueContexts)
===============================================================================
