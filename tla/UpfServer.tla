------------------------------- MODULE UpfServer -------------------------------
(***************************************************************************)
(* The UPF as a process: ClassifyPacket (upf/src/upf_server.cpp) on the    *)
(* threads of the gRPC server, its work done inline or by the pool, next   *)
(* to the session handlers, the scrapes of the exporter and the life of    *)
(* main (upf/src/main.cpp).  The session table is UpfSessions, main is     *)
(* NfProcess, and the pool is used through what it promises, TaskQueue.    *)
(*                                                                         *)
(* A classification is cut at every access others can see: the look-up     *)
(* under sessions_mutex_, the writes to resp, the increment of a counter,  *)
(* the promise.  What classify computes after the look-up depends on its   *)
(* locals only, so the verdict is fixed there.                             *)
(***************************************************************************)
EXTENDS Naturals, Sequences, FiniteSets, StdMap, ClassifyRules

CONSTANTS
  Supis, UeIps, QosProfiles, Empty,   (* as in UpfSessions                  *)
  Calls,          (* calls of ClassifyPacket, one request each              *)
  Packets,        (* the requests                                           *)
  ThreadCounts,   (* values of UPF_THREADS; 0 = no pool                     *)
  None            (* a request not received, a response not written         *)

ASSUME ServerAssumption ==
  /\ ThreadCounts \subseteq Nat
  /\ \A p \in Packets : p.port \in Nat
  /\ None \notin Packets
  /\ \A action \in {"FORWARD", "DROP"}, qos \in QosProfiles \cup {0} :
       Verdict(action, qos) # None

VARIABLES
  sessions, ueToSession, sessionIdCounter,   (* UpfSessions                 *)
  queue, running, finished, phase,           (* TaskQueue                   *)
  main,        (* NfProcess                                                 *)
  numThreads,  (* the argument of the service's constructor                 *)
  handler,     (* call -> where its handler is                              *)
  packet,      (* call -> req, and the copy the task works on               *)
  step,        (* call -> the next step of its classification               *)
  verdict,     (* call -> what classify returned                            *)
  resp,        (* call -> the response message                              *)
  promised,    (* calls whose promise is set                                *)
  count,       (* pkt_count_, fwd_count_, drop_count_                       *)
  scrape,      (* the counters read so far by the scrape under way          *)
  uncounted,   (* packets in pkt but in neither fwd nor drop when it began  *)
  report       (* the counters of the final metrics                         *)

upfVars == <<sessions, ueToSession, sessionIdCounter>>
poolVars == <<queue, running, finished, phase>>
callVars == <<handler, packet, step, verdict, resp, promised>>
scrapeVars == <<scrape, uncounted>>
serviceVars == <<upfVars, poolVars, callVars, count, numThreads>>
restVars == <<main, numThreads, scrapeVars, report>>
vars == <<upfVars, poolVars, callVars, count, restVars>>

Upf == INSTANCE UpfSessions
Pool == INSTANCE TaskQueue WITH Tasks <- Calls
Process == INSTANCE NfProcess

Init ==
  /\ Upf!Init /\ Pool!Init /\ Process!Init
  /\ numThreads \in ThreadCounts
  /\ handler = [c \in Calls |-> "absent"]
  /\ packet = [c \in Calls |-> None]
  /\ step = [c \in Calls |-> "none"]
  /\ verdict = packet /\ resp = packet
  /\ promised = {}
  /\ count = [pkt |-> 0, fwd |-> 0, drop |-> 0]
  /\ scrape = EmptyMap /\ uncounted = 0
  /\ report = EmptyMap

(***************************************************************************)
(* The handler of ClassifyPacket.                                          *)
(***************************************************************************)
Counted(counter) == [count EXCEPT ![counter] = @ + 1]

ClassifyArrives(c, p) ==
  /\ Process!Serving
  /\ handler[c] = "absent"
  /\ handler' = [handler EXCEPT ![c] = "dispatch"]
  /\ packet' = [packet EXCEPT ![c] = p]
  /\ count' = Counted("pkt")
  /\ UNCHANGED <<upfVars, poolVars, step, verdict, resp, promised, restVars>>

(* pool_->enqueue, or the work itself.                                     *)
Dispatch(c) ==
  /\ handler[c] = "dispatch"
  /\ handler' = [handler EXCEPT ![c] = "awaiting"]
  /\ \/ /\ numThreads > 0
        /\ Pool!Submit(c)
        /\ step' = [step EXCEPT ![c] = "queued"]
     \/ /\ numThreads = 0
        /\ step' = [step EXCEPT ![c] = "lookup"]
        /\ UNCHANGED poolVars
  /\ UNCHANGED <<upfVars, packet, verdict, resp, promised, count, restVars>>

(* Mutated form: the handler does not wait for the promise.                *)
NoWait(c) == step[c] # "none"

(* future.wait(), or the end of the inline work.                           *)
Answered(c) == IF numThreads > 0 THEN c \in promised ELSE step[c] = "done"

ClassifyReturns(c) ==
  /\ handler[c] = "awaiting"
  /\ Answered(c)
  /\ handler' = [handler EXCEPT ![c] = "returned"]
  /\ UNCHANGED <<upfVars, poolVars, packet, step, verdict, resp, promised, count,
                 restVars>>

(***************************************************************************)
(* The classification, on a worker or on the handler's own thread.         *)
(***************************************************************************)
WorkerTakes ==
  /\ Cardinality(running) < numThreads
  /\ Pool!Start
  /\ step' = [step EXCEPT ![Head(queue)] = "lookup"]
  /\ UNCHANGED <<upfVars, handler, packet, verdict, resp, promised, count, restVars>>

(* Mutated form: the promise is set before the response is written.        *)
PromiseFirst ==
  [lookup |-> "promise", promise |-> "write", write |-> "tally", tally |-> "done"]

(* Mutated form: the counter is incremented after the promise is set.      *)
PromiseBeforeTally ==
  [lookup |-> "write", write |-> "promise", promise |-> "tally", tally |-> "done"]

(* The order of the statements of the task.                                *)
TaskOrder ==
  [lookup |-> "write", write |-> "tally", tally |-> "promise", promise |-> "done"]

InlineOrder == [lookup |-> "write", write |-> "tally", tally |-> "done"]

Performs(c, this) ==
  /\ step[c] = this
  /\ LET order == IF numThreads > 0 THEN TaskOrder ELSE InlineOrder
     IN  step' = [step EXCEPT ![c] = order[this]]

(* Mutated form: sessions_ is searched for the address, and the oldest     *)
(* session that has it is found.                                           *)
ClassifyByOldest(c) ==
  LET ids == {id \in DOMAIN sessions : sessions[id].ueIp = packet[c].src}
      oldest == CHOOSE id \in ids : \A other \in ids : id <= other
  IN  IF ids = {} THEN NoSession ELSE ProfileVerdict(packet[c], sessions[oldest].qosProfile)

Classify(c) ==
  LET p == packet[c]
  IN  IF p.src \notin DOMAIN ueToSession THEN NoSession
      ELSE LET session == sessions[ueToSession[p.src]]
           IN  IF session.active THEN ProfileVerdict(p, session.qosProfile) ELSE NoSession

LooksUp(c) ==
  /\ Performs(c, "lookup")
  /\ verdict' = [verdict EXCEPT ![c] = Classify(c)]
  /\ UNCHANGED <<upfVars, poolVars, handler, packet, resp, promised, count, restVars>>

WritesResponse(c) ==
  /\ Performs(c, "write")
  /\ resp' = [resp EXCEPT ![c] = verdict[c]]
  /\ UNCHANGED <<upfVars, poolVars, handler, packet, verdict, promised, count, restVars>>

Tallies(c) ==
  /\ Performs(c, "tally")
  /\ count' = Counted(IF verdict[c].action = "FORWARD" THEN "fwd" ELSE "drop")
  /\ UNCHANGED <<upfVars, poolVars, handler, packet, verdict, resp, promised, restVars>>

(* Mutated form: a packet that is dropped keeps its handler waiting.       *)
PromiseOnForward(c) ==
  IF verdict[c].action = "FORWARD" THEN promised \cup {c} ELSE promised

PromisedWith(c) == promised \cup {c}

SetsPromise(c) ==
  /\ Performs(c, "promise")
  /\ promised' = PromisedWith(c)
  /\ UNCHANGED <<upfVars, poolVars, handler, packet, verdict, resp, count, restVars>>

TaskEnds(c) ==
  /\ step[c] = "done"
  /\ Pool!Finish(c)
  /\ UNCHANGED <<upfVars, callVars, count, restVars>>

Work(c) == LooksUp(c) \/ WritesResponse(c) \/ Tallies(c) \/ SetsPromise(c) \/ TaskEnds(c)

(***************************************************************************)
(* The session handlers, which hold sessions_mutex_ throughout.            *)
(***************************************************************************)
SessionHandler ==
  /\ Process!Serving
  /\ \/ \E supi \in Supis, ip \in UeIps, qos \in QosProfiles :
          Upf!EstablishSession(supi, ip, qos)
     \/ \E id \in DOMAIN sessions : Upf!ReleaseSession(id)
  /\ UNCHANGED <<poolVars, callVars, count, restVars>>

(***************************************************************************)
(* A scrape, on a thread of the exporter: the lambda of main, which reads  *)
(* the counters one after the other.  The two gauges that follow change    *)
(* nothing and are left out.                                               *)
(***************************************************************************)
(* Mutated form: the total is read last.                                   *)
TotalLast == <<"fwd", "drop", "pkt">>

ReadOrder == <<"pkt", "fwd", "drop">>

ScrapeReads ==
  /\ Process!LocalsAlive
  /\ Cardinality(DOMAIN scrape) < Len(ReadOrder)
  /\ scrape' = LET counter == ReadOrder[Cardinality(DOMAIN scrape) + 1]
               IN  Put(scrape, counter, count[counter])
  /\ uncounted' = IF scrape = EmptyMap THEN count.pkt - count.fwd - count.drop
                                       ELSE uncounted
  /\ UNCHANGED <<serviceVars, main, report>>

ScrapeEnds ==
  /\ Process!LocalsAlive
  /\ DOMAIN scrape = Range(ReadOrder)
  /\ scrape' = EmptyMap /\ uncounted' = 0
  /\ UNCHANGED <<serviceVars, main, report>>

(* The exporter's thread is detached: it goes on while main destroys what  *)
(* the lambda refers to.  When that does not end the process it yields a   *)
(* response nobody can rely on, and changes nothing.                       *)
ScrapeOfDestroyed ==
  /\ Process!Crash
  /\ UNCHANGED <<serviceVars, scrapeVars, report>>

(***************************************************************************)
(* main.                                                                   *)
(***************************************************************************)
MainStarts ==
  /\ \/ Process!StartExporter \/ Process!StartServer \/ Process!StartFails
     \/ Process!PublishServer
  /\ UNCHANGED <<serviceVars, scrapeVars, report>>

SignalStops ==
  /\ Process!ShutdownOnSignal
  /\ UNCHANGED <<serviceVars, scrapeVars, report>>

HandlersReturned == \A c \in Calls : handler[c] \in {"absent", "returned"}

MainDrains ==
  /\ Process!WaitReturns
  /\ HandlersReturned
  /\ UNCHANGED <<serviceVars, scrapeVars, report>>

MainReports ==
  /\ Process!Report
  /\ report' = count
  /\ UNCHANGED <<serviceVars, scrapeVars>>

(* ~UpfServiceImpl destroys pool_, whose destructor drains and joins.      *)
PoolEnds ==
  /\ main = "leaving"
  /\ numThreads > 0
  /\ Pool!Close \/ Pool!Vanish
  /\ UNCHANGED <<upfVars, callVars, count, restVars>>

MainLeaves ==
  /\ Process!LeaveMain
  /\ numThreads > 0 => phase = "gone"
  /\ UNCHANGED <<serviceVars, scrapeVars, report>>

MainGoesOn == MainStarts \/ MainDrains \/ MainReports \/ PoolEnds \/ MainLeaves

Threads ==
  \/ \E c \in Calls :
       \/ \E p \in Packets : ClassifyArrives(c, p)
       \/ Dispatch(c) \/ Work(c) \/ ClassifyReturns(c)
  \/ WorkerTakes
  \/ SessionHandler
  \/ ScrapeReads \/ ScrapeEnds \/ ScrapeOfDestroyed

(* The process has one life here: see CoreNetwork for its restart.         *)
Next == MainGoesOn \/ SignalStops \/ (~ Process!Ended /\ Threads)

(* Threads that have started run on: workers, handlers, main.  Clients,    *)
(* scrapes and signals need not come.                                      *)
Fairness ==
  /\ WF_vars(MainGoesOn)
  /\ WF_vars(WorkerTakes)
  /\ \A c \in Calls : WF_vars(Dispatch(c) \/ ClassifyReturns(c)) /\ WF_vars(Work(c))

Spec == Init /\ [][Next]_vars
FairSpec == Spec /\ Fairness

(***************************************************************************)
(* Properties.                                                             *)
(***************************************************************************)
TypeOK ==
  /\ numThreads \in ThreadCounts
  /\ handler \in [Calls -> {"absent", "dispatch", "awaiting", "returned"}]
  /\ packet \in [Calls -> Packets \cup {None}]
  /\ step \in [Calls -> {"none", "queued", "lookup", "write", "tally", "promise", "done"}]
  /\ promised \subseteq Calls
  /\ count \in [{"pkt", "fwd", "drop"} -> Nat]

(* The verdict of each packet is that of PacketFilter: judged once, on its *)
(* own fields, by the profile its address had at one moment of the call,   *)
(* whatever happens to the session afterwards, and the caller is given     *)
(* that verdict.                                                           *)
Filter == INSTANCE PacketFilter WITH
  profile  <- [ip \in DOMAIN ueToSession |-> sessions[ueToSession[ip]].qosProfile],
  request  <- packet,
  decision <- verdict,
  answer   <- [c \in Calls |-> IF handler[c] = "returned" THEN resp[c] ELSE None]

ImplementsPacketFilter == Filter!Spec

(* resp belongs to gRPC again once the handler has returned: the task,     *)
(* which holds a plain pointer to it, does not write to it afterwards.     *)
ResponseOwned ==
  [][\A c \in Calls : resp'[c] # resp[c] => handler[c] = "awaiting"]_vars

(* While calls run, a scrape shows at most as many packets as it shows     *)
(* outcomes, plus those that were without one when it began; and no more   *)
(* outcomes than packets by its end.                                       *)
ScrapeBounds ==
  DOMAIN scrape = {"pkt", "fwd", "drop"} =>
    /\ scrape["pkt"] <= scrape["fwd"] + scrape["drop"] + uncounted
    /\ scrape["fwd"] + scrape["drop"] <= count.pkt

(* The final metrics account for every packet: each call was answered and  *)
(* was counted as forwarded or as dropped, as it was told.                 *)
AnsweredWith(action) ==
  {c \in Calls : handler[c] = "returned" /\ resp[c].action = action}

FinalReportBalances ==
  report # EmptyMap =>
    /\ report.fwd = Cardinality(AnsweredWith("FORWARD"))
    /\ report.drop = Cardinality(AnsweredWith("DROP"))
    /\ report.pkt = report.fwd + report.drop

(* A signal that finds the server stops the process: Shutdown waits for    *)
(* the handlers, they for their promises, and the destructor for the pool. *)
ShutdownCompletes == main = "draining" ~> Process!Ended

(* "Block RFC-1918 private destinations" (upf/src/upf_server.cpp:184).     *)
PrivateNetworks == {"10/8", "172.16/12", "192.168/16"}
PrivateDestinationsBlocked ==
  \A c \in Calls :
    resp[c] # None /\ packet[c].dst \in PrivateNetworks => resp[c].action = "DROP"
===============================================================================
