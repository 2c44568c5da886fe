-------------------------------- MODULE RestAmf --------------------------------
(***************************************************************************)
(* The REST AMF (transport-bench/rest_amf_server.cpp): the lambdas that    *)
(* cpp-httplib runs on its threads, one request each, over ue_contexts and *)
(* the two atomics.  "POST .../register" and "DELETE" hold ctx_mutex from  *)
(* their look at the contexts to their return; "GET /metrics" reads the    *)
(* counter and the size of the map one after the other without it.  NGAP   *)
(* ids are the numbers behind "ngap-".                                     *)
(*                                                                         *)
(* A request has a connection of its own ("Connection: close"), which the  *)
(* listening thread accepts and the server's threads serve in turn; they   *)
(* are used through what a pool promises, TaskQueue.  The server may reach *)
(* a request long after its client has given up, and serves it then all    *)
(* the same.                                                               *)
(***************************************************************************)
EXTENDS Naturals, Sequences, FiniteSets, StdMap

CONSTANTS
  Supis,      (* the subscribers named in paths                             *)
  RegTypes,   (* values of registration_type                                *)
  Requests,   (* HTTP requests                                              *)
  MaxThreads, (* threads of the server                                      *)
  None        (* the content of a request not sent, the status of one       *)
              (* not answered, the values of a scrape not made              *)

(* The contents of requests.                                               *)
Registration(supi, type) == [kind |-> "register", supi |-> supi, type |-> type]
Removal(supi) == [kind |-> "delete", supi |-> supi, type |-> None]
Scrape == [kind |-> "metrics", supi |-> None, type |-> None]

Contents ==
  {Registration(supi, type) : supi \in Supis, type \in RegTypes}
  \cup {Removal(supi) : supi \in Supis} \cup {Scrape}

ASSUME RestAssumption == None \notin {200, 201} /\ None \notin Contents

VARIABLES
  ueContexts,    (* ue_contexts: supi -> NGAP id                            *)
  ngapCounter,   (* ngap_counter                                            *)
  regCount,      (* reg_count                                               *)
  pc,            (* request -> where its handler is                         *)
  req,           (* request -> [kind, supi, type]                           *)
  status,        (* request -> the HTTP status of the response              *)
  shown,         (* request -> [regs, ues], the values of a scrape; beside  *)
                 (* them, how many registrations it overlapped              *)
  queue, running, finished, phase   (* TaskQueue, of connections            *)

amfVars == <<ueContexts, ngapCounter, regCount>>
poolVars == <<queue, running, finished, phase>>
vars == <<amfVars, pc, req, status, shown, poolVars>>

Pool == INSTANCE TaskQueue WITH Tasks <- Requests

Init ==
  /\ ueContexts = EmptyMap
  /\ ngapCounter = 1000
  /\ regCount = 0
  /\ pc = [r \in Requests |-> "absent"]
  /\ req = [r \in Requests |-> None]
  /\ status = req /\ shown = req
  /\ Pool!Init

MovesTo(r, place) == pc' = [pc EXCEPT ![r] = place]

Responds(r, code) ==
  /\ MovesTo(r, "responded")
  /\ status' = [status EXCEPT ![r] = code]

(* The client's side: the request is written to a new connection.          *)
Sends(r, content) ==
  /\ pc[r] = "absent"
  /\ MovesTo(r, "sent")
  /\ req' = [req EXCEPT ![r] = content]
  /\ UNCHANGED <<amfVars, status, shown, poolVars>>

(***************************************************************************)
(* The server's listening thread and its pool.                             *)
(***************************************************************************)
Accepts(r) ==
  /\ pc[r] = "sent"
  /\ MovesTo(r, "accepted")
  /\ Pool!Submit(r)
  /\ UNCHANGED <<amfVars, req, status, shown>>

(* A thread takes the connection, reads the request and finds its handler. *)
(* All requests are well formed.                                           *)
Dispatches(r) ==
  /\ Cardinality(running) < MaxThreads
  /\ queue # <<>> /\ r = Head(queue)
  /\ Pool!Start
  /\ MovesTo(r, IF req[r].kind = "metrics" THEN "metrics" ELSE "lock")
  /\ UNCHANGED <<amfVars, req, status, shown>>

(* The response has been written, if there is somebody to read it, and the *)
(* socket is shut down and closed.                                         *)
Closes(r) ==
  /\ pc[r] = "responded"
  /\ Pool!Finish(r)
  /\ UNCHANGED <<amfVars, pc, req, status, shown>>

(* Mutated form: the lock_guard is missing.                                *)
NoMutex == TRUE

MutexFree == \A r \in Requests : pc[r] \notin {"insert", "count"}

(***************************************************************************)
(* POST /namf-comm/v1/ue-contexts/:supi/register                           *)
(***************************************************************************)
Refused(r) == req[r].supi \in DOMAIN ueContexts /\ req[r].type = "initial"

RegisterChecks(r) ==
  /\ pc[r] = "lock" /\ req[r].kind = "register"
  /\ MutexFree
  /\ \/ /\ Refused(r)
        /\ Responds(r, 200)
     \/ /\ ~ Refused(r)
        /\ MovesTo(r, "insert")
        /\ UNCHANGED status
  /\ UNCHANGED <<amfVars, req, shown, poolVars>>

(* Mutated form: the counter is read and not advanced.                     *)
NgapCounterKept == ngapCounter

NgapCounterAdvanced == ngapCounter + 1

RegisterInserts(r) ==
  /\ pc[r] = "insert"
  /\ ueContexts' = Put(ueContexts, req[r].supi, ngapCounter)
  /\ ngapCounter' = NgapCounterAdvanced
  /\ MovesTo(r, "count")
  /\ UNCHANGED <<regCount, req, status, shown, poolVars>>

(* Mutated form: the increment is missing.                                 *)
RegCountKept == regCount

RegCountAdvanced == regCount + 1

RegisterCounts(r) ==
  /\ pc[r] = "count"
  /\ regCount' = RegCountAdvanced
  /\ Responds(r, 201)
  /\ UNCHANGED <<ueContexts, ngapCounter, req, shown, poolVars>>

(***************************************************************************)
(* DELETE /namf-comm/v1/ue-contexts/:supi                                  *)
(***************************************************************************)
DeleteErases(r) ==
  /\ pc[r] = "lock" /\ req[r].kind = "delete"
  /\ MutexFree
  /\ ueContexts' = Erase(ueContexts, req[r].supi)
  /\ Responds(r, 200)
  /\ UNCHANGED <<ngapCounter, regCount, req, shown, poolVars>>

(***************************************************************************)
(* GET /metrics                                                            *)
(***************************************************************************)
(* Registrations that are counted, or stored and not counted yet.          *)
Answered == {r \in Requests : status[r] = 201}
Counting == {r \in Requests : pc[r] = "count"}

MetricsReadsCount(r) ==
  /\ pc[r] = "metrics"
  /\ shown' = [shown EXCEPT ![r] = [regs |-> regCount, before |-> Answered]]
  /\ MovesTo(r, "size")
  /\ UNCHANGED <<amfVars, req, status, poolVars>>

(* size() races with the handlers: the word it reads is the number of      *)
(* elements before or after an insertion or an erasure.                    *)
MetricsReadsSize(r) ==
  /\ pc[r] = "size"
  /\ shown' = [shown EXCEPT ![r] =
       [regs |-> @.regs, ues |-> Cardinality(DOMAIN ueContexts),
        during |-> Cardinality((Answered \cup Counting) \ @.before)]]
  /\ Responds(r, 200)
  /\ UNCHANGED <<amfVars, req, poolVars>>

ServerStep(r) ==
  \/ Accepts(r) \/ Dispatches(r) \/ Closes(r)
  \/ RegisterChecks(r) \/ RegisterInserts(r) \/ RegisterCounts(r)
  \/ DeleteErases(r)
  \/ MetricsReadsCount(r) \/ MetricsReadsSize(r)

Next ==
  \E r \in Requests : ServerStep(r) \/ \E content \in Contents : Sends(r, content)

Spec == Init /\ [][Next]_vars

(***************************************************************************)
(* Properties.                                                             *)
(***************************************************************************)
TypeOK ==
  /\ DOMAIN ueContexts \subseteq Supis
  /\ ueContexts \in [DOMAIN ueContexts -> 1000 .. ngapCounter - 1]
  /\ ngapCounter \in Nat /\ ngapCounter >= 1000 /\ regCount \in Nat
  /\ pc \in [Requests -> {"absent", "sent", "accepted", "lock", "insert", "count", "metrics", "size",
                          "responded"}]
  /\ req \in [Requests -> Contents \cup {None}]
  /\ status \in [Requests -> {None, 200, 201}]

(* "This implements the same AMF registration logic as amf_server.cpp":    *)
(* the handlers implement the registry that Amf implements.  A context is  *)
(* stored before it is counted, which the registry does at once; what a    *)
(* DELETE of an unknown UE does is nothing, unlike what it replies.        *)
Registry == INSTANCE UeRegistry WITH
  registered    <- ueContexts,
  registrations <- regCount + Cardinality(Counting)

ImplementsRegistry == Registry!Spec

(* A request of type "initial" never replaces a context: of two that are   *)
(* served at once, one is refused.                                         *)
InitialNeverOverwrites ==
  [][\A supi \in DOMAIN ueContexts \cap DOMAIN ueContexts' :
       ueContexts'[supi] # ueContexts[supi] =>
         \E r \in Requests :
           /\ pc[r] = "insert" /\ pc'[r] = "count"
           /\ req[r].supi = supi /\ req[r].type # "initial"]_vars

(* However the two unguarded reads of a scrape fall among the handlers,    *)
(* the page shows no more UEs than registrations, but for those that were  *)
(* served while it was made: one that overlaps none is consistent.         *)
ScrapeConsistent ==
  \A r \in Requests :
    status[r] # None /\ req[r].kind = "metrics" =>
      shown[r].ues <= shown[r].regs + shown[r].during
===============================================================================
