-------------------------- MODULE TransportBenchProofs --------------------------
(***************************************************************************)
(* Proofs about RestAmf, for any number of requests, threads, subscribers  *)
(* and registration types, and about TransportBench, its composition with  *)
(* the benchmark and other clients, for any number of runs and UEs.  The   *)
(* theorems on RestAmf use nothing of the benchmark, which inherits them.  *)
(***************************************************************************)
EXTENDS TransportBench, FiniteSetTheorems, TLAPS

(* Requests whose handler holds ctx_mutex between two of its steps.        *)
Holders == {r \in Requests : pc[r] \in {"insert", "count"}}

MutexDiscipline == \A r, s \in Holders : r = s

(* Where a request can be follows from its content, and the other way      *)
(* round.                                                                  *)
Placed ==
  \A r \in Requests :
    /\ (pc[r] = "absent") = (req[r] = None)
    /\ pc[r] \in {"insert", "count"} => req[r].kind = "register"
    /\ pc[r] = "insert" => ~ Refused(r)
    /\ pc[r] \in {"metrics", "size"} => req[r].kind = "metrics"
    /\ (pc[r] = "responded") = (status[r] # None)

(* The connections that wait for a thread, each once.                      *)
QueueInv ==
  /\ queue \in Seq(Requests)
  /\ \A i \in 1 .. Len(queue) : pc[queue[i]] = "accepted"
  /\ \A i, j \in 1 .. Len(queue) : queue[i] = queue[j] => i = j

IInv == TypeOK /\ MutexDiscipline /\ Placed /\ QueueInv

(* Every context but the one being counted has been counted, and the count *)
(* is that of the registrations answered.                                  *)
ContextsCounted ==
  /\ IsFiniteSet(DOMAIN ueContexts)
  /\ Cardinality(DOMAIN ueContexts) <= regCount + Cardinality(Counting)
  /\ IsFiniteSet(Answered) /\ regCount = Cardinality(Answered)

(* The first read of a scrape counts the registrations answered by then,   *)
(* which stay answered.                                                    *)
ReadsConsistent ==
  /\ DOMAIN shown = Requests
  /\ \A r \in Requests :
       /\ pc[r] = "size" =>
            /\ shown[r].before \subseteq Answered
            /\ shown[r].regs = Cardinality(shown[r].before)
       /\ pc[r] = "responded" /\ req[r].kind = "metrics" =>
            shown[r].ues <= shown[r].regs + shown[r].during

LEMMA ContentsTyped ==
  /\ None \notin Contents
  /\ \A content \in Contents :
       /\ content.kind \in {"register", "delete", "metrics"}
       /\ content.kind # "metrics" => content.supi \in Supis
  BY RestAssumption DEF Contents, Registration, Removal, Scrape

LEMMA InitInvariant == Init => IInv
<1> SUFFICES ASSUME Init PROVE IInv
  OBVIOUS
<1>1. TypeOK /\ MutexDiscipline
  BY DEF Init, EmptyMap, TypeOK, MutexDiscipline, Holders
<1>2. Placed
  BY DEF Init, Placed
<1>3. QueueInv
  BY DEF Init, Pool!Init, QueueInv
<1> QED
  BY <1>1, <1>2, <1>3 DEF IInv

(* The listening thread and the pool leave the handlers that run alone.    *)
LEMMA ServerInvariant ==
  ASSUME IInv, NEW r \in Requests,
         \/ \E content \in Contents : Sends(r, content)
         \/ Accepts(r) \/ Dispatches(r) \/ Closes(r)
  PROVE  IInv'
<1> USE DEF IInv
<1>1. CASE \E content \in Contents : Sends(r, content)
  <2>1. PICK content \in Contents : Sends(r, content)
    BY <1>1
  <2>2. TypeOK' /\ MutexDiscipline'
    BY <2>1 DEF Sends, MovesTo, amfVars, TypeOK, MutexDiscipline, Holders
  <2>3. Placed'
    BY <2>1, ContentsTyped DEF Sends, MovesTo, amfVars, Placed, Refused, TypeOK
  <2>4. QueueInv'
    BY <2>1 DEF Sends, MovesTo, poolVars, QueueInv, TypeOK
  <2> QED
    BY <2>2, <2>3, <2>4
<1>2. CASE Accepts(r)
  <2>1. TypeOK' /\ MutexDiscipline'
    BY <1>2 DEF Accepts, MovesTo, amfVars, TypeOK, MutexDiscipline, Holders
  <2>2. Placed'
    BY <1>2 DEF Accepts, MovesTo, amfVars, Placed, Refused, TypeOK
  <2>3. queue' = Append(queue, r)
    BY <1>2 DEF Accepts, Pool!Submit
  <2>4. \A i \in 1 .. Len(queue) : queue[i] # r
    BY <1>2 DEF Accepts, QueueInv
  <2>5. QueueInv'
    BY <1>2, <2>3, <2>4 DEF Accepts, MovesTo, QueueInv, TypeOK
  <2> QED
    BY <2>1, <2>2, <2>5
<1>3. CASE Dispatches(r)
  <2>1. r = queue[1] /\ pc[r] = "accepted" /\ Len(queue) > 0
    BY <1>3 DEF Dispatches, QueueInv
  <2>2. TypeOK' /\ MutexDiscipline'
    BY <1>3, <2>1 DEF Dispatches, MovesTo, amfVars, TypeOK, MutexDiscipline, Holders
  <2>3. Placed'
    BY <1>3, <2>1 DEF Dispatches, MovesTo, amfVars, Placed, Refused, TypeOK
  <2>4. queue' = Tail(queue)
    BY <1>3 DEF Dispatches, Pool!Start
  <2>5. /\ queue' \in Seq(Requests) /\ Len(queue') = Len(queue) - 1
        /\ \A i \in 1 .. Len(queue') : queue'[i] = queue[i + 1]
    BY <2>1, <2>4 DEF QueueInv
  <2>6. \A i \in 1 .. Len(queue') : queue'[i] # r
    BY <2>1, <2>5 DEF QueueInv
  <2>7. \A s \in Requests : s # r => pc'[s] = pc[s]
    BY <1>3 DEF Dispatches, MovesTo, TypeOK
  <2>8. QueueInv'
    BY <2>5, <2>6, <2>7 DEF QueueInv
  <2> QED
    BY <2>2, <2>3, <2>8
<1>4. CASE Closes(r)
  BY <1>4 DEF Closes, Pool!Finish, amfVars, TypeOK, MutexDiscipline, Holders, Placed, Refused,
              QueueInv
<1> QED
  BY <1>1, <1>2, <1>3, <1>4

(* A handler that finds the mutex free is alone with it.                   *)
LEMMA RegisterInvariant ==
  ASSUME IInv, NEW r \in Requests,
         RegisterChecks(r) \/ RegisterInserts(r) \/ RegisterCounts(r)
  PROVE  IInv'
<1> USE DEF IInv
<1>0. req[r] \in Contents /\ req[r].supi \in Supis
  <2>1. pc[r] # "absent" /\ req[r].kind = "register"
    BY DEF RegisterChecks, RegisterInserts, RegisterCounts, Placed
  <2>2. req[r] \in Contents
    BY <2>1 DEF Placed, TypeOK
  <2> QED
    BY <2>1, <2>2, ContentsTyped
<1>1. CASE RegisterChecks(r)
  <2>1. TypeOK'
    BY <1>1 DEF RegisterChecks, MovesTo, Responds, amfVars, TypeOK
  <2>2. MutexDiscipline'
    BY <1>1 DEF RegisterChecks, MutexFree, MovesTo, Responds, MutexDiscipline, Holders, TypeOK
  <2>3. Placed'
    BY <1>1, RestAssumption
       DEF RegisterChecks, MovesTo, Responds, amfVars, Placed, Refused, TypeOK
  <2>4. QueueInv'
    BY <1>1 DEF RegisterChecks, MovesTo, Responds, poolVars, QueueInv, TypeOK
  <2> QED
    BY <2>1, <2>2, <2>3, <2>4
<1>2. CASE RegisterInserts(r)
  <2>1. TypeOK'
    BY <1>0, <1>2 DEF RegisterInserts, NgapCounterAdvanced, MovesTo, Put, TypeOK
  <2>2. MutexDiscipline'
    BY <1>2 DEF RegisterInserts, MovesTo, MutexDiscipline, Holders, TypeOK
  <2>3. \A s \in Requests : pc'[s] # "insert"
    BY <1>2 DEF RegisterInserts, MovesTo, MutexDiscipline, Holders, TypeOK
  <2>4. Placed'
    BY <1>2, <2>3 DEF RegisterInserts, MovesTo, Placed, TypeOK
  <2>5. QueueInv'
    BY <1>2 DEF RegisterInserts, MovesTo, poolVars, QueueInv, TypeOK
  <2> QED
    BY <2>1, <2>2, <2>4, <2>5
<1>3. CASE RegisterCounts(r)
  <2>1. TypeOK' /\ MutexDiscipline'
    BY <1>3 DEF RegisterCounts, RegCountAdvanced, MovesTo, Responds, TypeOK, MutexDiscipline,
                Holders
  <2>2. Placed'
    BY <1>3, RestAssumption DEF RegisterCounts, MovesTo, Responds, Placed, Refused, TypeOK
  <2>3. QueueInv'
    BY <1>3 DEF RegisterCounts, MovesTo, Responds, poolVars, QueueInv, TypeOK
  <2> QED
    BY <2>1, <2>2, <2>3
<1> QED
  BY <1>1, <1>2, <1>3

LEMMA DeleteInvariant ==
  ASSUME IInv, NEW r \in Requests, DeleteErases(r)
  PROVE  IInv'
<1> USE DEF IInv
<1>1. TypeOK'
  BY DEF DeleteErases, MovesTo, Responds, Erase, Restrict, TypeOK
<1>2. MutexDiscipline' /\ QueueInv'
  BY DEF DeleteErases, MovesTo, Responds, poolVars, MutexDiscipline, Holders, QueueInv, TypeOK
<1>3. \A s \in Requests : pc'[s] # "insert"
  BY DEF DeleteErases, MutexFree, MovesTo, Responds, TypeOK
<1>4. Placed'
  BY <1>3, RestAssumption DEF DeleteErases, MovesTo, Responds, Placed, TypeOK
<1> QED
  BY <1>1, <1>2, <1>4

LEMMA MetricsInvariant ==
  ASSUME IInv, NEW r \in Requests, MetricsReadsCount(r) \/ MetricsReadsSize(r)
  PROVE  IInv'
<1> USE DEF IInv
<1>1. TypeOK' /\ MutexDiscipline'
  BY DEF MetricsReadsCount, MetricsReadsSize, MovesTo, Responds, amfVars, TypeOK,
         MutexDiscipline, Holders
<1>2. Placed'
  BY RestAssumption
     DEF MetricsReadsCount, MetricsReadsSize, MovesTo, Responds, amfVars, Placed, Refused, TypeOK
<1>3. QueueInv'
  BY DEF MetricsReadsCount, MetricsReadsSize, MovesTo, Responds, poolVars, QueueInv, TypeOK
<1> QED
  BY <1>1, <1>2, <1>3

LEMMA NextInvariant == IInv /\ [Next]_vars => IInv'
<1> SUFFICES ASSUME IInv, [Next]_vars PROVE IInv'
  OBVIOUS
<1>1. CASE UNCHANGED vars
  BY <1>1
     DEF vars, amfVars, poolVars, IInv, TypeOK, MutexDiscipline, Holders, Placed, Refused, QueueInv
<1> QED
  BY <1>1, ServerInvariant, RegisterInvariant, DeleteInvariant, MetricsInvariant
     DEF Next, ServerStep

(* A context of a UE is replaced by the insertion of a request that was    *)
(* not refused, and what was checked of it still holds: the mutex was kept *)
(* since.                                                                  *)
LEMMA OverwriteStep ==
  ASSUME IInv, [Next]_vars,
         NEW supi \in DOMAIN ueContexts \cap DOMAIN ueContexts',
         ueContexts'[supi] # ueContexts[supi]
  PROVE  \E r \in Requests :
           /\ pc[r] = "insert" /\ pc'[r] = "count"
           /\ req[r].supi = supi /\ req[r].type # "initial"
<1>1. CASE \E r \in Requests : RegisterInserts(r)
  <2>1. PICK r \in Requests : RegisterInserts(r)
    BY <1>1
  <2>2. req[r].supi = supi
    BY <2>1 DEF RegisterInserts, Put
  <2>3. req[r].type # "initial"
    BY <2>1, <2>2 DEF RegisterInserts, IInv, Placed, Refused
  <2>4. pc[r] = "insert" /\ pc'[r] = "count"
    BY <2>1 DEF RegisterInserts, MovesTo, IInv, TypeOK
  <2> QED
    BY <2>2, <2>3, <2>4
<1>2. CASE \E r \in Requests : DeleteErases(r)
  BY <1>2 DEF DeleteErases, Erase, Restrict
<1>3. CASE UNCHANGED ueContexts
  BY <1>3
<1> QED
  BY <1>1, <1>2, <1>3
     DEF Next, ServerStep, Sends, Accepts, Dispatches, Closes, RegisterChecks, RegisterCounts,
         MetricsReadsCount, MetricsReadsSize, vars, amfVars

(* Of two initial registrations of one UE that are served at once, one is  *)
(* refused, however many threads the server has.                           *)
THEOREM RestInitialNeverOverwrites == Spec => InitialNeverOverwrites
<1>1. Init => IInv
  BY InitInvariant
<1>2. IInv /\ [Next]_vars => IInv'
  BY NextInvariant
<1>3. IInv /\ [Next]_vars
        => [\A supi \in DOMAIN ueContexts \cap DOMAIN ueContexts' :
              ueContexts'[supi] # ueContexts[supi] =>
                \E r \in Requests :
                  /\ pc[r] = "insert" /\ pc'[r] = "count"
                  /\ req[r].supi = supi /\ req[r].type # "initial"]_vars
  BY OverwriteStep
<1> QED
  BY <1>1, <1>2, <1>3, PTL DEF Spec, InitialNeverOverwrites

(***************************************************************************)
(* The registry.                                                           *)
(***************************************************************************)
(* At most one registration is between its insertion and its count.        *)
LEMMA CountingSmall ==
  ASSUME IInv
  PROVE  /\ IsFiniteSet(Counting)
         /\ \A r \in Counting : Counting = {r}
         /\ Cardinality(Counting) \in {0, 1}
<1>1. \A r \in Counting : Counting = {r}
  BY DEF IInv, MutexDiscipline, Holders, Counting
<1>2. CASE Counting = {}
  BY <1>2, FS_EmptySet
<1>3. CASE \E r \in Counting : TRUE
  BY <1>1, <1>3, FS_Singleton
<1> QED
  BY <1>1, <1>2, <1>3

(* What every step does to the contexts and the count.                     *)
LEMMA InsertStep ==
  ASSUME IInv, NEW r \in Requests, RegisterInserts(r)
  PROVE  /\ req[r].supi \in Supis
         /\ Cardinality(Counting) = 0 /\ Cardinality(Counting') = 1
<1>1. req[r].supi \in Supis
  BY ContentsTyped DEF IInv, RegisterInserts, Placed, TypeOK
<1>2. Counting = {}
  BY DEF RegisterInserts, IInv, MutexDiscipline, Holders, Counting
<1>3. Counting' = {r}
  BY <1>2 DEF RegisterInserts, MovesTo, IInv, TypeOK, Counting
<1> QED
  BY <1>1, <1>2, <1>3, FS_EmptySet, FS_Singleton

LEMMA CountStep ==
  ASSUME IInv, NEW r \in Requests, RegisterCounts(r)
  PROVE  Cardinality(Counting) = 1 /\ Cardinality(Counting') = 0
<1>1. r \in Counting
  BY DEF RegisterCounts, Counting
<1>2. Counting = {r}
  BY <1>1, CountingSmall
<1>3. Counting' = {}
  BY <1>2 DEF RegisterCounts, MovesTo, Responds, IInv, TypeOK, Counting
<1> QED
  BY <1>2, <1>3, FS_EmptySet, FS_Singleton

LEMMA OtherStep ==
  ASSUME IInv, [Next]_vars,
         \A r \in Requests : ~ RegisterInserts(r) /\ ~ RegisterCounts(r)
  PROVE  Counting' = Counting /\ regCount' = regCount
<1>1. CASE UNCHANGED vars
  BY <1>1 DEF vars, amfVars, Counting
<1>2. CASE \E r \in Requests :
             \/ \E content \in Contents : Sends(r, content)
             \/ Accepts(r) \/ Dispatches(r) \/ Closes(r)
  <2>1. PICK r \in Requests :
             \/ \E content \in Contents : Sends(r, content)
             \/ Accepts(r) \/ Dispatches(r) \/ Closes(r)
    BY <1>2
  <2>2. Dispatches(r) => pc[r] = "accepted"
    BY DEF Dispatches, IInv, QueueInv
  <2> QED
    BY <2>1, <2>2 DEF Sends, Accepts, Dispatches, Closes, MovesTo, amfVars, Counting, IInv, TypeOK
<1>3. CASE \E r \in Requests :
             RegisterChecks(r) \/ DeleteErases(r) \/ MetricsReadsCount(r) \/ MetricsReadsSize(r)
  BY <1>3 DEF RegisterChecks, DeleteErases, MetricsReadsCount, MetricsReadsSize, MovesTo,
              Responds, amfVars, Counting, IInv, TypeOK
<1> QED
  BY <1>1, <1>2, <1>3 DEF Next, ServerStep

(* A step of the handlers is a step of the registry, or none at all: the   *)
(* insertion is the registration, the count that follows it stutters.      *)
LEMMA RegistryStep ==
  ASSUME IInv, [Next]_vars
  PROVE  [Registry!Next]_(Registry!vars)
<1> DEFINE total == regCount + Cardinality(Counting)
<1>0. regCount \in Nat /\ Cardinality(Counting) \in Nat
  BY CountingSmall DEF IInv, TypeOK
<1>1. ASSUME NEW r \in Requests, RegisterInserts(r)
      PROVE  Registry!Next
  <2>1. PICK supi \in Supis : supi = req[r].supi
    BY <1>1, InsertStep
  <2>2. ueContexts' = Put(ueContexts, supi, ngapCounter) /\ regCount' = regCount
    BY <1>1, <2>1 DEF RegisterInserts
  <2>3. total' = total + 1
    BY <1>0, <1>1, <2>2, InsertStep
  <2>4. \A s \in DOMAIN ueContexts : ueContexts[s] < ngapCounter
    BY DEF IInv, TypeOK
  <2>5. supi \in DOMAIN ueContexts' /\ ueContexts'[supi] = ngapCounter
    BY <2>2 DEF Put
  <2>6. Registry!Register(supi)
    BY <2>2, <2>3, <2>4, <2>5 DEF Registry!Register, Registry!Put, Put
  <2> QED
    BY <2>6 DEF Registry!Next
<1>2. ASSUME NEW r \in Requests, RegisterCounts(r)
      PROVE  UNCHANGED Registry!vars
  <2>1. UNCHANGED ueContexts /\ total' = total
    BY <1>0, <1>2, CountStep DEF RegisterCounts, RegCountAdvanced
  <2> QED
    BY <2>1 DEF Registry!vars
<1>3. ASSUME NEW r \in Requests, DeleteErases(r)
      PROVE  [Registry!Next]_(Registry!vars)
  <2>1. PICK supi : supi = req[r].supi
    OBVIOUS
  <2>2. ueContexts' = Erase(ueContexts, supi)
    BY <1>3, <2>1 DEF DeleteErases
  <2>3. total' = total
    <3>1. \A s \in Requests : ~ RegisterInserts(s) /\ ~ RegisterCounts(s)
      BY <1>3
         DEF DeleteErases, RegisterInserts, RegisterCounts, MovesTo, Responds, IInv, TypeOK
    <3> QED
      BY <3>1, OtherStep
  <2>4. CASE supi \in DOMAIN ueContexts
    <3>1. Registry!Deregister(supi)
      BY <2>2, <2>3, <2>4
         DEF Registry!Deregister, Registry!Erase, Registry!Restrict, Erase, Restrict
    <3>2. supi \in Supis
      BY <2>4 DEF IInv, TypeOK
    <3> QED
      BY <3>1, <3>2 DEF Registry!Next
  <2>5. CASE supi \notin DOMAIN ueContexts
    <3>1. UNCHANGED ueContexts
      BY <2>2, <2>5 DEF Erase, Restrict, IInv, TypeOK
    <3> QED
      BY <2>3, <3>1 DEF Registry!vars
  <2> QED
    BY <2>4, <2>5
<1>4. ASSUME \A r \in Requests :
               ~ RegisterInserts(r) /\ ~ RegisterCounts(r) /\ ~ DeleteErases(r)
      PROVE  UNCHANGED Registry!vars
  <2>1. UNCHANGED ueContexts
    BY <1>4
       DEF Next, ServerStep, Sends, Accepts, Dispatches, Closes, RegisterChecks,
           MetricsReadsCount, MetricsReadsSize, vars, amfVars
  <2>2. total' = total
    BY <1>4, OtherStep
  <2> QED
    BY <2>1, <2>2 DEF Registry!vars
<1> QED
  BY <1>1, <1>2, <1>3, <1>4

(* The handlers of the REST AMF implement the registry that those of the   *)
(* AMF implement.                                                          *)
THEOREM RestImplementsRegistry == Spec => ImplementsRegistry
<1>1. Init => IInv
  BY InitInvariant
<1>2. IInv /\ [Next]_vars => IInv'
  BY NextInvariant
<1>3. Init => Registry!Init
  <2> SUFFICES ASSUME Init PROVE Registry!Init
    OBVIOUS
  <2>1. Counting = {}
    BY DEF Init, Counting
  <2>2. Cardinality(Counting) = 0
    BY <2>1, FS_EmptySet
  <2> QED
    BY <2>2 DEF Init, EmptyMap, Registry!Init, Registry!EmptyMap
<1>4. IInv /\ [Next]_vars => [Registry!Next]_(Registry!vars)
  BY RegistryStep
<1> QED
  BY <1>1, <1>2, <1>3, <1>4, PTL DEF Spec, ImplementsRegistry, Registry!Spec

(***************************************************************************)
(* The scrape.                                                             *)
(***************************************************************************)
LEMMA InitCounted == Init => ContextsCounted /\ ReadsConsistent
<1> SUFFICES ASSUME Init PROVE ContextsCounted /\ ReadsConsistent
  OBVIOUS
<1>1. DOMAIN ueContexts = {} /\ Counting = {} /\ Answered = {} /\ regCount = 0
  BY RestAssumption DEF Init, EmptyMap, Counting, Answered
<1>2. ContextsCounted
  BY <1>1, FS_EmptySet DEF ContextsCounted
<1> QED
  BY <1>2 DEF Init, ReadsConsistent

(* Only the count of a registration answers it.                            *)
LEMMA AnsweredStep ==
  ASSUME IInv, [Next]_vars
  PROVE  /\ \A r \in Requests : RegisterCounts(r) =>
              r \notin Answered /\ Answered' = Answered \cup {r}
         /\ (\A r \in Requests : ~ RegisterCounts(r)) => Answered' = Answered
<1>1. ASSUME NEW r \in Requests, RegisterCounts(r)
      PROVE  r \notin Answered /\ Answered' = Answered \cup {r}
  BY <1>1, RestAssumption DEF RegisterCounts, Responds, Answered, IInv, TypeOK, Placed
<1>2. ASSUME NEW r \in Requests,
             RegisterChecks(r) \/ DeleteErases(r) \/ MetricsReadsSize(r)
      PROVE  Answered' = Answered
  <2>1. pc[r] # "responded"
    BY <1>2 DEF RegisterChecks, DeleteErases, MetricsReadsSize
  <2>2. status[r] = None /\ status \in [Requests -> {None, 200, 201}]
    BY <2>1 DEF IInv, TypeOK, Placed
  <2>3. status' = status \/ status' = [status EXCEPT ![r] = 200]
    BY <1>2 DEF RegisterChecks, DeleteErases, MetricsReadsSize, Responds
  <2> QED
    BY <2>2, <2>3, RestAssumption DEF Answered
<1>3. ASSUME \A r \in Requests :
               /\ ~ RegisterCounts(r) /\ ~ RegisterChecks(r)
               /\ ~ DeleteErases(r) /\ ~ MetricsReadsSize(r)
      PROVE  Answered' = Answered
  BY <1>3
     DEF Next, ServerStep, Sends, Accepts, Dispatches, Closes, RegisterInserts,
         MetricsReadsCount, vars, Answered
<1> QED
  BY <1>1, <1>2, <1>3

(* A context is added with its registration among those being counted.     *)
LEMMA NextContextsCounted ==
  ASSUME IInv, ContextsCounted, [Next]_vars
  PROVE  ContextsCounted'
<1> DEFINE domain == DOMAIN ueContexts
<1>0. /\ regCount \in Nat /\ Cardinality(Counting) \in Nat
      /\ IsFiniteSet(domain) /\ Cardinality(domain) \in Nat
      /\ Cardinality(domain) <= regCount + Cardinality(Counting)
  BY CountingSmall, FS_CardinalityType DEF IInv, TypeOK, ContextsCounted
<1>1. IsFiniteSet(Answered) /\ regCount = Cardinality(Answered)
  BY DEF ContextsCounted
<1>2. ASSUME NEW r \in Requests, RegisterInserts(r)
      PROVE  ContextsCounted'
  <2>1. PICK supi : supi = req[r].supi
    OBVIOUS
  <2>2. domain' = domain \cup {supi} /\ regCount' = regCount
    BY <1>2, <2>1 DEF RegisterInserts, Put
  <2>3. IsFiniteSet(domain') /\ Cardinality(domain') <= Cardinality(domain) + 1
    BY <1>0, <2>2, FS_AddElement
  <2>4. Cardinality(Counting) = 0 /\ Cardinality(Counting') = 1
    BY <1>2, InsertStep
  <2>5. Cardinality(domain') \in Nat
    BY <2>3, FS_CardinalityType
  <2>6. Answered' = Answered
    BY <1>2 DEF RegisterInserts, Answered
  <2> QED
    BY <1>0, <1>1, <2>2, <2>3, <2>4, <2>5, <2>6 DEF ContextsCounted
<1>3. ASSUME NEW r \in Requests, RegisterCounts(r)
      PROVE  ContextsCounted'
  <2>1. domain' = domain /\ regCount' = regCount + 1
    BY <1>3 DEF RegisterCounts, RegCountAdvanced
  <2>2. Cardinality(Counting) = 1 /\ Cardinality(Counting') = 0
    BY <1>3, CountStep
  <2>3. IsFiniteSet(Answered') /\ Cardinality(Answered') = Cardinality(Answered) + 1
    BY <1>3, <1>1, AnsweredStep, FS_AddElement
  <2> QED
    BY <1>0, <1>1, <2>1, <2>2, <2>3 DEF ContextsCounted
<1>4. ASSUME \A r \in Requests : ~ RegisterInserts(r) /\ ~ RegisterCounts(r)
      PROVE  ContextsCounted'
  <2>1. Counting' = Counting /\ regCount' = regCount
    BY <1>4, OtherStep
  <2>2. domain' \subseteq domain
    BY <1>4
       DEF Next, ServerStep, Sends, Accepts, Dispatches, Closes, RegisterChecks, DeleteErases,
           Erase, Restrict, MetricsReadsCount, MetricsReadsSize, vars, amfVars
  <2>3. IsFiniteSet(domain') /\ Cardinality(domain') <= Cardinality(domain)
    BY <1>0, <2>2, FS_Subset
  <2>4. Cardinality(domain') \in Nat
    BY <2>3, FS_CardinalityType
  <2>5. Answered' = Answered
    BY <1>4, AnsweredStep
  <2> QED
    BY <1>0, <1>1, <2>1, <2>3, <2>4, <2>5 DEF ContextsCounted
<1> QED
  BY <1>2, <1>3, <1>4

(* The contexts a scrape finds are those counted when it read the counter, *)
(* and of those registered meanwhile no more than there are.               *)
LEMMA SizeRead ==
  ASSUME IInv, ContextsCounted, NEW before \in SUBSET Answered
  PROVE  Cardinality(DOMAIN ueContexts) <=
           Cardinality(before) + Cardinality((Answered \cup Counting) \ before)
<1> DEFINE registered == Answered \cup Counting
           during == registered \ before
<1>1. Answered \cap Counting = {}
  BY RestAssumption DEF Answered, Counting, IInv, Placed
<1>2. /\ IsFiniteSet(Answered) /\ IsFiniteSet(Counting) /\ IsFiniteSet(registered)
      /\ Cardinality(registered) = Cardinality(Answered) + Cardinality(Counting)
  <2>1. /\ IsFiniteSet(Answered) /\ IsFiniteSet(Counting)
        /\ Cardinality(Answered) \in Nat /\ Cardinality(Counting) \in Nat
    BY CountingSmall, FS_CardinalityType DEF ContextsCounted
  <2>2. IsFiniteSet(registered)
    BY <2>1, FS_Union
  <2>3. Cardinality(registered) =
          Cardinality(Answered) + Cardinality(Counting) - Cardinality(Answered \cap Counting)
    BY <2>1, FS_Union
  <2>4. Cardinality(Answered \cap Counting) = 0
    BY <1>1, FS_EmptySet
  <2> QED
    BY <2>1, <2>2, <2>3, <2>4
<1>3. IsFiniteSet(before) /\ IsFiniteSet(during)
  BY <1>2, FS_Subset
<1>4. Cardinality(registered) = Cardinality(before) + Cardinality(during)
  <2>1. before \cup during = registered /\ before \cap during = {}
    OBVIOUS
  <2>2. Cardinality(before) \in Nat /\ Cardinality(during) \in Nat
    BY <1>3, FS_CardinalityType
  <2> QED
    BY <1>3, <2>1, <2>2, FS_Union, FS_EmptySet
<1> QED
  BY <1>2, <1>4 DEF ContextsCounted

LEMMA NextReadsConsistent ==
  ASSUME IInv, ContextsCounted, ReadsConsistent, [Next]_vars
  PROVE  ReadsConsistent'
<1>1. Answered \subseteq Answered'
  BY AnsweredStep
<1>2. ASSUME NEW r \in Requests, MetricsReadsCount(r)
      PROVE  ReadsConsistent'
  <2>1. /\ shown' = [shown EXCEPT ![r] = [regs |-> regCount, before |-> Answered]]
        /\ pc' = [pc EXCEPT ![r] = "size"] /\ req' = req
    BY <1>2 DEF MetricsReadsCount, MovesTo
  <2>2. regCount = Cardinality(Answered)
    BY DEF ContextsCounted
  <2> QED
    BY <1>1, <2>1, <2>2 DEF ReadsConsistent, IInv, TypeOK
<1>3. ASSUME NEW r \in Requests, MetricsReadsSize(r)
      PROVE  ReadsConsistent'
  <2> DEFINE before == shown[r].before
             ues == Cardinality(DOMAIN ueContexts)
             during == Cardinality((Answered \cup Counting) \ before)
  <2>1. before \in SUBSET Answered /\ shown[r].regs = Cardinality(before)
    BY <1>3 DEF MetricsReadsSize, ReadsConsistent
  <2>2. ues <= shown[r].regs + during
    BY <2>1, SizeRead
  <2>3. /\ shown' = [shown EXCEPT ![r] = [regs |-> shown[r].regs, ues |-> ues, during |-> during]]
        /\ pc' = [pc EXCEPT ![r] = "responded"] /\ req' = req
    BY <1>3 DEF MetricsReadsSize, MovesTo, Responds, ReadsConsistent
  <2> QED
    BY <1>1, <2>2, <2>3 DEF ReadsConsistent, IInv, TypeOK
<1>4. ASSUME \A r \in Requests : ~ MetricsReadsCount(r) /\ ~ MetricsReadsSize(r)
      PROVE  ReadsConsistent'
  <2>1. shown' = shown
    BY <1>4
       DEF Next, ServerStep, Sends, Accepts, Dispatches, Closes, RegisterChecks, RegisterInserts,
           RegisterCounts, DeleteErases, vars
  <2>2. ASSUME NEW s \in Requests, pc'[s] = "size"
        PROVE  pc[s] = "size"
    BY <1>4, <2>2
       DEF Next, ServerStep, Sends, Accepts, Dispatches, Closes, RegisterChecks, RegisterInserts,
           RegisterCounts, DeleteErases, MovesTo, Responds, vars, IInv, TypeOK
  <2>3. ASSUME NEW s \in Requests, pc'[s] = "responded", req'[s].kind = "metrics"
        PROVE  pc[s] = "responded" /\ req[s].kind = "metrics"
    <3>1. \A r \in Requests : RegisterCounts(r) => req[r].kind = "register"
      BY DEF RegisterCounts, IInv, Placed
    <3> QED
      BY <1>4, <2>3, <3>1
         DEF Next, ServerStep, Sends, Accepts, Dispatches, Closes, RegisterChecks,
             RegisterInserts, RegisterCounts, DeleteErases, MovesTo, Responds, vars, IInv, TypeOK
  <2> QED
    BY <1>1, <2>1, <2>2, <2>3 DEF ReadsConsistent
<1> QED
  BY <1>2, <1>3, <1>4

(* Wherever the two unguarded reads of a scrape fall among the handlers,   *)
(* the page shows no more UEs than registrations and those that were       *)
(* served while it was made.                                               *)
THEOREM RestScrapeConsistent == Spec => []ScrapeConsistent
<1>1. Init => IInv /\ ContextsCounted /\ ReadsConsistent
  BY InitInvariant, InitCounted
<1>2. IInv /\ ContextsCounted /\ ReadsConsistent /\ [Next]_vars
        => IInv' /\ ContextsCounted' /\ ReadsConsistent'
  BY NextInvariant, NextContextsCounted, NextReadsConsistent
<1>3. IInv /\ ReadsConsistent => ScrapeConsistent
  BY DEF IInv, Placed, ReadsConsistent, ScrapeConsistent
<1> QED
  BY <1>1, <1>2, <1>3, PTL DEF Spec

(***************************************************************************)
(* The benchmark.                                                          *)
(***************************************************************************)
BenchTyped ==
  /\ run \in 1 .. MaxRuns
  /\ transport \in {"grpc", "rest", "ended"}
  /\ index \in 0 .. NumRequests
  /\ blocked \in BOOLEAN
  /\ counted \subseteq Supis

(* The benchmark waits for the answer to the registration it has sent.     *)
BlockedOnOwn ==
  blocked =>
    /\ index < NumRequests
    /\ transport = "rest" => req[Current] = Registration(index, "initial")

(* The benchmark never asks for a removal.                                 *)
BenchOnlyRegisters ==
  \A r \in BenchRequests : req[r] # None => req[r].kind = "register"

RemovalAsked(ue) == \E r \in OtherRequests : req[r] = Removal(ue)

(* A registration that is inserted or answered has left a context, which   *)
(* only a removal takes away.                                              *)
AnsweredRegistered ==
  \A r \in Requests :
    /\ pc[r] = "count" \/ status[r] # None
    /\ req[r].kind = "register"
    => req[r].supi \in DOMAIN ueContexts \/ RemovalAsked(req[r].supi)

CountedInLoop ==
  /\ transport = "grpc" => counted \subseteq amfUes
  /\ transport = "rest" => \A ue \in counted : ue \in DOMAIN ueContexts \/ RemovalAsked(ue)
  /\ transport = "ended" => counted = {}

BenchInv ==
  /\ IInv
  /\ BenchTyped /\ BlockedOnOwn /\ BenchOnlyRegisters
  /\ AnsweredRegistered /\ CountedInLoop

LEMMA BenchContents ==
  /\ Requests = BenchRequests \cup OtherRequests
  /\ BenchRequests \cap OtherRequests = {}
  /\ \A i \in 0 .. NumRequests : i # NumRequests => i \in Supis
  /\ \A ue \in Supis : /\ Registration(ue, "initial") \in Contents
                       /\ Registration(ue, "initial").kind = "register"
                       /\ Registration(ue, "initial").supi = ue
                       /\ Registration(ue, "initial") # None
                       /\ Removal(ue) # None
  /\ \A content \in Contents : content.kind = "delete" => content = Removal(content.supi)
<1>1. NumRequests \in Nat /\ Supis = 0 .. NumRequests - 1 /\ "initial" \in RegTypes
  BY BenchAssumption
<1>2. \A ue \in Supis : /\ Registration(ue, "initial") \in Contents /\ Removal(ue) \in Contents
                        /\ Registration(ue, "initial").kind = "register"
                        /\ Registration(ue, "initial").supi = ue
  BY <1>1 DEF Contents, Registration, Removal
<1>3. \A content \in Contents : content.kind = "delete" => content = Removal(content.supi)
  BY DEF Contents, Registration, Removal, Scrape
<1> QED
  BY <1>1, <1>2, <1>3, BenchAssumption, RestAssumption

(* What the benchmark, other clients and the server do to the REST AMF is  *)
(* what RestAmf allows.                                                    *)
LEMMA BenchStepIsAllowed ==
  ASSUME BenchInv, [BenchNext]_allVars
  PROVE  [Next]_vars
<1>1. CASE \/ GrpcCalls \/ GrpcEnds \/ RestReturns \/ RestGivesUp \/ LoopEnds
           \/ UNCHANGED allVars
  BY <1>1
     DEF GrpcCalls, GrpcEnds, AmfServes, GrpcBreaks, RestReturns, RestGivesUp, LoopEnds, allVars
<1>2. CASE RestPosts
  <2>1. index \in Supis
    BY <1>2, BenchContents, BenchAssumption DEF RestPosts, BenchInv, BenchTyped
  <2>2. Current \in Requests
    BY <2>1, BenchAssumption DEF Current, BenchRequests, BenchInv, BenchTyped
  <2>3. Sends(Current, Registration(index, "initial"))
    BY <1>2 DEF RestPosts
  <2> QED
    BY <2>1, <2>2, <2>3, BenchContents DEF Next
<1>3. CASE OtherClient \/ \E r \in Requests : ServerStep(r)
  BY <1>3, BenchContents DEF OtherClient, Next
<1> QED
  BY <1>1, <1>2, <1>3 DEF BenchNext, Bench

(* Only a removal takes a context away, and only other clients ask for one. *)
LEMMA ContextsGoByRemoval ==
  ASSUME BenchInv, NEW r \in Requests, ServerStep(r), NEW supi \in DOMAIN ueContexts
  PROVE  supi \in DOMAIN ueContexts' \/ RemovalAsked(supi)
<1>1. CASE DeleteErases(r)
  <2>1. req[r] # None /\ req[r].kind = "delete"
    BY <1>1 DEF DeleteErases, BenchInv, IInv, Placed
  <2>2. r \in OtherRequests
    BY <2>1, BenchContents DEF BenchInv, BenchOnlyRegisters
  <2>3. req[r] = Removal(req[r].supi)
    BY <2>1, BenchContents DEF BenchInv, IInv, TypeOK
  <2>4. supi # req[r].supi => supi \in DOMAIN ueContexts'
    BY <1>1 DEF DeleteErases, Erase, Restrict
  <2> QED
    BY <2>2, <2>3, <2>4 DEF RemovalAsked
<1>2. CASE ~ DeleteErases(r)
  BY <1>2 DEF ServerStep, Accepts, Dispatches, Closes, RegisterChecks, RegisterInserts, Put,
              RegisterCounts, MetricsReadsCount, MetricsReadsSize, amfVars
<1> QED
  BY <1>1, <1>2

(* A registration is answered when a context is found or has been stored.  *)
LEMMA AnsweredByServer ==
  ASSUME BenchInv, NEW r \in Requests, ServerStep(r),
         NEW s \in Requests, pc'[s] = "count" \/ status'[s] # None, req[s].kind = "register"
  PROVE  \/ pc[s] = "count" \/ status[s] # None
         \/ req[s].supi \in DOMAIN ueContexts /\ req[s].supi \in DOMAIN ueContexts'
         \/ req[s].supi \in DOMAIN ueContexts'
<1> USE DEF BenchInv, IInv
<1>1. CASE RegisterChecks(r)
  BY <1>1 DEF RegisterChecks, Refused, MovesTo, Responds, amfVars, TypeOK
<1>2. CASE RegisterInserts(r)
  BY <1>2 DEF RegisterInserts, Put, MovesTo, TypeOK
<1>3. CASE RegisterCounts(r)
  BY <1>3 DEF RegisterCounts, MovesTo, Responds, TypeOK
<1>4. CASE DeleteErases(r) \/ MetricsReadsCount(r) \/ MetricsReadsSize(r)
  BY <1>4 DEF DeleteErases, MetricsReadsCount, MetricsReadsSize, MovesTo, Responds, Placed, TypeOK
<1>5. CASE Accepts(r) \/ Dispatches(r) \/ Closes(r)
  BY <1>5 DEF Accepts, Dispatches, Closes, MovesTo, TypeOK
<1> QED
  BY <1>1, <1>2, <1>3, <1>4, <1>5 DEF ServerStep

LEMMA ServerStepBench ==
  ASSUME BenchInv, NEW r \in Requests, ServerStep(r), UNCHANGED benchVars, IInv'
  PROVE  BenchInv'
<1>1. req' = req
  BY DEF ServerStep, Accepts, Dispatches, Closes, RegisterChecks, RegisterInserts,
         RegisterCounts, DeleteErases, MetricsReadsCount, MetricsReadsSize
<1>2. \A ue : RemovalAsked(ue)' = RemovalAsked(ue)
  BY <1>1 DEF RemovalAsked
<1>3. BenchTyped' /\ BlockedOnOwn' /\ BenchOnlyRegisters'
  BY <1>1 DEF BenchInv, BenchTyped, BlockedOnOwn, BenchOnlyRegisters, Current, benchVars
<1>4. AnsweredRegistered'
  <2> SUFFICES ASSUME NEW s \in Requests, pc'[s] = "count" \/ status'[s] # None,
                      req[s].kind = "register"
               PROVE  req[s].supi \in DOMAIN ueContexts' \/ RemovalAsked(req[s].supi)
    BY <1>1, <1>2 DEF AnsweredRegistered
  <2>1. CASE pc[s] = "count" \/ status[s] # None
    <3>1. req[s].supi \in DOMAIN ueContexts \/ RemovalAsked(req[s].supi)
      BY <2>1 DEF BenchInv, AnsweredRegistered
    <3> QED
      BY <3>1, ContextsGoByRemoval
  <2> QED
    BY <2>1, AnsweredByServer
<1>5. CountedInLoop'
  BY <1>2, ContextsGoByRemoval DEF BenchInv, CountedInLoop, benchVars
<1> QED
  BY <1>3, <1>4, <1>5 DEF BenchInv

(* A request that is sent is new, so that nothing is known of it yet.      *)
LEMMA SendsBench ==
  ASSUME BenchInv, NEW r \in Requests, NEW content \in Contents, Sends(r, content)
  PROVE  /\ req[r] = None /\ ueContexts' = ueContexts
         /\ \A s \in Requests : s # r => req'[s] = req[s]
         /\ req'[r] = content
         /\ \A ue \in Supis : RemovalAsked(ue) => RemovalAsked(ue)'
         /\ AnsweredRegistered'
<1> USE DEF BenchInv, IInv
<1>1. /\ req[r] = None /\ status[r] = None /\ ueContexts' = ueContexts /\ status' = status
      /\ pc'[r] = "sent" /\ req'[r] = content
      /\ \A s \in Requests : s # r => req'[s] = req[s] /\ pc'[s] = pc[s]
  BY DEF Sends, MovesTo, amfVars, Placed, TypeOK
<1>2. \A ue \in Supis : RemovalAsked(ue) => RemovalAsked(ue)'
  BY <1>1, BenchContents DEF RemovalAsked
<1>3. AnsweredRegistered'
  <2> SUFFICES ASSUME NEW s \in Requests, pc'[s] = "count" \/ status'[s] # None,
                      req'[s].kind = "register"
               PROVE  (req[s].supi \in DOMAIN ueContexts \/ RemovalAsked(req[s].supi))'
    BY DEF AnsweredRegistered
  <2>1. s # r /\ req'[s] = req[s] /\ (pc[s] = "count" \/ status[s] # None)
    BY <1>1
  <2>2. req[s].supi \in DOMAIN ueContexts \/ RemovalAsked(req[s].supi)
    BY <2>1 DEF AnsweredRegistered
  <2>3. req[s].supi \in Supis
    BY <2>1, ContentsTyped DEF Placed, TypeOK
  <2> DEFINE ue == req[s].supi
  <2>4. ue' = ue /\ (ue \in DOMAIN ueContexts' \/ RemovalAsked(ue))
    BY <1>1, <2>1, <2>2
  <2>5. CASE RemovalAsked(ue)
    <3>1. PICK o \in OtherRequests : req[o] = Removal(ue)
      BY <2>5 DEF RemovalAsked
    <3>2. o # r
      BY <1>1, <2>3, <3>1, BenchContents
    <3>3. req'[o] = Removal(ue')
      BY <1>1, <2>4, <3>1, <3>2, BenchContents
    <3> QED
      BY <3>3 DEF RemovalAsked
  <2> QED
    BY <2>4, <2>5
<1> QED
  BY <1>1, <1>2, <1>3

LEMMA OtherClientBench ==
  ASSUME BenchInv, OtherClient, UNCHANGED benchVars, IInv'
  PROVE  BenchInv'
<1>1. PICK r \in OtherRequests, content \in Contents : Sends(r, content)
  BY DEF OtherClient
<1>2. r \in Requests /\ r \notin BenchRequests
  BY BenchContents
<1>3. \A s \in BenchRequests : req'[s] = req[s]
  BY <1>1, <1>2, SendsBench, BenchContents
<1>4. blocked => Current \in BenchRequests
  BY BenchAssumption DEF BenchInv, BlockedOnOwn, BenchTyped, Current, BenchRequests
<1>5. BenchTyped' /\ BlockedOnOwn' /\ BenchOnlyRegisters'
  BY <1>3, <1>4 DEF BenchInv, BenchTyped, BlockedOnOwn, BenchOnlyRegisters, Current, benchVars
<1>6. CountedInLoop'
  BY <1>1, <1>2, SendsBench DEF BenchInv, BenchTyped, CountedInLoop, benchVars
<1> QED
  BY <1>1, <1>2, <1>5, <1>6, SendsBench DEF BenchInv

LEMMA PostsBench ==
  ASSUME BenchInv, RestPosts, IInv'
  PROVE  BenchInv'
<1>1. index \in Supis /\ index < NumRequests
  BY BenchContents, BenchAssumption DEF RestPosts, BenchInv, BenchTyped
<1>2. Current \in BenchRequests /\ Current \in Requests
  BY <1>1, BenchAssumption DEF Current, BenchRequests, BenchInv, BenchTyped
<1> DEFINE content == Registration(index, "initial")
<1>3. content \in Contents /\ content.kind = "register" /\ Sends(Current, content)
  BY <1>1, BenchContents DEF RestPosts
<1>4. UNCHANGED <<run, transport, index, latencies, counted, amfUes>> /\ blocked' = TRUE
  BY DEF RestPosts
<1>5. req'[Current] = content /\ \A s \in Requests : s # Current => req'[s] = req[s]
  BY <1>2, <1>3, SendsBench
<1>6. BenchTyped' /\ BlockedOnOwn' /\ BenchOnlyRegisters'
  <2>1. BenchTyped' /\ BlockedOnOwn'
    BY <1>1, <1>4, <1>5 DEF RestPosts, BenchInv, BenchTyped, BlockedOnOwn, Current
  <2>2. BenchOnlyRegisters'
    BY <1>3, <1>5, BenchContents DEF BenchInv, BenchOnlyRegisters
  <2> QED
    BY <2>1, <2>2
<1>7. CountedInLoop'
  BY <1>2, <1>3, <1>4, SendsBench DEF BenchInv, BenchTyped, CountedInLoop
<1> QED
  BY <1>2, <1>3, <1>6, <1>7, SendsBench DEF BenchInv

(* The loops and main leave the REST AMF alone; what they count they have  *)
(* been told.                                                              *)
LEMMA LoopsBench ==
  ASSUME BenchInv, GrpcCalls \/ GrpcEnds \/ RestReturns \/ RestGivesUp \/ LoopEnds, IInv'
  PROVE  BenchInv'
<1>1. UNCHANGED vars
  BY DEF GrpcCalls, GrpcEnds, AmfServes, GrpcBreaks, RestReturns, RestGivesUp, LoopEnds
<1>2. \A ue : RemovalAsked(ue)' = RemovalAsked(ue)
  BY <1>1 DEF RemovalAsked, vars
<1>3. BenchOnlyRegisters' /\ AnsweredRegistered'
  BY <1>1, <1>2 DEF BenchInv, BenchOnlyRegisters, AnsweredRegistered, vars, amfVars
<1>4. blocked => index \in Supis /\ Current \in Requests /\ index # NumRequests
  BY BenchContents, BenchAssumption
     DEF BenchInv, BlockedOnOwn, BenchTyped, Current, BenchRequests
<1>5. CASE GrpcCalls
  <2>1. BenchTyped' /\ BlockedOnOwn' /\ CountedInLoop'
    BY <1>5, BenchAssumption
       DEF GrpcCalls, BenchInv, BenchTyped, BlockedOnOwn, CountedInLoop
  <2> QED
    BY <1>3, <2>1 DEF BenchInv
<1>6. CASE GrpcEnds
  <2>1. amfUes \subseteq amfUes'
    BY <1>6 DEF GrpcEnds, AmfServes, GrpcBreaks
  <2>2. CASE UNCHANGED <<run, transport, index, blocked, latencies, counted>>
    <3>1. BenchTyped' /\ BlockedOnOwn'
      BY <1>1, <2>2 DEF BenchInv, BenchTyped, BlockedOnOwn, Current, vars
    <3>2. CountedInLoop'
      BY <1>1, <1>2, <2>1, <2>2 DEF BenchInv, CountedInLoop, vars, amfVars
    <3> QED
      BY <1>3, <3>1, <3>2 DEF BenchInv
  <2>3. ASSUME NEW success \in BOOLEAN, transport = "grpc", blocked, Concludes(success),
               success => index \in amfUes'
        PROVE  BenchInv'
    <3>1. index \in Supis /\ index + 1 \in 0 .. NumRequests
      BY <1>4, <2>3, BenchAssumption DEF BenchInv, BenchTyped
    <3>2. /\ counted' \in {counted, counted \cup {index}}
          /\ counted' # counted => index \in amfUes'
          /\ UNCHANGED <<run, transport>> /\ index' = index + 1 /\ blocked' = FALSE
      BY <2>3 DEF Concludes
    <3>3. BenchTyped' /\ BlockedOnOwn' /\ CountedInLoop'
      BY <2>1, <2>3, <3>1, <3>2 DEF BenchInv, BenchTyped, BlockedOnOwn, CountedInLoop
    <3> QED
      BY <1>3, <3>3 DEF BenchInv
  <2>4. CASE GrpcBreaks
    BY <2>3, <2>4 DEF GrpcBreaks, Awaits
  <2>5. ASSUME NEW call \in grpcCalls, AmfServes(call), Awaits(call)
        PROVE  BenchInv'
    <3>1. amfUes' # amfUes => index \in amfUes'
      BY <2>5 DEF AmfServes, Awaits, Current
    <3>2. Concludes(amfUes' # amfUes)
      BY <2>5 DEF AmfServes
    <3> QED
      BY <2>3, <2>5, <3>1, <3>2 DEF Awaits
  <2> QED
    BY <1>6, <2>2, <2>4, <2>5 DEF GrpcEnds, AmfServes
<1>7. CASE RestReturns \/ RestGivesUp
  <2>1. /\ transport = "rest" /\ blocked
        /\ Concludes(ResultCounts(Current)) /\ UNCHANGED amfUes
    BY <1>7 DEF RestReturns, RestGivesUp
  <2>2. index + 1 \in 0 .. NumRequests
    BY <1>4, <2>1, BenchAssumption DEF BenchInv, BlockedOnOwn, BenchTyped
  <2>3. ResultCounts(Current) => index \in DOMAIN ueContexts \/ RemovalAsked(index)
    <3>1. req[Current].kind = "register" /\ req[Current].supi = index
      BY <1>4, <2>1, BenchContents DEF BenchInv, BlockedOnOwn
    <3>2. ResultCounts(Current) => status[Current] # None
      BY RestAssumption DEF ResultCounts
    <3> QED
      BY <1>4, <2>1, <3>1, <3>2 DEF BenchInv, AnsweredRegistered
  <2>4. BenchTyped' /\ BlockedOnOwn'
    BY <1>4, <2>1, <2>2 DEF Concludes, BenchInv, BenchTyped, BlockedOnOwn
  <2>5. CountedInLoop'
    BY <1>1, <1>2, <2>1, <2>2, <2>3
       DEF Concludes, BenchInv, CountedInLoop, vars, amfVars
  <2> QED
    BY <1>3, <2>4, <2>5 DEF BenchInv
<1>8. CASE LoopEnds
  <2>1. ~ blocked
    BY <1>4, <1>8 DEF LoopEnds
  <2>2. BenchTyped' /\ BlockedOnOwn'
    BY <1>8, <2>1, BenchAssumption DEF LoopEnds, BenchInv, BenchTyped, BlockedOnOwn
  <2>3. CountedInLoop'
    BY <1>8 DEF LoopEnds, CountedInLoop
  <2> QED
    BY <1>3, <2>2, <2>3 DEF BenchInv
<1> QED
  BY <1>5, <1>6, <1>7, <1>8

LEMMA NextBench ==
  ASSUME BenchInv, [BenchNext]_allVars
  PROVE  BenchInv'
<1>1. IInv'
  BY BenchStepIsAllowed, NextInvariant DEF BenchInv
<1>2. CASE UNCHANGED allVars
  <2>1. \A ue : RemovalAsked(ue)' = RemovalAsked(ue)
    BY <1>2 DEF RemovalAsked, allVars, vars
  <2> QED
    BY <1>1, <1>2, <2>1
       DEF BenchInv, BenchTyped, BlockedOnOwn, Current, BenchOnlyRegisters, AnsweredRegistered,
           CountedInLoop, allVars, vars, amfVars, benchVars
<1> QED
  BY <1>1, <1>2, ServerStepBench, OtherClientBench, PostsBench, LoopsBench DEF BenchNext, Bench

LEMMA InitBench == BenchInit => BenchInv
<1> SUFFICES ASSUME BenchInit PROVE BenchInv
  OBVIOUS
<1>1. IInv
  BY InitInvariant DEF BenchInit
<1>2. BenchTyped
  <2>1. blocked \in BOOLEAN /\ counted \subseteq Supis
    BY Zenon DEF BenchInit
  <2>2. run \in 1 .. MaxRuns /\ index \in 0 .. NumRequests
    BY BenchAssumption DEF BenchInit
  <2> QED
    BY <2>1, <2>2 DEF BenchInit, BenchTyped
<1>3. BlockedOnOwn /\ CountedInLoop
  BY DEF BenchInit, BlockedOnOwn, CountedInLoop
<1>4. BenchOnlyRegisters /\ AnsweredRegistered
  BY BenchContents DEF BenchInit, Init, BenchOnlyRegisters, AnsweredRegistered
<1> QED
  BY <1>1, <1>2, <1>3, <1>4 DEF BenchInv

LEMMA BenchInvariant == BenchSpec => []BenchInv
<1>1. BenchInv /\ [BenchNext]_allVars => BenchInv'
  BY NextBench
<1> QED
  BY <1>1, InitBench, PTL DEF BenchSpec

(* Whatever the benchmark and the other clients do, in whatever order the  *)
(* server serves it: a UE the benchmark counts as a success is registered, *)
(* unless somebody has asked for its removal.                              *)
THEOREM CountedAreRegistered == BenchSpec => []CountedMeansRegistered
<1>1. BenchInv => CountedMeansRegistered
  BY DEF BenchInv, BenchTyped, CountedInLoop, RemovalAsked, CountedMeansRegistered
<1> QED
  BY <1>1, BenchInvariant, PTL

(* With the benchmark for a client the REST AMF behaves as RestAmf says,   *)
(* so that it has the properties proved of that.                           *)
THEOREM BenchUsesRestAmf == BenchSpec => Spec
<1>1. BenchInit => Init
  BY DEF BenchInit
<1>2. BenchInv /\ [BenchNext]_allVars => [Next]_vars
  BY BenchStepIsAllowed
<1> QED
  BY <1>1, <1>2, BenchInvariant, PTL DEF BenchSpec, Spec

(* In the composition the registry is still implemented, no initial        *)
(* registration overwrites a context, and the scrapes are consistent.      *)
THEOREM BenchKeepsPromises ==
  BenchSpec => ImplementsRegistry /\ InitialNeverOverwrites /\ []ScrapeConsistent
BY BenchUsesRestAmf, RestImplementsRegistry, RestInitialNeverOverwrites, RestScrapeConsistent, PTL
===============================================================================
