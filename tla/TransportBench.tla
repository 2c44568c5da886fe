---------------------------- MODULE TransportBench ----------------------------
(***************************************************************************)
(* The transport benchmark (transport-bench/bench_compare.cpp) against the *)
(* gRPC AMF and the REST AMF: for each transport a loop of one blocking    *)
(* request per UE, in the order of the UEs, whose latency is kept and      *)
(* which is counted or not.  The program may be run again against the same *)
(* servers.                                                                *)
(*                                                                         *)
(* The REST side is RestAmf, with other HTTP clients beside the benchmark. *)
(* Of the gRPC AMF only the UEs it has registered are kept: UeRegistry is  *)
(* what it promises.  A call to it may be kept waiting at ctx_mutex_, may  *)
(* break, and may be served after it has broken.                           *)
(***************************************************************************)
EXTENDS Integers, RestAmf

CONSTANTS
  NumRequests,    (* NUM_REQUESTS                                           *)
  MaxRuns,        (* bound: executions of the program                       *)
  OtherRequests   (* requests of other clients to the REST AMF              *)

(* The request for a UE: its place in Requests tells the run and the UE.   *)
BenchRequests == (1 .. MaxRuns) \X (0 .. NumRequests - 1)

ASSUME BenchAssumption ==
  /\ NumRequests \in Nat /\ MaxRuns \in Nat \ {0}
  /\ Requests = BenchRequests \cup OtherRequests
  /\ BenchRequests \cap OtherRequests = {}
  /\ Supis = 0 .. NumRequests - 1
  /\ "initial" \in RegTypes

VARIABLES
  run,         (* the execution of the program under way                    *)
  transport,   (* "grpc", "rest", or "ended" after the last run             *)
  index,       (* i, the UE whose turn it is                                *)
  blocked,     (* the loop waits for the answer to its request              *)
  latencies,   (* samples in lats                                           *)
  counted,     (* UEs behind success, in the loop under way                 *)
  amfUes,      (* UEs the gRPC AMF has registered                           *)
  grpcCalls    (* calls the gRPC AMF may still serve, as <<run, UE>>        *)

benchVars == <<run, transport, index, blocked, latencies, counted, amfUes, grpcCalls>>
allVars == <<vars, benchVars>>

BenchInit ==
  /\ Init
  /\ run = 1 /\ transport = "grpc"
  /\ index = 0 /\ blocked = FALSE /\ latencies = 0
  /\ counted = {}
  /\ amfUes = {} /\ grpcCalls = {}

(* The request of the loop body under way.                                 *)
Current == <<run, index>>

(* The loop body after the call: the sample, the count, the next UE.       *)
Concludes(success) ==
  /\ latencies' = latencies + 1
  /\ counted' = IF success THEN counted \cup {index} ELSE counted
  /\ index' = index + 1
  /\ blocked' = FALSE
  /\ UNCHANGED <<run, transport>>

(***************************************************************************)
(* bench_grpc.  The call has no deadline: the loop waits until it is       *)
(* served or breaks.                                                       *)
(***************************************************************************)
GrpcCalls ==
  /\ transport = "grpc" /\ index < NumRequests /\ ~ blocked
  /\ grpcCalls' = grpcCalls \cup {Current}
  /\ blocked' = TRUE
  /\ UNCHANGED <<vars, run, transport, index, latencies, counted, amfUes>>

Awaits(call) == transport = "grpc" /\ blocked /\ call = Current

(* The AMF registers the UE, or refuses it: it has it already, or the UPF  *)
(* has failed.  Nobody may be waiting for the answer any more.             *)
AmfServes(call) ==
  /\ call \in grpcCalls
  /\ grpcCalls' = grpcCalls \ {call}
  /\ amfUes' \in {amfUes, amfUes \cup {call[2]}}
  /\ \/ Awaits(call) /\ Concludes(amfUes' # amfUes)
     \/ ~ Awaits(call) /\ UNCHANGED <<run, transport, index, blocked, latencies, counted>>
  /\ UNCHANGED vars

(* The client sees an error, which leaves open whether the AMF serves the  *)
(* call.                                                                   *)
GrpcBreaks ==
  /\ Awaits(Current)
  /\ Concludes(FALSE)
  /\ UNCHANGED <<vars, amfUes, grpcCalls>>

(***************************************************************************)
(* bench_rest.                                                             *)
(***************************************************************************)
RestPosts ==
  /\ transport = "rest" /\ index < NumRequests /\ ~ blocked
  /\ Sends(Current, Registration(index, "initial"))
  /\ blocked' = TRUE
  /\ UNCHANGED <<run, transport, index, latencies, counted, amfUes, grpcCalls>>

(* Mutated form: the result of the request is not tested for an error.     *)
AnyResult(r) == TRUE

(* res && (res->status == 200 || res->status == 201)                       *)
ResultCounts(r) == status[r] \in {200, 201}

RestReturns ==
  /\ transport = "rest" /\ blocked /\ status[Current] # None
  /\ Concludes(ResultCounts(Current))
  /\ UNCHANGED <<vars, amfUes, grpcCalls>>

(* Mutated form: the time limit is not set.                                *)
NoTimeLimit == FALSE

TimeLimitSet == TRUE

(* The connection or the read takes more than 5 seconds, or fails: the     *)
(* client closes its end and does not try again.                           *)
RestGivesUp ==
  /\ transport = "rest" /\ blocked /\ status[Current] = None /\ TimeLimitSet
  /\ Concludes(ResultCounts(Current))
  /\ UNCHANGED <<vars, amfUes, grpcCalls>>

(***************************************************************************)
(* main, which is executed again after it has ended.                       *)
(***************************************************************************)
LoopEnds ==
  /\ index = NumRequests
  /\ index' = 0 /\ latencies' = 0 /\ counted' = {}
  /\ \/ transport = "grpc" /\ transport' = "rest" /\ UNCHANGED run
     \/ transport = "rest" /\ run < MaxRuns /\ transport' = "grpc" /\ run' = run + 1
     \/ transport = "rest" /\ run = MaxRuns /\ transport' = "ended" /\ UNCHANGED run
  /\ UNCHANGED <<vars, blocked, amfUes, grpcCalls>>

(* What the client does by itself.                                         *)
Bench == GrpcCalls \/ RestPosts \/ RestReturns \/ RestGivesUp \/ LoopEnds

(* How a gRPC call ends, if it does.                                       *)
GrpcEnds == GrpcBreaks \/ \E call \in grpcCalls : AmfServes(call)

OtherClient ==
  \E r \in OtherRequests, content \in Contents : Sends(r, content)

BenchNext ==
  \/ Bench \/ GrpcEnds
  \/ OtherClient /\ UNCHANGED benchVars
  \/ \E r \in Requests : ServerStep(r) /\ UNCHANGED benchVars

(* The client goes on where it can; neither server need ever answer: the   *)
(* threads of one may all be taken, the other may be waiting for its UPF.  *)
BenchSpec == BenchInit /\ [][BenchNext]_allVars /\ WF_allVars(Bench)

(***************************************************************************)
(* Properties.                                                             *)
(***************************************************************************)
(* A UE counted as a success has a context, in this run and in a repeated  *)
(* one, where "already_registered" is counted too (status 200), unless     *)
(* some client has asked for its removal.                                  *)
CountedMeansRegistered ==
  \A ue \in counted :
    \/ transport = "grpc" /\ ue \in amfUes
    \/ transport = "rest" /\ ue \in DOMAIN ueContexts
    \/ \E r \in OtherRequests : req[r] = Removal(ue)

(* The benchmark ends, or hangs in a gRPC call, the only one it makes      *)
(* without a time limit: it never hangs on the REST AMF, which need not    *)
(* answer either.                                                          *)
HangsOnlyInGrpc == <>(transport = "ended") \/ <>[](transport = "grpc" /\ blocked)
===============================================================================
