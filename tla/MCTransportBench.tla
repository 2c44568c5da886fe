--------------------------- MODULE MCTransportBench ---------------------------
(* TransportBench on a small instance.  The other clients name the first   *)
(* UE only.  Of the calls to the gRPC AMF only the first may break; it is  *)
(* served before or after bench_rest, not during it, since the two AMFs    *)
(* share nothing.  The gRPC AMF refuses the UEs it has, and no others.     *)
EXTENDS TransportBench

MCSupis == 0 .. NumRequests - 1
MCRequests == BenchRequests \cup OtherRequests

First == <<1, 0>>

MCNext ==
  /\ BenchNext
  /\ \A r \in OtherRequests : req'[r] # None => req'[r].supi \in {0, None}
  /\ transport = "grpc" => grpcCalls' \subseteq {First} \cup IF blocked' THEN {Current'} ELSE {}
  /\ transport = "rest" => UNCHANGED grpcCalls
  /\ transport' = "grpc" => 0 .. index' - 1 \subseteq amfUes' \cup {call[2] : call \in grpcCalls'}

MCSpec == BenchInit /\ [][MCNext]_allVars /\ WF_allVars(Bench)
===============================================================================
