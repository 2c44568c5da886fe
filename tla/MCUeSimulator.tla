----------------------------- MODULE MCUeSimulator -----------------------------
(* UeSimulator on a small instance: MaxCalls bounds the calls that are on  *)
(* their way to the AMF, with and without a client.                        *)
EXTENDS UeSimulator

CONSTANT MaxCalls

MCNext == Next /\ Cardinality(calls') <= MaxCalls
MCSpec == Init /\ [][MCNext]_vars

(* The percentiles of compute_stats: for every number of samples up to 250 *)
(* the index is in range, the percentiles are in order, and at least p     *)
(* percent of the samples are at or before the one taken.                  *)
PercentileIndex(n, p) == (n * p) \div 100

ASSUME PercentilesSound ==
  \A n \in 1 .. 250 :
    /\ PercentileIndex(n, 50) <= PercentileIndex(n, 95)
    /\ PercentileIndex(n, 95) <= PercentileIndex(n, 99)
    /\ PercentileIndex(n, 99) < n
    /\ \A p \in {50, 95, 99} : 100 * (PercentileIndex(n, p) + 1) >= p * n
===============================================================================
