----------------------------- MODULE ClassifyRules -----------------------------
(***************************************************************************)
(* The decision UpfServiceImpl::classify makes (upf/src/upf_server.cpp)    *)
(* about a packet once it has read the profile of the session.  A packet   *)
(* is a record [src, dst, protocol, port] in which dst stands for the part *)
(* of the destination the code looks at, its network: "10/8" for a dotted  *)
(* address that starts with "10.", and so on, "public" for any other.      *)
(* next_hop has the value 172.16.0.1 exactly when the action is FORWARD    *)
(* and is left out.                                                        *)
(***************************************************************************)
EXTENDS Naturals

Verdict(action, qos) == [action |-> action, qosClass |-> qos]

(* No route for the source address, or a session that is not active.       *)
NoSession == Verdict("DROP", 0)

BlockedDestination(dst) == dst = "10/8" \/ dst = "192.168/16"

MediaPort(port) == port >= 16384 /\ port <= 32767

Allowed(p, qos) ==
  /\ qos = 1 => p.protocol = "UDP" /\ MediaPort(p.port)
  /\ qos = 4 => p.port = 443 \/ p.port = 1935 \/ MediaPort(p.port)

ProfileVerdict(p, qos) ==
  Verdict(IF ~ BlockedDestination(p.dst) /\ Allowed(p, qos) THEN "FORWARD" ELSE "DROP", qos)
===============================================================================
