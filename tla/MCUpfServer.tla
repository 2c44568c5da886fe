------------------------------ MODULE MCUpfServer ------------------------------
(* UpfServer on a small instance.  MaxEstablished bounds the sessions that *)
(* are established.  The calls, which are interchangeable, are numbered in *)
(* the order of their arrival.  A scrape neither reads nor writes anything *)
(* the sessions touch: it is under way only until the second establishment *)
(* there is.                                                               *)
EXTENDS UpfServer

CONSTANT MaxEstablished

Packet(dst, protocol, port) ==
  [src |-> "ue1", dst |-> dst, protocol |-> protocol, port |-> port]

(* Forwarded by profiles 1 and 4, and by profile 4 only.                   *)
MCPackets == { Packet("public", "UDP", 32767), Packet("public", "TCP", 443) }

WebPackets ==
  { Packet(dst, "TCP", 443) : dst \in {"10/8", "172.16/12", "192.168/16", "public"} }

(* The tests of classify are those of PacketFilter, at every boundary.     *)
ASSUME RulesArePolicy ==
  \A dst \in {"10/8", "172.16/12", "192.168/16", "public"}, protocol \in {"UDP", "TCP", "ICMP"},
     port \in {0, 442, 443, 444, 1934, 1935, 1936, 16383, 16384, 32767, 32768, 65536},
     qos \in 0 .. 9 :
    LET p == Packet(dst, protocol, port)
    IN  ProfileVerdict(p, qos).action = "FORWARD" <=> Filter!Passes(p, qos)

MCNext ==
  /\ Next
  /\ sessionIdCounter' <= MaxEstablished + 1
  /\ scrape' # EmptyMap => sessionIdCounter' <= 2
  /\ \A c \in Calls \ {1} : handler'[c] # "absent" => handler'[c - 1] # "absent"

MCSpec == Init /\ [][MCNext]_vars /\ Fairness
===============================================================================
