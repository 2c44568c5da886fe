----------------------------- MODULE PacketFilter -----------------------------
(***************************************************************************)
(* What the UPF promises about packets, with no session, no mutex, no pool *)
(* and no promise: each packet is judged once, by the profile its source   *)
(* address had at one moment between its arrival and its answer, and the   *)
(* answer is that judgement.  UpfServer implements it.                     *)
(***************************************************************************)
EXTENDS Naturals, StdMap

CONSTANTS
  Calls,        (* requests to classify a packet                            *)
  Packets,      (* [src, dst, protocol, port]                               *)
  UeIps,        (* source addresses                                         *)
  QosProfiles,  (* profiles a session can have                              *)
  None          (* no packet, no verdict                                    *)

VARIABLES
  profile,      (* source address -> profile, for the addresses in service  *)
  request,      (* call -> its packet                                       *)
  decision,     (* call -> verdict reached                                  *)
  answer        (* call -> verdict given                                    *)

vars == <<profile, request, decision, answer>>

(* The ports a profile lets through, and the protocols.                    *)
Media == 16384 .. 32767
Ports(qos) ==
  CASE qos = 1 -> Media
    [] qos = 4 -> Media \cup {443, 1935}
    [] OTHER   -> Nat

Blocked == {"10/8", "192.168/16"}

Passes(p, qos) ==
  p.dst \notin Blocked /\ p.port \in Ports(qos) /\ (qos = 1 => p.protocol = "UDP")

Policy(p) ==
  LET served == p.src \in DOMAIN profile
  IN  [action   |-> IF served /\ Passes(p, profile[p.src]) THEN "FORWARD" ELSE "DROP",
       qosClass |-> IF served THEN profile[p.src] ELSE 0]

Init ==
  /\ profile = EmptyMap
  /\ request = [c \in Calls |-> None]
  /\ decision = request
  /\ answer = request

Serve(ip, qos) ==
  /\ profile' = Put(profile, ip, qos)
  /\ UNCHANGED <<request, decision, answer>>

Withdraw(ip) ==
  /\ profile' = Erase(profile, ip)
  /\ UNCHANGED <<request, decision, answer>>

Submit(c, p) ==
  /\ request[c] = None
  /\ request' = [request EXCEPT ![c] = p]
  /\ UNCHANGED <<profile, decision, answer>>

Decide(c) ==
  /\ request[c] # None /\ decision[c] = None
  /\ decision' = [decision EXCEPT ![c] = Policy(request[c])]
  /\ UNCHANGED <<profile, request, answer>>

Answer(c) ==
  /\ decision[c] # None /\ answer[c] = None
  /\ answer' = [answer EXCEPT ![c] = decision[c]]
  /\ UNCHANGED <<profile, request, decision>>

Next ==
  \/ \E ip \in UeIps : Withdraw(ip) \/ \E qos \in QosProfiles : Serve(ip, qos)
  \/ \E c \in Calls : Decide(c) \/ Answer(c) \/ \E p \in Packets : Submit(c, p)

Spec == Init /\ [][Next]_vars
===============================================================================
