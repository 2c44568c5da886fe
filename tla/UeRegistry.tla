------------------------------ MODULE UeRegistry ------------------------------
(***************************************************************************)
(* What an AMF promises over N1, with no mutex, no UPF and no handler: a   *)
(* registry that gives each registered UE an NGAP id no registered UE has, *)
(* counts every registration it accepts, and forgets everything when its   *)
(* process restarts.  Amf implements it.                                   *)
(***************************************************************************)
EXTENDS Naturals, StdMap

CONSTANT Supis

VARIABLES
  registered,      (* subscriber -> NGAP id, for the registered UEs         *)
  registrations    (* registrations accepted since the process started      *)

vars == <<registered, registrations>>

Init ==
  /\ registered = EmptyMap
  /\ registrations = 0

(* The id given is greater than every id held, the one replaced included.  *)
Register(supi) ==
  /\ supi \in DOMAIN registered'
  /\ registered' = Put(registered, supi, registered'[supi])
  /\ \A other \in DOMAIN registered : registered[other] < registered'[supi]
  /\ registrations' = registrations + 1

Deregister(supi) ==
  /\ supi \in DOMAIN registered
  /\ registered' = Erase(registered, supi)
  /\ UNCHANGED registrations

Restart ==
  /\ registered' = EmptyMap
  /\ registrations' = 0

Next ==
  \/ \E supi \in Supis : Register(supi) \/ Deregister(supi)
  \/ Restart

Spec == Init /\ [][Next]_vars
===============================================================================
