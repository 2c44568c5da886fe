-------------------------------- MODULE StdMap --------------------------------
(***************************************************************************)
(* The two mutating operations of std::unordered_map that the network      *)
(* functions use on their tables.  A map is a function whose domain is the *)
(* set of keys present, so count(k) is k \in DOMAIN m.                     *)
(***************************************************************************)
EXTENDS Functions

(* The map with no entry.                                                  *)
EmptyMap == [k \in {} |-> k]

(* m[k] = v: inserts the key, or overwrites the value it has.              *)
Put(m, k, v) == [x \in DOMAIN m \cup {k} |-> IF x = k THEN v ELSE m[x]]

(* m.erase(k): no effect when the key is absent.                           *)
Erase(m, k) == Restrict(m, DOMAIN m \ {k})
===============================================================================
