------------------------------- MODULE JsMap -------------------------------
(* A JavaScript Map as a function whose domain is the set of its keys.     *)

Maps(f, Keys, Values) ==
  DOMAIN f \subseteq Keys /\ \A x \in DOMAIN f : f[x] \in Values

Empty == [x \in {} |-> x]

(* Map.prototype.set                                                       *)
Set(f, k, v) == [x \in DOMAIN f \cup {k} |-> IF x = k THEN v ELSE f[x]]
=============================================================================
