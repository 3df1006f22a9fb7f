----------------------------- MODULE Dictionary -----------------------------
(***************************************************************************)
(* What the kernel's containers (src/src/rbtree.c, src/src/map.c) promise: *)
(* a set of keys with one value each.                                      *)
(***************************************************************************)
EXTENDS FiniteSets

CONSTANTS Key, Value

VARIABLE dict

Only(keys) == [k \in keys |-> dict[k]]

Init == dict = [k \in {} |-> k]

Put(k, v) == dict' = [j \in DOMAIN dict \cup {k} |-> IF j = k THEN v ELSE dict[j]]

Drop(k) == k \in DOMAIN dict /\ dict' = Only(DOMAIN dict \ {k})

Clear == dict' = [k \in {} |-> k]

Next == \E k \in Key : Drop(k) \/ Clear \/ \E v \in Value : Put(k, v)

Spec == Init /\ [][Next]_dict
=============================================================================
