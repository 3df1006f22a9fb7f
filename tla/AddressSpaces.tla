--------------------------- MODULE AddressSpaces ---------------------------
(***************************************************************************)
(* What a set of page tables promises: an address space maps virtual pages *)
(* to leaves (a physical page and its permissions); it starts with nothing *)
(* mapped, is changed one virtual page at a time, and is discarded as a    *)
(* whole.                                                                  *)
(***************************************************************************)
CONSTANTS Spaces, VPages, Leaves, None

VARIABLE mapping    \* [Spaces -> a mapping, or None when there is none]

Nothing == [v \in VPages |-> None]

Init == mapping = [s \in Spaces |-> None]

Create(s) == /\ mapping[s] = None
             /\ mapping' = [mapping EXCEPT ![s] = Nothing]

Map(s, v, l) == /\ mapping[s] # None
                /\ mapping' = [mapping EXCEPT ![s][v] = l]

Discard(s) == mapping' = [mapping EXCEPT ![s] = None]

Next == \E s \in Spaces :
          \/ Create(s) \/ Discard(s)
          \/ \E v \in VPages, l \in Leaves : Map(s, v, l)

Spec == Init /\ [][Next]_mapping
============================================================================
