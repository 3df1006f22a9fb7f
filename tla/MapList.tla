------------------------------ MODULE MapList ------------------------------
(***************************************************************************)
(* The association list of src/src/map.c: a circular list with one element *)
(* per key, new ones in front.  For one caller at a time: the list has no  *)
(* lock.                                                                   *)
(***************************************************************************)
EXTENDS Integers, Sequences

CONSTANTS Keys, Values

Lists == INSTANCE SequencesExt

VARIABLE list     \* the elements behind the head, in the direction of next

\* map_find_elem: where the first element with the key is, 0 for NULL
FindElem(k) == Lists!SelectInSeq(list, LAMBDA e : e.key = k)

RemoveElemNext(i) ==     \* mutant: unlinks the one behind it
  IF i < Len(list) THEN Lists!RemoveAt(list, i + 1) ELSE Lists!RemoveAt(list, i)

RemoveElem(i) == Lists!RemoveAt(list, i)

Init == list = <<>>

AddAlways(k, v) ==       \* mutant: the key is not looked for
  list' = <<[key |-> k, value |-> v]>> \o list

Add(k, v) ==
  list' = IF FindElem(k) = 0 THEN <<[key |-> k, value |-> v]>> \o list
          ELSE [list EXCEPT ![FindElem(k)].value = v]

Remove(k) == FindElem(k) # 0 /\ list' = RemoveElem(FindElem(k))

\* map_remove_by_value: the first with the value
RemoveByValue(v) ==
  LET i == Lists!SelectInSeq(list, LAMBDA e : e.value = v)
  IN  i # 0 /\ list' = RemoveElem(i)

Clear == list' = <<>>

Next == \/ Clear
        \/ \E k \in Keys : Remove(k) \/ \E v \in Values : Add(k, v)
        \/ \E v \in Values : RemoveByValue(v)

Spec == Init /\ [][Next]_list

----------------------------------------------------------------------------
\* what map_find answers for every key
Found == [k \in {j \in Keys : FindElem(j) # 0} |-> list[FindElem(k)].value]

TypeOK ==
  /\ list \in Seq([key : Keys, value : Values])
  /\ \A i, j \in 1 .. Len(list) : i # j => list[i].key # list[j].key

D == INSTANCE Dictionary WITH Key <- Keys, Value <- Values, dict <- Found
=============================================================================
