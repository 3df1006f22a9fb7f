------------------------------- MODULE RBTree -------------------------------
(***************************************************************************)
(* The left-leaning red-black tree of src/src/rbtree.c, which the          *)
(* scheduler keeps the processes in (src/src/p_scheduling.c), for one      *)
(* caller at a time: the scheduler holds scheduling_mutex.                 *)
(*                                                                         *)
(* A tree is a record or NULL, and a function that returns the new root is *)
(* an operator on trees.  The one access through NULL that the code can    *)
(* make is the one of flip_color: it stores into the child, which faults   *)
(* in the kernel and hangs the hart.  Here it leaves a node with a key of  *)
(* no entry behind, and there are no further operations.                   *)
(***************************************************************************)
EXTENDS Integers, FiniteSets

CONSTANTS Keys, Values, NULL

NoKey == -1

VARIABLE tree

Node(k, v, red) == [key |-> k, value |-> v, red |-> red, left |-> NULL, right |-> NULL]

Red(n) == n # NULL /\ n.red

ToggleRed(n) == IF n = NULL THEN Node(NoKey, NULL, TRUE) ELSE [n EXCEPT !.red = ~@]

FlipColor(n) == [n EXCEPT !.red = ~@, !.left = ToggleRed(@), !.right = ToggleRed(@)]

RotateLeft(n) ==
  [n.right EXCEPT !.left = [n EXCEPT !.right = n.right.left, !.red = TRUE], !.red = n.red]

RotateRightDrops(n) ==   \* mutant: the middle subtree is not moved over
  [n.left EXCEPT !.right = [n EXCEPT !.left = NULL, !.red = TRUE], !.red = n.red]

RotateRight(n) ==
  [n.left EXCEPT !.right = [n EXCEPT !.left = n.left.right, !.red = TRUE], !.red = n.red]

\* the two last repairs of insert_this and of rb_balance
RepairLeft(n) ==
  LET up == IF Red(n.left) /\ Red(n.left.left) THEN RotateRight(n) ELSE n
  IN  IF Red(up.left) /\ Red(up.right) THEN FlipColor(up) ELSE up

BalanceNoFlip(n) ==      \* mutant: two red children stay
  LET lean == IF Red(n.right) THEN RotateLeft(n) ELSE n
  IN  IF Red(lean.left) /\ Red(lean.left.left) THEN RotateRight(lean) ELSE lean

Balance(n) == RepairLeft(IF Red(n.right) THEN RotateLeft(n) ELSE n)

\* ... of insert_this, behind the recursion
Grown(n) == RepairLeft(IF Red(n.right) /\ ~Red(n.left) THEN RotateLeft(n) ELSE n)

RECURSIVE InsertThis(_, _, _)
InsertThis(n, k, v) ==
  IF n = NULL THEN Node(k, v, TRUE)
  ELSE Grown(CASE k = n.key -> [n EXCEPT !.value = v]
               [] k < n.key -> [n EXCEPT !.left = InsertThis(@, k, v)]
               [] k > n.key -> [n EXCEPT !.right = InsertThis(@, k, v)])

MoveRedToLeft(n) ==
  LET f == FlipColor(n)
  IN  IF Red(f.right.left)
      THEN FlipColor(RotateLeft([f EXCEPT !.right = RotateRight(@)]))
      ELSE f

MoveRedToRight(n) ==
  LET f == FlipColor(n)
  IN  IF Red(f.left.left) THEN FlipColor(RotateRight(f)) ELSE f

RECURSIVE Min(_)
Min(n) == IF n.left = NULL THEN n ELSE Min(n.left)

RECURSIVE RemoveMin(_)
RemoveMin(n) ==
  IF n.left = NULL THEN NULL
  ELSE LET m == IF ~Red(n.left) /\ ~Red(n.left.left) THEN MoveRedToLeft(n) ELSE n
       IN  Balance([m EXCEPT !.left = RemoveMin(@)])

Blackened(n) == IF n = NULL THEN NULL ELSE [n EXCEPT !.red = FALSE]

ReplacedKeepsKey(n) ==   \* mutant: the key is not copied
  [n EXCEPT !.value = Min(n.right).value, !.right = RemoveMin(@)]

\* remove_it at a node that holds the key: the least entry on the right takes
\* the node's place
Replaced(n) ==
  [n EXCEPT !.key = Min(n.right).key, !.value = Min(n.right).value,
            !.right = RemoveMin(@)]

\* rb_remove_key_node: remove_it, and the root of every subtree is made black
RECURSIVE RemoveKey(_, _)
RemoveKey(n, k) ==
  IF n = NULL THEN NULL
  ELSE LET r == IF k >= n.key /\ Red(n.left) THEN RotateRight(n) ELSE n
           ToLeft == IF ~Red(r.left) /\ ~Red(r.left.left) THEN MoveRedToLeft(r) ELSE r
           ToRight == IF ~Red(r.right) /\ ~Red(r.right.left) THEN MoveRedToRight(r) ELSE r
           Rest == CASE k < n.key /\ r.left = NULL -> r
                     [] k < n.key /\ r.left # NULL -> [ToLeft EXCEPT !.left = RemoveKey(@, k)]
                     [] k >= n.key /\ r.right = NULL -> r
                     [] k >= n.key /\ r.right # NULL ->
                          IF ToRight.key = k THEN Replaced(ToRight)
                          ELSE [ToRight EXCEPT !.right = RemoveKey(@, k)]
       IN  IF r.key = k /\ r.right = NULL THEN NULL ELSE Blackened(Balance(Rest))

RECURSIVE Find(_, _)
Find(n, k) == CASE n = NULL -> NULL
                [] n # NULL /\ n.key = k -> n.value
                [] n # NULL /\ k < n.key -> Find(n.left, k)
                [] n # NULL /\ k > n.key -> Find(n.right, k)

RECURSIVE KeysOf(_)
KeysOf(n) == IF n = NULL THEN {} ELSE {n.key} \cup KeysOf(n.left) \cup KeysOf(n.right)

Faulted == NoKey \in KeysOf(tree)

----------------------------------------------------------------------------
Init == tree = NULL

Insert(k, v) == ~Faulted /\ tree' = Blackened(InsertThis(tree, k, v))

Delete(k) == ~Faulted /\ tree' = RemoveKey(tree, k)

Free == ~Faulted /\ tree' = NULL

Next == Free \/ \E k \in Keys : Delete(k) \/ \E v \in Values : Insert(k, v)

Spec == Init /\ [][Next]_tree

\* what the scheduler does: add a process, take the one with the least runtime
Schedule == \/ \E k \in Keys, v \in Values : Insert(k, v)
            \/ ~Faulted /\ tree # NULL /\ Delete(Min(tree).key)

----------------------------------------------------------------------------
\* what rb_find answers for every key
Found == [k \in {j \in Keys : Find(tree, j) # NULL} |-> Find(tree, k)]

D == INSTANCE Dictionary WITH Key <- Keys, Value <- Values, dict <- Found

TypeOK == KeysOf(tree) \subseteq Keys \cup {NoKey}

RECURSIVE Ordered(_)
Ordered(n) == \/ n = NULL
              \/ /\ \A k \in KeysOf(n.left) : k < n.key
                 /\ \A k \in KeysOf(n.right) : n.key < k
                 /\ Ordered(n.left) /\ Ordered(n.right)

RECURSIVE LeftLeaning(_)
LeftLeaning(n) == \/ n = NULL
                  \/ /\ ~Red(n.right) /\ ~(n.red /\ Red(n.left))
                     /\ LeftLeaning(n.left) /\ LeftLeaning(n.right)

\* the numbers of black nodes on the paths from n to the leaves
RECURSIVE BlackHeights(_)
BlackHeights(n) ==
  IF n = NULL THEN {0}
  ELSE {h + (IF n.red THEN 0 ELSE 1) : h \in BlackHeights(n.left) \cup BlackHeights(n.right)}

Balanced(n) == LeftLeaning(n) /\ Cardinality(BlackHeights(n)) = 1

\* Whatever is inserted and deleted, the tree stays in order, so rb_find cannot
\* miss an entry that is there, and red links lean left, one at a time: the paths
\* to the leaves differ by what the black links differ (rbtree.c:83-140).
SearchTree == ~Faulted => Ordered(tree) /\ LeftLeaning(tree)

\* rb_insert adds the entry or replaces its value, and every other key is found
\* as before, also in a tree that deletions have put out of balance.  A deleted
\* process is not found again, and no entry appears or changes its value with it
\* (p_scheduling.c:69-112); entries may disappear.
TreeIsDictionary ==
  [][\A k \in Keys :
       /\ \A v \in Values : Insert(k, v) => D!Put(k, v)
       /\ Delete(k) /\ ~Faulted' =>
            /\ Find(tree', k) = NULL
            /\ \A j \in Keys : Find(tree', j) \in {NULL, Find(tree, j)}]_tree

\* The tree is a red-black tree (rbtree.c:5), and no rotation follows NULL.
IsRedBlackTree == ~Faulted /\ Balanced(tree)
=============================================================================
