----------------------------- MODULE Semaphore -----------------------------
(***************************************************************************)
(* The counting semaphore of src/src/lock.c.  semaphore_trydown subtracts  *)
(* one, looks at the value there was before, and adds one again when that  *)
(* was not positive: two atomic steps, with other harts in between.        *)
(***************************************************************************)
EXTENDS Integers, FiniteSets

CONSTANTS Procs,     \* the harts that use the semaphore
          Initial    \* its initial value

VARIABLES value,     \* s->value
          pc         \* "idle"; "undo": about to add one back; "down": it has a
                     \* unit, its trydown returned true

vars == <<value, pc>>

Init == value = Initial /\ pc = [p \in Procs |-> "idle"]

Goto(p, from, to) == pc[p] = from /\ pc' = [pc EXCEPT ![p] = to]

Add(n) == value' = value + n

\* the first amoadd, and what its result decides
TakesUnitLoose(old) == old >= 0     \* mutant: off by one

TakesUnit(old) == old > 0

TryDown(p) ==
  /\ Goto(p, "idle", IF TakesUnit(value) THEN "down" ELSE "undo")
  /\ Add(-1)

\* the second amoadd of a trydown that returns false
UndoForgets(p) == Goto(p, "undo", "idle") /\ UNCHANGED value    \* mutant

Undo(p) == Goto(p, "undo", "idle") /\ Add(1)

\* semaphore_up of a process that has a unit
Up(p) == Goto(p, "down", "idle") /\ Add(1)

Next == \E p \in Procs : TryDown(p) \/ Undo(p) \/ Up(p)

Spec == Init /\ [][Next]_vars

----------------------------------------------------------------------------
At(l) == {p \in Procs : pc[p] = l}

\* The counter stays between what it was set to and one below zero for each
\* process.
TypeOK == /\ value \in -Cardinality(Procs) .. Initial
          /\ pc \in [Procs -> {"idle", "undo", "down"}]

\* No more units are out than there were, whatever the failed attempts in
\* between, and the counter accounts for every unit that is out and for every
\* attempt that has not yet taken its subtraction back (lock.c:29-39).
UnitsConserved ==
  /\ Cardinality(At("down")) <= Initial
  /\ value = Initial - Cardinality(At("down")) - Cardinality(At("undo"))
============================================================================
