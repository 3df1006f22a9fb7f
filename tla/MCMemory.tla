------------------------------ MODULE MCMemory ------------------------------
(***************************************************************************)
(* A small instance of Memory.  Its parts are not interleaved: the first   *)
(* state says which one is at work.                                        *)
(***************************************************************************)
EXTENDS Memory, TLC

CONSTANT Which     \* who may be at work

VARIABLE which

TwoIndices == {0, 1}

V(two, one, zero) == [i \in 0 .. 2 |-> CASE i = 2 -> two [] i = 1 -> one [] i = 0 -> zero]

\* virtual pages that share two tables, one, or none
ThreePages == {V(0, 0, 0), V(0, 0, 1), V(0, 1, 0)}

Segment(load, vaddr, memsz) == [load |-> load, vaddr |-> vaddr, memsz |-> memsz]

File(valid, segments) == [valid |-> valid, segments |-> segments]

\* Not an executable, nothing to load, one segment that ends or starts with its
\* page or does not, two with one between them that is not loaded, two that share
\* a page, two in descending order.
SomeFiles ==
  { File(FALSE, << Segment(TRUE, 4, 3) >>),
    File(TRUE, << Segment(FALSE, 4, 3) >>),
    File(TRUE, << Segment(TRUE, 4, 3) >>),
    File(TRUE, << Segment(TRUE, 5, 1) >>),
    File(TRUE, << Segment(TRUE, 4, 3), Segment(FALSE, 7, 2), Segment(TRUE, 8, 2) >>),
    File(TRUE, << Segment(TRUE, 4, 3), Segment(TRUE, 7, 2) >>),
    File(TRUE, << Segment(TRUE, 8, 4), Segment(TRUE, 4, 2) >>) }

\* the spawn code in page 4, the processes above it, and the stack far above
ThreadCode == <<17, 18>>
TrapCode == <<18, 19>>

SomeCopies == [addr : {42, 97}, bytes : {1, 2, 5}]

mmuVars == <<entry, free, root, lock, at, job>>
heapVars == <<mem, end, mapped, blocks>>
procVars == <<proc, claims, hung, copy>>
allVars == <<which, vars, mmuVars, heapVars, procVars>>

MCInit == which \in Which /\ Init /\ Mmus!Init /\ Heap!Init /\ Processing!Init

CpageRuns == which = "cpage" /\ Next /\ UNCHANGED <<which, mmuVars, heapVars, procVars>>

MmuRuns == which = "mmu" /\ Mmus!Next /\ UNCHANGED <<which, vars, heapVars, procVars>>

KmallocRuns == which = "kmalloc" /\ Heap!Next /\ UNCHANGED <<which, vars, mmuVars, procVars>>

ProcessesRun == which = "process" /\ Processing!Next /\ UNCHANGED <<which, vars, mmuVars, heapVars>>

MCNext == CpageRuns \/ MmuRuns \/ KmallocRuns \/ ProcessesRun

MCSpec == MCInit /\ [][MCNext]_allVars

\* Frames and Harts only appear in Mmu, and there nothing tells two of them apart.
Symmetry == Permutations(Frames) \cup Permutations(Harts)
=============================================================================
