------------------------------- MODULE Memory -------------------------------
(***************************************************************************)
(* The memory managers: the page allocator (Cpage), the page tables (Mmu), *)
(* the byte allocator (Kmalloc) and the memory of processes                *)
(* (ProcessMemory).  Each knows of the others what it needs, that zeroed   *)
(* pages or NULL are handed out and that a table maps pages, so they share *)
(* no state here.                                                          *)
(***************************************************************************)
EXTENDS Cpage, Sequences

CONSTANTS Harts, Spaces, Frames, Index, VPages, Leaves, Null, None,   \* Mmu
          Pointers, Requests, PageUnits, Word, MaxPages, Careful,     \* Kmalloc
          Processes, ProcessPages, PageSize, Thread, Trap, StackPointer,
          Files, Copies                                               \* ProcessMemory

VARIABLES entry, free, root, lock, at, job,                   \* Mmu
          mem, end, mapped, blocks,                           \* Kmalloc
          proc, claims, hung, copy                            \* ProcessMemory

Mmus == INSTANCE Mmu

Heap == INSTANCE Kmalloc WITH
  Callers <- Pointers, Sizes <- Requests, held <- blocks

Processing == INSTANCE ProcessMemory WITH
  Procs <- Processes, HeapPages <- ProcessPages, Null <- 0

\* The pages of the heap lie above the kernel's code, and the stacks of the processes
\* above all of RAM (lds/riscv.lds:5-52, process.h:52); a file's addresses are numbers.
ProcessingConstants ==
  /\ PageSize \in Nat \ {0} /\ StackPointer \in Nat
  /\ Thread \in (Nat \ {0}) \X Nat /\ Trap \in (Nat \ {0}) \X Nat
  /\ ProcessPages \subseteq Nat
  /\ \A g \in ProcessPages : /\ Processing!PageOf(Thread[1]) < g
                             /\ Processing!PageOf(Trap[1]) < g
                             /\ g < Processing!PageOf(StackPointer)
  /\ None \notin Files
  /\ \A f \in Files : Processing!Loads(f) \in Seq([load : BOOLEAN, vaddr : Nat, memsz : Nat])
  /\ Copies \subseteq [addr : Nat, bytes : Nat]

\* A size is a word, and a request has two units at least, its header included.
HeapConstants ==
  /\ PageUnits \in Nat \ {0} /\ MaxPages \in Nat /\ Word \in Nat /\ Heap!Top <= Word
  /\ Requests \subseteq Nat \ {0, 1}

ASSUME MemoryAssumption == Mmus!MmuConstants /\ ProcessingConstants /\ HeapConstants

\* Types of the three that have a type invariant.
TypesOK == TypeOK /\ Mmus!TypeOK /\ Heap!TypeOK

\* Every table is in exactly one place of one tree, and none is lost; mmu_translate,
\* without the lock, never leaves the path to its address (mmu.c:36-44, 61-86,
\* 89-131).
TablesSound == Mmus!EveryTableOnce /\ Mmus!WalksOnPath

\* The tables implement a map from virtual pages to leaves (mmu.c).
MmuIsMap == Mmus!MmuIsMap

\* The blocks of kmalloc are apart from each other and from the free list's nodes
\* (kmalloc.c:55-106).
HeapBlocksApart == Heap!HeapBlocksApart

\* And the free list is a ring in the order of addresses (kmalloc.c:127-159).
HeapSound == HeapBlocksApart /\ Heap!FreeListSound

\* No page is lost and none is returned twice: the taken pages are those of the live
\* blocks, and the pages of a process go back once each (cpage.c:89-126,
\* process.c:68-118, main.c:46-69).
PagesAccounted == Accounted /\ Processing!PagesReturnedOnce

\* A hart can switch to a process and back (process.c:44-54, spawn.S).
SwitchSafe == Processing!SwitchSafe

\* A file stays inside the image made for it, and a copy that returns moved what was
\* mapped of the request (elf.c, uaccess.c).
ImageSound == Processing!ImageInside /\ Processing!CopyHonest
=============================================================================
