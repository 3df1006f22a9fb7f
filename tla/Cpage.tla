------------------------------- MODULE Cpage -------------------------------
(***************************************************************************)
(* The contiguous page allocator, src/src/cpage.c.                         *)
(*                                                                         *)
(* One bookkeeping byte per heap page holds a "taken" and a "last" bit (at *)
(* the bit position 2 * (i % 4) of byte i, so that a byte never holds more *)
(* than its own two bits).  The module keeps the two bits of all the bytes *)
(* as two sets of page numbers.  Page i lies BkPages + i pages after the   *)
(* start of the heap, behind the bookkeeping bytes.                        *)
(*                                                                         *)
(* held is what the callers know: the pointers they were given and how     *)
(* many pages they asked for.  A caller stands for one pointer variable of *)
(* the kernel (a page table, a stack, a ring buffer, a path string ...).   *)
(***************************************************************************)
EXTENDS Integers

CONSTANTS NumPages,   \* heap size / 4096: pages and bookkeeping bytes
          BkPages,    \* pages taken by the bookkeeping bytes, rounded up
          Sizes,      \* the page counts that callers ask for
          Callers,    \* pointer variables
          NoBlock     \* a pointer that points to no block

ASSUME CpageAssumption ==
  /\ NumPages \in Nat \ {0}
  /\ BkPages \in Nat \ {0}
  /\ Sizes \subseteq Nat \ {0}
  /\ NoBlock \notin [start : Nat, asked : Nat]

VARIABLES taken,   \* pages whose bookkeeping byte has the taken bit
          last,    \* pages whose bookkeeping byte has the last bit
          held     \* [Callers -> block or NoBlock]

vars == <<taken, last, held>>

----------------------------------------------------------------------------
(* cpage_init clears every bookkeeping byte. *)
Init ==
  /\ taken = {}
  /\ last = {}
  /\ held = [c \in Callers |-> NoBlock]

(***************************************************************************)
(* The search.  The outer loop looks for a page i0 that is free and whose  *)
(* successor i0+1 is free.  The inner loop then increments i, the start of *)
(* the block, instead of j, the page it looks at: it counts the same page  *)
(* i0+1 again and again until the count is reached, and hands out the      *)
(* block that starts where i ended up.                                     *)
(***************************************************************************)
FreePairUnbounded(i) == i \notin taken /\ i + 1 \notin taken   \* mutant

FreePair(i) == i \notin taken /\ i + 1 \notin taken /\ i + 1 < NumPages

FirstPair(i) == /\ FreePair(i)
                /\ \A k \in 0 .. i - 1 : ~FreePair(k)

\* cpage_num when the count test succeeds: it is tested from 2 on
Count(n) == IF n < 2 THEN 2 ELSE n

\* where i ended up when cpage_num reached Count(n)
StartAt(i0, n) == i0 + Count(n) - 2

Znalloc(c, n) ==
  /\ held[c] = NoBlock
  /\ \E i0 \in 0 .. NumPages - 1 :
       LET start  == StartAt(i0, n)
           finish == start + Count(n) - 1
       IN  /\ FirstPair(i0)
           /\ taken' = taken \cup start .. finish
           /\ last' = last \cup {finish}
           /\ held' = [held EXCEPT ![c] = [start |-> start, asked |-> n]]

----------------------------------------------------------------------------
(* cpage_free: nothing happens to a pointer past the end of the heap;      *)
(* otherwise the bits are cleared up to the first last bit.                *)
Releasable(i) == BkPages + i <= NumPages

\* mutants: the loop that never stops, stops a page late, stops a page early
SweptToEnd(i) == {k \in taken \cup last : k >= i}
SweptOneMore(i) ==
  {k \in taken \cup last : k >= i /\ \A e \in i .. k - 2 : e \notin last}
SweptOneLess(i) ==
  {k \in taken \cup last : k >= i /\ \A e \in i .. k : e \notin last}

\* the pages the do-while loop visits from i on: up to the first last bit
\* (with none ahead it clears all there is and runs on into the heap's data)
Swept(i) ==
  {k \in taken \cup last : k >= i /\ \A e \in i .. k - 1 : e \notin last}

Free(c) ==
  /\ held[c] # NoBlock
  /\ LET i == held[c].start
     IN  \/ /\ Releasable(i)
            /\ taken' = taken \ Swept(i)
            /\ last' = last \ Swept(i)
         \/ /\ ~Releasable(i)
            /\ UNCHANGED <<taken, last>>
  /\ held' = [held EXCEPT ![c] = NoBlock]

Next == \E c \in Callers : Free(c) \/ \E n \in Sizes : Znalloc(c, n)

Spec == Init /\ [][Next]_vars

----------------------------------------------------------------------------
Live == {c \in Callers : held[c] # NoBlock}

\* the pages a caller may use: as many as it asked for
Pages(c) == held[c].start .. held[c].start + held[c].asked - 1

\* the pages the allocator set aside for it
Reserved(c) == held[c].start .. held[c].start + Count(held[c].asked) - 1

\* Types: bookkeeping bits stay within the bookkeeping bytes that cpage_init
\* cleared, and callers hold blocks of a size they asked for.
TypeOK ==
  /\ taken \subseteq 0 .. NumPages - 1
  /\ last \subseteq taken
  /\ held \in [Callers -> [start : 0 .. NumPages - 1, asked : Sizes]
                            \cup {NoBlock}]

\* No page is given to two callers at once: what cpage_znalloc hands out is
\* free of every live block (cpage.c:50-82).
BlocksDisjoint ==
  \A c, d \in Live : c # d => Pages(c) \cap Pages(d) = {}

\* The books describe each live block exactly: all its pages are taken and the
\* one last bit among them is on its final page, so that cpage_free of one
\* block stops where that block ends (cpage.c:108-123).
BlocksMarked ==
  \A c \in Live :
    /\ Reserved(c) \subseteq taken
    /\ Reserved(c) \cap last = {held[c].start + Count(held[c].asked) - 1}

\* A page is marked taken only for a live block, except at the tail of the
\* heap where cpage_free ignores the pointer (cpage.c:92).
Accounted ==
  \A p \in taken : (\E c \in Live : p \in Reserved(c)) \/ ~Releasable(p)
============================================================================
