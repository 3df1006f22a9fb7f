------------------------------ MODULE Kmalloc ------------------------------
(***************************************************************************)
(* The byte allocator, src/src/kmalloc.c.                                  *)
(*                                                                         *)
(* Addresses and sizes count units of 16 bytes, to which kmalloc rounds a  *)
(* request with its header (so no request is below 2), from the start of   *)
(* the heap.  mem holds the words size, prev and next of every unit a node *)
(* of the free list, or the header of a block, may start at.  A call has   *)
(* kmalloc_lock from beginning to end and is one step.  Pages come from    *)
(* cpage_znalloc, which may fail at any time, its other users being left   *)
(* out.                                                                    *)
(***************************************************************************)
EXTENDS Integers

CONSTANTS Callers,     \* pointer variables
          Sizes,       \* of the requests, in units
          PageUnits,   \* PAGE_SIZE
          Word,        \* 2^64: sizes are unsigned
          MaxPages,    \* bound on the pages of the heap
          Careful,     \* do callers spare the search, see Spared
          NoBlock      \* NULL

VARIABLES mem,      \* the three words of nodes and headers
          end,      \* kernel_heap_v_addr
          mapped,   \* units behind which there is memory
          held      \* [Callers -> block or NoBlock]

vars == <<mem, end, mapped, held>>

Top == (MaxPages + 1) * PageUnits

Units == 0 .. Top - 1

Head == 0        \* kmalloc_head

PageAt(a) == a .. a + PageUnits - 1

\* init_kernel_heap: the head has a page of its own
Init ==
  /\ mem = [size |-> [a \in Units |-> 0], prev |-> [a \in Units |-> Head],
            next |-> [a \in Units |-> Head]]
  /\ end = 0
  /\ mapped = PageAt(0)
  /\ held = [c \in Callers |-> NoBlock]

----------------------------------------------------------------------------
(* The list. *)
NodeAppend(m, a, b) ==
  LET c == m.next[a]
  IN  [m EXCEPT !.next[b] = c, !.prev[b] = a, !.prev[c] = b, !.next[a] = b]

NodeRemove(m, a) ==
  [m EXCEPT !.prev[m.next[a]] = m.prev[a], !.next[m.prev[a]] = m.next[a]]

\* the i-th node behind the head, and in front of it
Forward(m) == LET f[i \in Nat] == IF i = 0 THEN Head ELSE m.next[f[i - 1]] IN f

Backward(m) == LET f[i \in Nat] == IF i = 0 THEN Head ELSE m.prev[f[i - 1]] IN f

\* the first one, from the head on, that the loop stops at
StopsAt(f, S) == f[CHOOSE i \in 1 .. Top : f[i] \in S /\ \A j \in 1 .. i - 1 : f[j] \notin S]

Nodes(m) == {a \in {Forward(m)[i] : i \in 1 .. Top} : a # Head}

\* coalesce_free_list: merge the first node that touches its successor, as long
\* as there is one
Touches(m, a) == /\ m.next[a] # Head
                 /\ a + m.size[a] = m.next[a]

Merge(m, a) == [NodeRemove(m, m.next[a]) EXCEPT !.size[a] = @ + m.size[m.next[a]]]

MergeFirst(m) ==
  LET a == StopsAt(Forward(m), {x \in Units : x = Head \/ Touches(m, x)})
  IN  IF a = Head THEN m ELSE Merge(m, a)

Coalesce(m) ==
  LET g[i \in Nat] == IF i = 0 THEN m ELSE MergeFirst(g[i - 1])
  IN  g[Top]

----------------------------------------------------------------------------
(* kmalloc *)
\* mutant: the first node that is big enough, though its memory may have been
\* handed out beside the list (line 98)
SearchFirstFit(n) == StopsAt(Forward(mem), {a \in Units : mem.size[a] >= n \/ a = Head})

\* the search stops at a node that is too small, or at the head
Search(n) == StopsAt(Forward(mem), {a \in Units : mem.size[a] < n \/ a = Head})

\* the pages that the loop adds, when the search came to the head
PagesFor(n) == IF Search(n) = Head THEN n \div PageUnits + 2 ELSE 0

\* k new pages, each a node at the end of the list
AddPages(m, k) ==
  LET g[i \in 0 .. k] ==
        IF i = 0 THEN m
        ELSE LET v == end + i * PageUnits
             IN  NodeAppend([g[i - 1] EXCEPT !.size[v] = PageUnits], g[i - 1].prev[Head], v)
  IN  g[k]

Grown(k) == IF k = 0 THEN mem ELSE Coalesce(AddPages(mem, k))

NewUnits(k) == UNION {PageAt(end + i * PageUnits) : i \in 1 .. k}

\* n units from the end of node a
Take(m, a, n) ==
  LET left == (m.size[a] - n) % Word
  IN  IF left < 1 THEN NodeRemove(m, a)
                  ELSE [m EXCEPT !.size[a + m.size[a] - n] = n, !.size[a] = left]

Give(c, m, a, n) ==
  /\ mem' = Take(m, a, n)
  /\ held' = [held EXCEPT ![c] = [at |-> a + m.size[a] - n, units |-> n]]

\* Callers that spare the search never ask for more than any free node has.
Spared(n) == \A a \in Nodes(mem) : mem.size[a] >= n

\* temp points to the node found, or to the first new page, wherever coalescing
\* has put it
Temp(n) == IF Search(n) = Head THEN end + PageUnits ELSE Search(n)

Allocate(c, n) ==
  LET k == PagesFor(n)
  IN  /\ end + k * PageUnits < Top
      /\ Give(c, Grown(k), Temp(n), n)
      /\ end' = end + k * PageUnits
      /\ mapped' = mapped \cup NewUnits(k)

\* the page behind the first k is not to be had: kmalloc returns NULL
NoMorePages(n) ==
  \E k \in 0 .. PagesFor(n) - 1 :
    /\ end + (k + 1) * PageUnits < Top
    /\ mem' = AddPages(mem, k)
    /\ end' = end + (k + 1) * PageUnits
    /\ mapped' = mapped \cup NewUnits(k)
    /\ UNCHANGED held

Kmalloc(c, n) ==
  /\ held[c] = NoBlock /\ (Careful => Spared(n))
  /\ Allocate(c, n) \/ NoMorePages(n)

----------------------------------------------------------------------------
(* kfree: in front of the first node above it *)
PlaceAtEnd(a) == mem.prev[Head]      \* mutant: the list is not kept in order

Place(a) == StopsAt(Backward(mem), {x \in Units : x = Head \/ a > x})

Kfree(c) ==
  LET a == held[c].at
  IN  /\ held[c] # NoBlock
      /\ mem' = IF mem.size[a] = 0 THEN mem
                ELSE Coalesce(NodeAppend(mem, Place(a), a))
      /\ held' = [held EXCEPT ![c] = NoBlock]
      /\ UNCHANGED <<end, mapped>>

Next ==
  \E c \in Callers : Kfree(c) \/ \E n \in Sizes : Kmalloc(c, n)

Spec == Init /\ [][Next]_vars

----------------------------------------------------------------------------
Live == {c \in Callers : held[c] # NoBlock}

Block(c) == held[c].at .. held[c].at + held[c].units - 1

TypeOK ==
  /\ \A w \in {"prev", "next"} : mem[w] \in [Units -> Units]
  /\ mem.size \in [Units -> 0 .. Word - 1]
  /\ end \in Units /\ mapped \subseteq Units

\* No two live blocks share memory, all of it is there, and none lies over the
\* size and links of a free node (kmalloc.c:56 "We found a space big enough").
HeapBlocksApart ==
  /\ \A c, d \in Live : c # d => Block(c) \cap Block(d) = {}
  /\ \A c \in Live : /\ Block(c) \subseteq mapped
                     /\ \A a \in Nodes(mem) : {a, a + 1} \cap Block(c) = {}

\* The free list is a ring in the order of addresses, both ways, whose nodes do
\* not touch a live block's header.
FreeListSound ==
  /\ \E i \in 1 .. Top : Forward(mem)[i] = Head
  /\ \A a \in Nodes(mem) : /\ mem.next[mem.prev[a]] = a /\ mem.prev[mem.next[a]] = a
                           /\ mem.next[a] = Head \/ mem.next[a] > a
============================================================================
