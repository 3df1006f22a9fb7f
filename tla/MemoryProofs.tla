---------------------------- MODULE MemoryProofs ----------------------------
(***************************************************************************)
(* Proofs about the memory managers.                                       *)
(*                                                                         *)
(* The page allocator, for heaps and sets of callers of every size, as     *)
(* long as callers ask for one or two pages at a time; for larger requests *)
(* the statements are false, as the run cpage_overlap shows.  The page     *)
(* tables, from MmuProofs.  The memory of processes, for any number of     *)
(* processes and of pages: where the pages are, what the tables say, what  *)
(* elf_load copies and what the copies of uaccess.c move.  And the byte    *)
(* allocator, for callers that spare its search and ask for less than a    *)
(* page; for larger requests the statement is false.                       *)
(***************************************************************************)
EXTENDS Memory, FiniteSetTheorems, WellFoundedInduction, TLAPS

\* The inductive invariant.  Every block is a pair of pages whose second page
\* carries the last bit, and no two pairs meet.
PairsInBounds == \A c \in Live : held[c].start + 1 < NumPages

PairsMarked ==
  \A c \in Live : /\ held[c].start \in taken
                  /\ held[c].start + 1 \in taken
                  /\ held[c].start \notin last
                  /\ held[c].start + 1 \in last

PairsApart ==
  \A c, d \in Live : c # d => \/ held[c].start + 1 < held[d].start
                              \/ held[d].start + 1 < held[c].start

PairInv ==
  /\ TypeOK
  /\ PairsInBounds
  /\ PairsMarked
  /\ PairsApart
  /\ Accounted

----------------------------------------------------------------------------
\* A request for one or two pages counts to two and starts at the page the
\* outer loop stopped at (cpage.c:47-67).
LEMMA SmallRequest ==
  ASSUME NEW n \in {1, 2}, NEW i \in Int
  PROVE  Count(n) = 2 /\ StartAt(i, n) = i
BY SMT DEF Count, StartAt

\* What a caller holds when it holds a block.
LEMMA LiveBlock ==
  ASSUME TypeOK, Sizes \subseteq {1, 2}, NEW c \in Live
  PROVE  /\ c \in Callers
         /\ held[c].start \in 0 .. NumPages - 1
         /\ held[c].start \in Int
         /\ held[c].asked \in {1, 2}
         /\ Reserved(c) = {held[c].start, held[c].start + 1}
<1>1. c \in Callers /\ held[c] # NoBlock
  BY DEF Live
<1>2. held[c] \in [start : 0 .. NumPages - 1, asked : Sizes]
  BY <1>1 DEF TypeOK
<1>3. held[c].start \in 0 .. NumPages - 1 /\ held[c].asked \in {1, 2}
  BY <1>2
<1>4. held[c].start \in Int
  BY <1>3, CpageAssumption, SMT
<1>5. Count(held[c].asked) = 2
  BY <1>3, <1>4, SmallRequest
<1>6. Reserved(c) = {held[c].start, held[c].start + 1}
  BY <1>4, <1>5, SMT DEF Reserved
<1> QED
  BY <1>1, <1>3, <1>4, <1>6

\* The loop of cpage_free visits the two pages of a live block and no other
\* (cpage.c:108-123).
LEMMA SweptPair ==
  ASSUME TypeOK, NEW i \in Nat,
         i \in taken, i + 1 \in taken, i \notin last, i + 1 \in last
  PROVE  Swept(i) = {i, i + 1}
<1>1. taken \subseteq Int /\ last \subseteq Int
  BY CpageAssumption, SMT DEF TypeOK
<1>2. ASSUME NEW k \in Swept(i)
      PROVE  k \in {i, i + 1}
  BY <1>1, <1>2, SMT DEF Swept
<1>3. i \in Swept(i)
  BY SMT DEF Swept
<1>4. i + 1 \in Swept(i)
  BY SMT DEF Swept
<1> QED
  BY <1>2, <1>3, <1>4

----------------------------------------------------------------------------
LEMMA InitPairInv == Init => PairInv
BY CpageAssumption DEF Init, PairInv, TypeOK, PairsInBounds, PairsMarked,
   PairsApart, Accounted, Live

\* cpage_znalloc keeps the invariant: the pair it takes was free.
LEMMA ZnallocPairInv ==
  ASSUME Sizes \subseteq {1, 2}, PairInv,
         NEW c \in Callers, NEW n \in Sizes, Znalloc(c, n)
  PROVE  PairInv'
<1> USE CpageAssumption
<1>1. PICK i \in 0 .. NumPages - 1 :
        /\ FirstPair(i)
        /\ taken' = taken \cup StartAt(i, n) .. StartAt(i, n) + Count(n) - 1
        /\ last' = last \cup {StartAt(i, n) + Count(n) - 1}
        /\ held' = [held EXCEPT ![c] = [start |-> StartAt(i, n), asked |-> n]]
  BY DEF Znalloc
<1>2. /\ held[c] = NoBlock
      /\ TypeOK
      /\ i \in Int /\ i \in Nat
  BY SMT DEF Znalloc, PairInv
<1>3. Count(n) = 2 /\ StartAt(i, n) = i
  BY <1>2, SmallRequest
<1>4. /\ taken' = taken \cup {i, i + 1}
      /\ last' = last \cup {i + 1}
      /\ held' = [held EXCEPT ![c] = [start |-> i, asked |-> n]]
  <2>1. i .. i + 2 - 1 = {i, i + 1} /\ i + 2 - 1 = i + 1
    BY <1>2, SMT
  <2> QED
    BY <1>1, <1>3, <2>1
<1>5. i \notin taken /\ i + 1 \notin taken /\ i + 1 < NumPages
  BY <1>1 DEF FirstPair, FreePair
<1>6. TypeOK'
  <2>1. [start |-> i, asked |-> n] \in [start : 0 .. NumPages - 1, asked : Sizes]
    OBVIOUS
  <2>2. held' \in [Callers -> [start : 0 .. NumPages - 1, asked : Sizes] \cup {NoBlock}]
    BY <2>1, <1>2, <1>4 DEF TypeOK
  <2>3. taken' \subseteq 0 .. NumPages - 1 /\ last' \subseteq taken'
    BY <1>2, <1>4, <1>5, SMT DEF TypeOK
  <2> QED
    BY <2>2, <2>3 DEF TypeOK
<1>7. [start |-> i, asked |-> n] # NoBlock
  BY <1>2
<1>8. /\ Live' = Live \cup {c}
      /\ c \notin Live
      /\ held'[c].start = i
      /\ held'[c].asked = n
      /\ \A d \in Live : held'[d] = held[d]
  BY <1>2, <1>4, <1>7 DEF Live, TypeOK
<1>9. \A d \in Live : /\ held[d].start \in Int
                      /\ held[d].start # i
                      /\ held[d].start # i + 1
                      /\ held[d].start + 1 # i
                      /\ held[d].start + 1 # i + 1
  <2> SUFFICES ASSUME NEW d \in Live
               PROVE  /\ held[d].start \in Int
                      /\ held[d].start # i
                      /\ held[d].start # i + 1
                      /\ held[d].start + 1 # i
                      /\ held[d].start + 1 # i + 1
    OBVIOUS
  <2>1. held[d].start \in Int
    BY <1>2, LiveBlock
  <2> QED
    BY <2>1, <1>5 DEF PairInv, PairsMarked
<1>10. PairsInBounds'
  BY <1>5, <1>8 DEF PairInv, PairsInBounds
<1>11. PairsMarked'
  <2>1. i \notin last /\ i # i + 1
    BY <1>2, <1>5, SMT DEF TypeOK
  <2>2. \A d \in Live : held'[d].start \notin last'
    BY <1>4, <1>8, <1>9 DEF PairInv, PairsMarked
  <2> QED
    BY <2>1, <2>2, <1>4, <1>8 DEF PairInv, PairsMarked
<1>12. PairsApart'
  <2>1. \A d \in Live : \/ held[d].start + 1 < i
                        \/ i + 1 < held[d].start
    BY <1>2, <1>9, SMT
  <2> QED
    BY <2>1, <1>8 DEF PairInv, PairsApart
<1>13. Accounted'
  <2> SUFFICES ASSUME NEW p \in taken'
               PROVE  (\E d \in Live' : p \in Reserved(d)') \/ ~Releasable(p)
    BY DEF Accounted, Releasable
  <2>1. CASE p \in taken
    BY <2>1, <1>8 DEF PairInv, Accounted, Reserved
  <2>2. CASE p \in {i, i + 1}
    <3>1. Reserved(c)' = i .. i + 2 - 1
      BY <1>3, <1>8 DEF Reserved
    <3>2. p \in Reserved(c)'
      BY <3>1, <2>2, <1>2, SMT
    <3> QED
      BY <3>2, <1>8
  <2> QED
    BY <2>1, <2>2, <1>4
<1> QED
  BY <1>6, <1>10, <1>11, <1>12, <1>13 DEF PairInv

\* cpage_free keeps the invariant: it clears the bits of its own pair only.
LEMMA FreePairInv ==
  ASSUME Sizes \subseteq {1, 2}, PairInv, NEW c \in Callers, Free(c)
  PROVE  PairInv'
<1> USE CpageAssumption
<1> DEFINE i == held[c].start
<1>1. c \in Live /\ TypeOK
  BY DEF Free, Live, PairInv
<1>2. i \in Int /\ i \in Nat /\ Reserved(c) = {i, i + 1}
  <2>1. i \in 0 .. NumPages - 1 /\ i \in Int /\ Reserved(c) = {i, i + 1}
    BY <1>1, LiveBlock
  <2> QED
    BY <2>1, SMT
<1>3. i \in taken /\ i + 1 \in taken /\ i \notin last /\ i + 1 \in last
  BY <1>1 DEF PairInv, PairsMarked
<1>4. Swept(i) = {i, i + 1}
  BY <1>1, <1>2, <1>3, SweptPair
<1>5. held' = [held EXCEPT ![c] = NoBlock]
  BY DEF Free
<1>6. /\ taken' \subseteq taken /\ taken \ {i, i + 1} \subseteq taken'
      /\ last' \subseteq last /\ last \ {i, i + 1} \subseteq last'
      /\ last' \subseteq taken'
      /\ Releasable(i) => taken' = taken \ {i, i + 1}
  BY <1>1, <1>4 DEF Free, TypeOK
<1>7. /\ Live' = Live \ {c}
      /\ \A d \in Live' : held'[d] = held[d] /\ d \in Live /\ d # c
  BY <1>5, <1>1 DEF Live, TypeOK
<1>8. TypeOK'
  <2>1. held' \in [Callers -> [start : 0 .. NumPages - 1, asked : Sizes] \cup {NoBlock}]
    BY <1>1, <1>5 DEF TypeOK
  <2> QED
    BY <2>1, <1>1, <1>6 DEF TypeOK
<1>9. PairsInBounds'
  BY <1>7 DEF PairInv, PairsInBounds
<1>10. PairsApart'
  BY <1>7 DEF PairInv, PairsApart
<1>11. PairsMarked'
  <2> SUFFICES ASSUME NEW d \in Live'
               PROVE  /\ held[d].start \in taken'
                      /\ held[d].start + 1 \in taken'
                      /\ held[d].start \notin last'
                      /\ held[d].start + 1 \in last'
    BY <1>7 DEF PairsMarked
  <2>1. held[d].start \in Int
    BY <1>1, <1>7, LiveBlock
  <2>2. \/ held[d].start + 1 < i
        \/ i + 1 < held[d].start
    BY <1>1, <1>7 DEF PairInv, PairsApart
  <2>3. /\ held[d].start \notin {i, i + 1}
        /\ held[d].start + 1 \notin {i, i + 1}
    BY <2>1, <2>2, <1>2, SMT
  <2> QED
    BY <2>3, <1>6, <1>7 DEF PairInv, PairsMarked
<1>12. Accounted'
  <2> SUFFICES ASSUME NEW p \in taken'
               PROVE  (\E d \in Live' : p \in Reserved(d)') \/ ~Releasable(p)
    BY DEF Accounted, Releasable
  <2>1. p \in taken
    BY <1>6
  <2>2. CASE p \in Reserved(c)
    <3>1. ~Releasable(i)
      BY <2>2, <1>2, <1>6
    <3> QED
      BY <3>1, <2>2, <1>2, SMT DEF Releasable
  <2>3. CASE \E d \in Live : p \in Reserved(d) /\ d # c
    BY <2>3, <1>7 DEF Reserved
  <2>4. CASE ~Releasable(p)
    BY <2>4
  <2> QED
    BY <2>1, <2>2, <2>3, <2>4 DEF PairInv, Accounted
<1> QED
  BY <1>8, <1>9, <1>10, <1>11, <1>12 DEF PairInv

LEMMA StepPairInv ==
  ASSUME Sizes \subseteq {1, 2}, PairInv, [Next]_vars
  PROVE  PairInv'
<1>1. CASE \E c \in Callers : Free(c)
  BY <1>1, FreePairInv
<1>2. CASE \E c \in Callers, n \in Sizes : Znalloc(c, n)
  BY <1>2, ZnallocPairInv
<1>3. CASE UNCHANGED vars
  BY <1>3 DEF vars, PairInv, TypeOK, PairsInBounds, PairsMarked, PairsApart,
     Accounted, Live, Reserved
<1> QED
  BY <1>1, <1>2, <1>3 DEF Next

LEMMA PairInvImplies ==
  ASSUME Sizes \subseteq {1, 2}, PairInv
  PROVE  TypeOK /\ BlocksDisjoint /\ BlocksMarked /\ Accounted
<1>1. TypeOK /\ Accounted
  BY DEF PairInv
<1>2. BlocksDisjoint
  <2> SUFFICES ASSUME NEW c \in Live, NEW d \in Live, c # d
               PROVE  Pages(c) \cap Pages(d) = {}
    BY DEF BlocksDisjoint
  <2>1. /\ held[c].start \in Int /\ held[c].asked \in {1, 2}
        /\ held[d].start \in Int /\ held[d].asked \in {1, 2}
    BY <1>1, LiveBlock
  <2>2. \/ held[c].start + 1 < held[d].start
        \/ held[d].start + 1 < held[c].start
    BY DEF PairInv, PairsApart
  <2> QED
    BY <2>1, <2>2, SMT DEF Pages
<1>3. BlocksMarked
  <2> SUFFICES ASSUME NEW c \in Live
               PROVE  /\ Reserved(c) \subseteq taken
                      /\ Reserved(c) \cap last
                           = {held[c].start + Count(held[c].asked) - 1}
    BY DEF BlocksMarked
  <2>1. /\ held[c].start \in Int
        /\ held[c].asked \in {1, 2}
        /\ Reserved(c) = {held[c].start, held[c].start + 1}
    BY <1>1, LiveBlock
  <2>2. Count(held[c].asked) = 2
    BY <2>1, SmallRequest
  <2>3. held[c].start + 2 - 1 = held[c].start + 1
    BY <2>1, SMT
  <2> QED
    BY <2>1, <2>2, <2>3 DEF PairInv, PairsMarked
<1> QED
  BY <1>1, <1>2, <1>3

\* For requests of one or two pages the allocator never gives a page to two
\* callers, whatever the heap, the callers and the history of calls.
THEOREM BlocksDisjointThm ==
  ASSUME Sizes \subseteq {1, 2}
  PROVE  Spec => []BlocksDisjoint
<1>1. Init => PairInv
  BY InitPairInv
<1>2. PairInv /\ [Next]_vars => PairInv'
  BY StepPairInv
<1>3. PairInv => BlocksDisjoint
  BY PairInvImplies
<1> QED
  BY <1>1, <1>2, <1>3, PTL DEF Spec

\* Under the same condition the books stay well formed, describe each block
\* exactly, and mark no page that nobody holds but those of the heap's tail.
THEOREM BooksThm ==
  ASSUME Sizes \subseteq {1, 2}
  PROVE  Spec => [](TypeOK /\ BlocksMarked /\ Accounted)
<1>1. Init => PairInv
  BY InitPairInv
<1>2. PairInv /\ [Next]_vars => PairInv'
  BY StepPairInv
<1>3. PairInv => TypeOK /\ BlocksMarked /\ Accounted
  BY PairInvImplies
<1> QED
  BY <1>1, <1>2, <1>3, PTL DEF Spec

----------------------------------------------------------------------------
(* The page tables *)

MmuTheorems == INSTANCE MmuProofs

\* MmuTheorems is Mmus with theorems: what they define is the same.
LEMMA SameMmu ==
  /\ MmuTheorems!Init = Mmus!Init /\ MmuTheorems!Next = Mmus!Next
  /\ MmuTheorems!vars = Mmus!vars
BY DEF
     Mmus!Init, MmuTheorems!Init, Mmus!Next, MmuTheorems!Next, Mmus!vars,
     MmuTheorems!vars, Mmus!ZeroPage, MmuTheorems!ZeroPage, Mmus!Idle,
     MmuTheorems!Idle, Mmus!Map, MmuTheorems!Map, Mmus!Read, MmuTheorems!Read,
     Mmus!NullFault, MmuTheorems!NullFault, Mmus!NewSpace, MmuTheorems!NewSpace,
     Mmus!Discard, MmuTheorems!Discard, Mmus!MapStart, MmuTheorems!MapStart,
     Mmus!MapDescend, MmuTheorems!MapDescend, Mmus!MapMissing,
     MmuTheorems!MapMissing, Mmus!MapMake, MmuTheorems!MapMake, Mmus!MapLeaf,
     MmuTheorems!MapLeaf, Mmus!ReadStart, MmuTheorems!ReadStart, Mmus!ReadDescend,
     MmuTheorems!ReadDescend, Mmus!ReadEnd, MmuTheorems!ReadEnd, Mmus!Freed,
     MmuTheorems!Freed, Mmus!Goto, MmuTheorems!Goto, Mmus!TakeLock,
     MmuTheorems!TakeLock, Mmus!After, MmuTheorems!After, Mmus!Missing,
     MmuTheorems!Missing, Mmus!Entry, MmuTheorems!Entry, Mmus!Descend,
     MmuTheorems!Descend, Mmus!Slot, MmuTheorems!Slot, Mmus!IsBranch,
     MmuTheorems!IsBranch, Mmus!Children, MmuTheorems!Children,
     Mmus!AllocatorIdle, MmuTheorems!AllocatorIdle

LEMMA SameTables ==
  /\ MmuTheorems!EveryTableOnce = Mmus!EveryTableOnce
  /\ MmuTheorems!WalksOnPath = Mmus!WalksOnPath
  /\ MmuTheorems!TypeOK = Mmus!TypeOK
BY DEF
     Mmus!EveryTableOnce, MmuTheorems!EveryTableOnce, Mmus!WalksOnPath,
     MmuTheorems!WalksOnPath, Mmus!TypeOK, MmuTheorems!TypeOK, Mmus!Links,
     MmuTheorems!Links, Mmus!Roots, MmuTheorems!Roots, Mmus!Used, MmuTheorems!Used,
     Mmus!TableAt, MmuTheorems!TableAt, Mmus!IsBranch, MmuTheorems!IsBranch

LEMMA SameMmuSpec == Mmus!Spec => MmuTheorems!Spec
<1>1. Mmus!Init => MmuTheorems!Init
  BY SameMmu
<1>2. [Mmus!Next]_Mmus!vars => [MmuTheorems!Next]_MmuTheorems!vars
  BY SameMmu DEF Mmus!vars, MmuTheorems!vars
<1> QED
  BY <1>1, <1>2, PTL DEF Mmus!Spec, MmuTheorems!Spec

\* Every table is in one place of one tree and walks stay on their paths, for any
\* number of harts, spaces, pages and addresses (mmu.c:36-44, 61-86, 89-131).
THEOREM TablesSoundThm == Mmus!Spec => []TablesSound
<1>1. MmuTheorems!Spec => [](MmuTheorems!TypeOK /\ MmuTheorems!EveryTableOnce /\ MmuTheorems!WalksOnPath)
  BY MemoryAssumption, MmuTheorems!TablesAlwaysSound DEF Mmus!MmuConstants, MmuTheorems!MmuConstants
<1>2. MmuTheorems!EveryTableOnce /\ MmuTheorems!WalksOnPath => TablesSound
  BY SameTables DEF TablesSound
<1> QED
  BY <1>1, <1>2, SameMmuSpec, PTL

LEMMA SameMap == MmuTheorems!MmuIsMap => Mmus!MmuIsMap
BY DEF MmuTheorems!AddressMap!Spec, Mmus!AddressMap!Spec,
     MmuTheorems!AddressMap!Init, Mmus!AddressMap!Init, MmuTheorems!AddressMap!Next,
     Mmus!AddressMap!Next, MmuTheorems!AddressMap!Create, Mmus!AddressMap!Create,
     MmuTheorems!AddressMap!Map, Mmus!AddressMap!Map, MmuTheorems!AddressMap!Discard,
     Mmus!AddressMap!Discard, MmuTheorems!AddressMap!Nothing, Mmus!AddressMap!Nothing,
     Mmus!MmuIsMap, MmuTheorems!MmuIsMap,
     Mmus!Translation, MmuTheorems!Translation, Mmus!TableAt, MmuTheorems!TableAt,
     Mmus!IsBranch, MmuTheorems!IsBranch

\* The tables implement a map from virtual pages to leaves (mmu.c:13-131).
THEOREM MmuIsMapThm == Mmus!Spec => MmuIsMap
<1>1. MmuTheorems!Spec => MmuTheorems!MmuIsMap
  BY MemoryAssumption, MmuTheorems!TablesAreMap DEF Mmus!MmuConstants, MmuTheorems!MmuConstants
<1> QED
  BY <1>1, SameMmuSpec, SameMap DEF MmuIsMap

----------------------------------------------------------------------------
(* The pages of processes *)

\* The block that p_free gives back as the image.
ImageOf(p) == IF p.image = 0 THEN {} ELSE Processing!Block(p.image, p.image_pg_num)

\* The pages of one process are apart, and only a program that was loaded and an idle
\* process have an image.
ProcessSound(p) ==
  /\ p = [kind |-> p.kind, page |-> p.page, ptable |-> p.ptable, stack |-> p.stack,
          image |-> p.image, image_pg_num |-> p.image_pg_num, table |-> p.table,
          file |-> p.file, reach |-> p.reach]
  /\ p.page \in ProcessPages /\ p.ptable \in ProcessPages \ {p.page}
  /\ p.stack \in (ProcessPages \ {p.page, p.ptable}) \cup {0}
  /\ ImageOf(p) \subseteq ProcessPages \ {p.page, p.ptable, p.stack}
  /\ p.kind = "kernel" \/ (p.kind = "user" /\ p.file = None) => p.image = 0

PagesOf(p) == ({p.page, p.ptable, p.stack} \ {0}) \cup ImageOf(p)

\* No page has two processes, and the allocator has those that have none.
ClaimsSound ==
  /\ \A q, r \in DOMAIN proc : q # r => PagesOf(proc[q]) \cap PagesOf(proc[r]) = {}
  /\ claims = [g \in ProcessPages |->
                 IF \E q \in DOMAIN proc : g \in PagesOf(proc[q]) THEN 0 ELSE 1]

ProcessesInv ==
  /\ proc = [q \in DOMAIN proc |-> proc[q]]
  /\ \A q \in DOMAIN proc : ProcessSound(proc[q])
  /\ ~hung => ClaimsSound

LEMMA NullIsNoPage == 0 \notin ProcessPages /\ ProcessPages \subseteq Nat
<1>1. \A g \in ProcessPages : Processing!PageOf(Thread[1]) < g /\ g \in Nat
  BY MemoryAssumption DEF ProcessingConstants
<1>2. Processing!PageOf(Thread[1]) \in Nat
  <2>1. PageSize \in Nat \ {0} /\ Thread[1] \in Nat
    BY MemoryAssumption DEF ProcessingConstants
  <2> QED
    BY <2>1 DEF Processing!PageOf
<1> QED
  BY <1>1, <1>2

LEMMA OnePageBlock == \A g \in Nat : Processing!Block(g, 1) = {g}
  BY DEF Processing!Block

LEMMA ZnallocOne ==
  ASSUME NEW g \in Processing!Znalloc(1)
  PROVE  g = 0 \/ (g \in ProcessPages /\ claims[g] > 0)
  BY NullIsNoPage, OnePageBlock DEF Processing!Znalloc

\* A process that is made or changed takes pages that were free, and keeps its own.
LEMMA ProcessTakes ==
  ASSUME ProcessesInv, ~hung, NEW q, NEW p, ProcessSound(p), NEW gs,
         \A g \in gs : g = 0 \/ (g \in ProcessPages /\ claims[g] > 0),
         PagesOf(p) = (IF q \in DOMAIN proc THEN PagesOf(proc[q]) ELSE {}) \cup (gs \ {0}),
         proc' = [r \in {q} \cup DOMAIN proc |-> IF r = q THEN p ELSE proc[r]],
         Processing!Taking(gs)
  PROVE  ProcessesInv'
<1>1. ClaimsSound
  BY DEF ProcessesInv
<1>2. \A g \in gs \ {0} : \A r \in DOMAIN proc : g \notin PagesOf(proc[r])
  BY <1>1 DEF ClaimsSound
<1>3. \A r \in DOMAIN proc : PagesOf(proc[r]) \subseteq ProcessPages
  BY DEF ProcessesInv, ProcessSound, PagesOf
<1>4. claims' = [k \in ProcessPages |-> IF k \in gs THEN claims[k] - 1 ELSE claims[k]]
  BY DEF Processing!Taking
<1>5. \A k \in ProcessPages : claims[k] = IF \E r \in DOMAIN proc : k \in PagesOf(proc[r]) THEN 0 ELSE 1
  BY <1>1 DEF ClaimsSound
<1>6. \A r \in DOMAIN proc' : proc'[r] = IF r = q THEN p ELSE proc[r]
  OBVIOUS
<1>7. \A k \in ProcessPages :
        (\E r \in DOMAIN proc' : k \in PagesOf(proc'[r])) <=>
        (k \in gs \/ \E r \in DOMAIN proc : k \in PagesOf(proc[r]))
  <2>1. SUFFICES ASSUME NEW k \in ProcessPages
                 PROVE  (\E r \in DOMAIN proc' : k \in PagesOf(proc'[r])) <=>
                        (k \in gs \/ \E r \in DOMAIN proc : k \in PagesOf(proc[r]))
    OBVIOUS
  <2>2. k # 0
    BY <2>1, NullIsNoPage
  <2>3. ASSUME NEW r \in DOMAIN proc', k \in PagesOf(proc'[r])
        PROVE  k \in gs \/ \E s \in DOMAIN proc : k \in PagesOf(proc[s])
    BY <2>3, <1>6
  <2>4. ASSUME k \in gs
        PROVE  \E r \in DOMAIN proc' : k \in PagesOf(proc'[r])
    BY <2>2, <2>4, <1>6
  <2>5. ASSUME NEW s \in DOMAIN proc, k \in PagesOf(proc[s])
        PROVE  \E r \in DOMAIN proc' : k \in PagesOf(proc'[r])
    BY <2>5, <1>6
  <2> QED
    BY <2>3, <2>4, <2>5
<1>8. claims' = [g \in ProcessPages |->
                   IF \E r \in DOMAIN proc' : g \in PagesOf(proc'[r]) THEN 0 ELSE 1]
  <2>1. \A k \in ProcessPages : k \in gs => claims[k] = 1
    BY <1>5, NullIsNoPage
  <2>2. ASSUME NEW k \in ProcessPages
        PROVE  (IF k \in gs THEN claims[k] - 1 ELSE claims[k])
                 = IF \E r \in DOMAIN proc' : k \in PagesOf(proc'[r]) THEN 0 ELSE 1
    <3>1. CASE k \in gs
      <4>1. claims[k] - 1 = 0
        BY <2>1, <3>1
      <4>2. \E r \in DOMAIN proc' : k \in PagesOf(proc'[r])
        BY <1>7, <3>1
      <4> QED
        BY <3>1, <4>1, <4>2
    <3>2. CASE k \notin gs
      <4>1. (\E r \in DOMAIN proc' : k \in PagesOf(proc'[r])) <=>
            \E r \in DOMAIN proc : k \in PagesOf(proc[r])
        BY <1>7, <3>2
      <4> QED
        BY <1>5, <3>2, <4>1
    <3> QED
      BY <3>1, <3>2
  <2> QED
    BY <1>4, <2>2
<1>9. \A s, r \in DOMAIN proc' : s # r => PagesOf(proc'[s]) \cap PagesOf(proc'[r]) = {}
  <2>1. \A s, r \in DOMAIN proc : s # r => PagesOf(proc[s]) \cap PagesOf(proc[r]) = {}
    BY <1>1 DEF ClaimsSound
  <2> QED
    BY <1>2, <1>6, <2>1
<1>10. ClaimsSound'
  BY <1>8, <1>9 DEF ClaimsSound, PagesOf, ImageOf
<1> QED
  BY <1>6, <1>10 DEF ProcessesInv, ProcessSound, ImageOf

\* add_idle_procs and elf_load leave the other fields.
LEMMA IdleFields ==
  ASSUME NEW p, ProcessSound(p)
  PROVE  Processing!IdleFrom(p) =
           [kind |-> "idle", page |-> p.page, ptable |-> p.ptable, stack |-> 0,
            image |-> p.stack, image_pg_num |-> 1,
            table |-> Processing!Over([g \in {Processing!PageOf(StackPointer)} |->
                                         [to |-> p.stack, bits |-> {"X"}]], p.table),
            file |-> p.file, reach |-> p.reach]
<1>1. PICK k, a, b, c, d, n, t, f, r :
        p = [kind |-> k, page |-> a, ptable |-> b, stack |-> c, image |-> d,
             image_pg_num |-> n, table |-> t, file |-> f, reach |-> r]
  BY DEF ProcessSound
<1>2. PICK e : e = [p EXCEPT !.kind = "idle"]
  OBVIOUS
<1>3. e = [kind |-> "idle", page |-> a, ptable |-> b, stack |-> c, image |-> d,
           image_pg_num |-> n, table |-> t, file |-> f, reach |-> r]
  BY <1>1, <1>2
<1>4. PICK o : o = Processing!Over([g \in {Processing!PageOf(StackPointer)} |->
                                         [to |-> p.stack, bits |-> {"X"}]], p.table)
  OBVIOUS
<1>5. Processing!IdleFrom(p) =
        [e EXCEPT !.image = c, !.image_pg_num = 1, !.stack = 0, !.table = o]
  BY <1>1, <1>2, <1>4 DEF Processing!IdleFrom
<1>6. [e EXCEPT !.image = c, !.image_pg_num = 1, !.stack = 0, !.table = o] =
        [kind |-> "idle", page |-> a, ptable |-> b, stack |-> 0, image |-> c,
           image_pg_num |-> 1, table |-> o, file |-> f, reach |-> r]
  <2>1. PICK e1 : e1 = [e EXCEPT !.image = c]
    OBVIOUS
  <2>2. e1 = [kind |-> "idle", page |-> a, ptable |-> b, stack |-> c, image |-> c,
              image_pg_num |-> n, table |-> t, file |-> f, reach |-> r]
    BY <1>3, <2>1
  <2>3. PICK e2 : e2 = [e1 EXCEPT !.image_pg_num = 1]
    OBVIOUS
  <2>4. e2 = [kind |-> "idle", page |-> a, ptable |-> b, stack |-> c, image |-> c,
              image_pg_num |-> 1, table |-> t, file |-> f, reach |-> r]
    BY <2>2, <2>3
  <2>5. PICK e3 : e3 = [e2 EXCEPT !.stack = 0]
    OBVIOUS
  <2>6. e3 = [kind |-> "idle", page |-> a, ptable |-> b, stack |-> 0, image |-> c,
              image_pg_num |-> 1, table |-> t, file |-> f, reach |-> r]
    BY <2>4, <2>5
  <2>7. PICK e4 : e4 = [e3 EXCEPT !.table = o]
    OBVIOUS
  <2>8. e4 = [kind |-> "idle", page |-> a, ptable |-> b, stack |-> 0, image |-> c,
              image_pg_num |-> 1, table |-> o, file |-> f, reach |-> r]
    BY <2>6, <2>7
  <2> QED
    BY <2>1, <2>3, <2>5, <2>7, <2>8
<1> QED
  BY <1>1, <1>4, <1>5, <1>6

\* How far into its image a file is copied.
ReachOf(f) ==
  LET loads == Processing!Loads(f)
      ends == {Processing!EndOf(loads[i]) - Processing!AddressRange(loads).start : i \in DOMAIN loads}
  IN  CHOOSE e \in ends : \A d \in ends : d <= e

LEMMA LoadedFields ==
  ASSUME NEW p, ProcessSound(p), NEW f, NEW image
  PROVE  \E t : Processing!Loaded(p, f, image) =
           [kind |-> p.kind, page |-> p.page, ptable |-> p.ptable, stack |-> p.stack,
            image |-> image,
            image_pg_num |-> Processing!ImagePages(Processing!AddressRange(Processing!Loads(f))),
            table |-> t, file |-> f, reach |-> ReachOf(f)]
<1>1. PICK k, a, b, c, d, n, t, g, r :
        p = [kind |-> k, page |-> a, ptable |-> b, stack |-> c, image |-> d,
             image_pg_num |-> n, table |-> t, file |-> g, reach |-> r]
  BY DEF ProcessSound
<1>2. PICK m : m = Processing!ImagePages(Processing!AddressRange(Processing!Loads(f)))
  OBVIOUS
<1>3. PICK s : s = ReachOf(f)
  OBVIOUS
<1>4. \E o : Processing!Loaded(p, f, image) =
        [p EXCEPT !.image = image, !.image_pg_num = m, !.file = f, !.reach = s, !.table = o]
  BY <1>1, <1>2, <1>3 DEF Processing!Loaded, ReachOf
<1>5. PICK o : Processing!Loaded(p, f, image) =
        [p EXCEPT !.image = image, !.image_pg_num = m, !.file = f, !.reach = s, !.table = o]
  BY <1>4
<1>6. [p EXCEPT !.image = image, !.image_pg_num = m, !.file = f, !.reach = s, !.table = o] =
        [kind |-> k, page |-> a, ptable |-> b, stack |-> c, image |-> image,
             image_pg_num |-> m, table |-> o, file |-> f, reach |-> s]
  <2>1. PICK e1 : e1 = [p EXCEPT !.image = image]
    OBVIOUS
  <2>2. e1 = [kind |-> k, page |-> a, ptable |-> b, stack |-> c, image |-> image,
              image_pg_num |-> n, table |-> t, file |-> g, reach |-> r]
    BY <1>1, <2>1
  <2>3. PICK e2 : e2 = [e1 EXCEPT !.image_pg_num = m]
    OBVIOUS
  <2>4. e2 = [kind |-> k, page |-> a, ptable |-> b, stack |-> c, image |-> image,
              image_pg_num |-> m, table |-> t, file |-> g, reach |-> r]
    BY <2>2, <2>3
  <2>5. PICK e3 : e3 = [e2 EXCEPT !.file = f]
    OBVIOUS
  <2>6. e3 = [kind |-> k, page |-> a, ptable |-> b, stack |-> c, image |-> image,
              image_pg_num |-> m, table |-> t, file |-> f, reach |-> r]
    BY <2>4, <2>5
  <2>7. PICK e4 : e4 = [e3 EXCEPT !.reach = s]
    OBVIOUS
  <2>8. e4 = [kind |-> k, page |-> a, ptable |-> b, stack |-> c, image |-> image,
              image_pg_num |-> m, table |-> t, file |-> f, reach |-> s]
    BY <2>6, <2>7
  <2>9. PICK e5 : e5 = [e4 EXCEPT !.table = o]
    OBVIOUS
  <2>10. e5 = [kind |-> k, page |-> a, ptable |-> b, stack |-> c, image |-> image,
               image_pg_num |-> m, table |-> o, file |-> f, reach |-> s]
    BY <2>8, <2>9
  <2> QED
    BY <2>1, <2>3, <2>5, <2>7, <2>9, <2>10
<1> QED
  BY <1>1, <1>2, <1>3, <1>5, <1>6

LEMMA PNewKeeps ==
  ASSUME ProcessesInv, NEW q \in Processes, NEW user \in BOOLEAN, Processing!PNew(q, user)
  PROVE  ProcessesInv'
<1>1. ~hung /\ q \notin DOMAIN proc
  BY DEF Processing!PNew
<1>2. PICK page, ptable, stack :
        /\ page \in Processing!Znalloc(1) \ {0}
        /\ ptable \in Processing!Znalloc(1) \ {page}
        /\ stack \in Processing!Znalloc(1) \ ({page, ptable} \ {0})
        /\ \/ /\ ptable # 0
              /\ proc' = Processing!Over([r \in {q} |-> Processing!New(page, ptable, stack, user)], proc)
              /\ Processing!Taking({page, ptable, stack})
              /\ hung' = hung
           \/ hung' = TRUE /\ proc' = proc
  BY DEF Processing!PNew
<1>3. CASE hung' = TRUE /\ proc' = proc
  BY <1>3 DEF ProcessesInv, ProcessSound, ImageOf
<1>4. CASE /\ ptable # 0
           /\ proc' = Processing!Over([r \in {q} |-> Processing!New(page, ptable, stack, user)], proc)
           /\ Processing!Taking({page, ptable, stack})
  <2>1. PICK t, k : /\ Processing!New(page, ptable, stack, user) =
                       [kind |-> k, page |-> page, ptable |-> ptable, stack |-> stack, image |-> 0,
                        image_pg_num |-> 0, table |-> t, file |-> None, reach |-> 0]
    BY DEF Processing!New
  <2>2. PICK p : p = Processing!New(page, ptable, stack, user)
    OBVIOUS
  <2>3. \A g \in {page, ptable, stack} : g = 0 \/ (g \in ProcessPages /\ claims[g] > 0)
    BY <1>2, ZnallocOne
  <2>4. /\ page \in ProcessPages /\ ptable \in ProcessPages \ {page}
        /\ stack \in (ProcessPages \ {page, ptable}) \cup {0}
    BY <1>2, <1>4, <2>3, NullIsNoPage
  <2>5. ProcessSound(p) /\ PagesOf(p) = {page, ptable, stack} \ {0}
    BY <2>1, <2>2, <2>4 DEF ProcessSound, PagesOf, ImageOf
  <2>6. proc' = [r \in {q} \cup DOMAIN proc |-> IF r = q THEN p ELSE proc[r]]
    BY <1>4, <2>2 DEF Processing!Over
  <2> QED
    BY <1>1, <1>4, <2>3, <2>5, <2>6, ProcessTakes
<1> QED
  BY <1>2, <1>3, <1>4

LEMMA MakeIdleKeeps ==
  ASSUME ProcessesInv, NEW q \in Processes, Processing!MakeIdle(q)
  PROVE  ProcessesInv'
<1>1. ~hung /\ q \in DOMAIN proc /\ proc[q].kind = "kernel" /\ claims' = claims
  BY DEF Processing!MakeIdle
<1>2. CASE hung' = TRUE /\ proc' = proc
  BY <1>2 DEF ProcessesInv, ProcessSound, ImageOf
<1>3. CASE proc[q].stack # 0 /\ proc' = [proc EXCEPT ![q] = Processing!IdleFrom(@)] /\ hung' = hung
  <2>1. PICK o : o = proc[q]
    OBVIOUS
  <2>2. ProcessSound(o) /\ o.image = 0 /\ o.stack # 0
    BY <1>1, <1>3, <2>1 DEF ProcessesInv, ProcessSound
  <2>3. PICK p : p = Processing!IdleFrom(o)
    OBVIOUS
  <2>4. PICK t : p = [kind |-> "idle", page |-> o.page, ptable |-> o.ptable, stack |-> 0,
                      image |-> o.stack, image_pg_num |-> 1, table |-> t, file |-> o.file,
                      reach |-> o.reach]
    BY <2>2, <2>3, IdleFields
  <2>5. o.stack \in Nat /\ ImageOf(p) = {o.stack}
    BY <2>2, <2>4, NullIsNoPage, OnePageBlock DEF ProcessSound, ImageOf
  <2>6. ProcessSound(p)
    BY <2>2, <2>4, <2>5, NullIsNoPage DEF ProcessSound
  <2>7. PagesOf(p) = PagesOf(o)
    BY <2>2, <2>4, <2>5, NullIsNoPage DEF ProcessSound, PagesOf, ImageOf
  <2>8. proc' = [r \in {q} \cup DOMAIN proc |-> IF r = q THEN p ELSE proc[r]]
    BY <1>1, <1>3, <2>1, <2>3 DEF ProcessesInv
  <2>9. Processing!Taking({})
    <3>1. claims = [k \in ProcessPages |-> claims[k]]
      BY <1>1 DEF ProcessesInv, ClaimsSound
    <3> QED
      BY <1>1, <3>1 DEF Processing!Taking
  <2> QED
    BY <1>1, <2>1, <2>6, <2>7, <2>8, <2>9, ProcessTakes
<1> QED
  BY <1>2, <1>3 DEF Processing!MakeIdle

LEMMA ElfLoadKeeps ==
  ASSUME ProcessesInv, NEW q \in Processes, NEW f \in Files, Processing!ElfLoad(q, f)
  PROVE  ProcessesInv'
<1>1. ~hung /\ q \in DOMAIN proc /\ proc[q].kind = "user" /\ proc[q].file = None
  BY DEF Processing!ElfLoad
<1>2. PICK n : n = Processing!ImagePages(Processing!AddressRange(Processing!Loads(f)))
  OBVIOUS
<1>3. PICK image \in Processing!Znalloc(n) :
        IF image = 0 THEN hung' = TRUE /\ proc' = proc
        ELSE /\ proc' = [proc EXCEPT ![q] = Processing!Loaded(@, f, image)]
             /\ Processing!Taking(Processing!Block(image, n))
             /\ hung' = hung
  BY <1>2 DEF Processing!ElfLoad
<1>4. CASE image = 0
  BY <1>3, <1>4 DEF ProcessesInv, ProcessSound, ImageOf
<1>5. CASE image # 0
  <2>1. PICK o : o = proc[q]
    OBVIOUS
  <2>2. ProcessSound(o) /\ o.image = 0
    BY <1>1, <2>1 DEF ProcessesInv, ProcessSound
  <2>3. PICK p : p = Processing!Loaded(o, f, image)
    OBVIOUS
  <2>4. PICK t, r : p = [kind |-> o.kind, page |-> o.page, ptable |-> o.ptable, stack |-> o.stack,
                         image |-> image, image_pg_num |-> n, table |-> t, file |-> f, reach |-> r]
    BY <1>2, <2>2, <2>3, LoadedFields
  <2>5. ImageOf(p) = Processing!Block(image, n)
    BY <1>5, <2>4 DEF ImageOf
  <2>6. \A g \in Processing!Block(image, n) : g \in ProcessPages /\ claims[g] > 0
    BY <1>3, <1>5 DEF Processing!Znalloc
  <2>7. Processing!Block(image, n) \cap PagesOf(o) = {}
    BY <1>1, <2>1, <2>6 DEF ProcessesInv, ClaimsSound
  <2>8. f # None /\ o.kind = "user"
    BY <1>1, <2>1, MemoryAssumption DEF ProcessingConstants
  <2>9. ImageOf(p) \subseteq ProcessPages \ {o.page, o.ptable, o.stack}
    BY <2>2, <2>5, <2>6, <2>7, NullIsNoPage DEF PagesOf
  <2>10. ProcessSound(p)
    BY <2>2, <2>4, <2>8, <2>9 DEF ProcessSound
  <2>11. PagesOf(p) = PagesOf(o) \cup (Processing!Block(image, n) \ {0})
    <3>1. 0 \notin Processing!Block(image, n)
      BY <2>6, NullIsNoPage
    <3>2. ImageOf(o) = {}
      BY <2>2 DEF ImageOf
    <3> QED
      BY <2>4, <2>5, <3>1, <3>2 DEF PagesOf
  <2>12. proc' = [s \in {q} \cup DOMAIN proc |-> IF s = q THEN p ELSE proc[s]]
    BY <1>1, <1>3, <1>5, <2>1, <2>3 DEF ProcessesInv
  <2> QED
    BY <1>1, <1>3, <1>5, <2>1, <2>6, <2>10, <2>11, <2>12, ProcessTakes
<1> QED
  BY <1>4, <1>5

\* p_free names each page of a process once, and no other.
LEMMA NamesOnce ==
  ASSUME NEW p, ProcessSound(p), NEW g \in ProcessPages
  PROVE  \/ g \in PagesOf(p) /\ \E i \in Int : Processing!Named(p, g) = {i}
         \/ g \notin PagesOf(p) /\ Processing!Named(p, g) = {}
<1>1. /\ g \in Nat /\ g # 0 /\ p.stack \in Nat /\ p.ptable \in Nat \ {0} /\ p.page \in Nat \ {0}
      /\ p.ptable # p.page /\ p.stack # p.page /\ p.stack # p.ptable
      /\ {p.stack, p.ptable, p.page} \cap ImageOf(p) = {}
  BY NullIsNoPage DEF ProcessSound
<1>2. \A i : i \in Processing!Named(p, g) <=>
        \/ i = 1 /\ g = p.stack
        \/ i = 2 /\ g \in ImageOf(p)
        \/ i = 3 /\ g = p.ptable
        \/ i = 4 /\ g = p.page
  <2>1. PICK b : b = Processing!Returned(p)
    OBVIOUS
  <2>2. DOMAIN b = {1, 2, 3, 4}
    BY <2>1 DEF Processing!Returned
  <2>3. /\ b[1][1] = p.stack /\ b[1][2] = 1
        /\ b[2][1] = p.image /\ b[2][2] = p.image_pg_num
        /\ b[3][1] = p.ptable /\ b[3][2] = 1
        /\ b[4][1] = p.page /\ b[4][2] = 1
    BY <2>1 DEF Processing!Returned
  <2>4. \A i : i \in Processing!Named(p, g) <=>
          i \in {1, 2, 3, 4} /\ b[i][1] # 0 /\ g \in Processing!Block(b[i][1], b[i][2])
    BY <2>1, <2>2 DEF Processing!Named
  <2>5. /\ Processing!Block(p.stack, 1) = {p.stack}
        /\ Processing!Block(p.ptable, 1) = {p.ptable}
        /\ Processing!Block(p.page, 1) = {p.page}
    BY <1>1, OnePageBlock
  <2> QED
    BY <1>1, <2>3, <2>4, <2>5 DEF ImageOf
<1>3. g \in PagesOf(p) <=> g \in {p.stack, p.ptable, p.page} \cup ImageOf(p)
  BY <1>1 DEF PagesOf
<1>4. CASE g \notin PagesOf(p)
  BY <1>2, <1>3, <1>4
<1>5. CASE g \in PagesOf(p)
  <2>1. \E i \in Int : \A j : j \in Processing!Named(p, g) <=> j = i
    BY <1>1, <1>2, <1>3, <1>5
  <2> QED
    BY <1>5, <2>1
<1> QED
  BY <1>4, <1>5

LEMMA ProcessingCardinality ==
  /\ Processing!Cardinality({}) = 0
  /\ \A x : Processing!Cardinality({x}) = 1
<1>1. \A S : Processing!Cardinality(S) = Cardinality(S)
  BY DEF Processing!Cardinality, Cardinality
<1> QED
  BY <1>1, FS_EmptySet, FS_Singleton

LEMMA PFreeKeeps ==
  ASSUME ProcessesInv, NEW q, Processing!PFree(q)
  PROVE  ProcessesInv'
<1>1. /\ ~hung /\ q \in DOMAIN proc
      /\ proc' = [r \in DOMAIN proc \ {q} |-> proc[r]]
      /\ hung' = hung
  BY DEF Processing!PFree
<1>2. PICK p : p = proc[q]
  OBVIOUS
<1>3. ProcessSound(p) /\ ClaimsSound
  BY <1>1, <1>2 DEF ProcessesInv
<1>4. claims' = [g \in ProcessPages |-> claims[g] + Processing!Cardinality(Processing!Named(p, g))]
  BY <1>2 DEF Processing!PFree, Processing!Named
<1>5. \A r \in DOMAIN proc' : proc'[r] = proc[r] /\ r \in DOMAIN proc /\ r # q
  BY <1>1
<1>6. ASSUME NEW g \in ProcessPages
      PROVE  claims[g] + Processing!Cardinality(Processing!Named(p, g))
               = IF \E r \in DOMAIN proc' : g \in PagesOf(proc'[r]) THEN 0 ELSE 1
  <2>1. claims[g] = IF \E r \in DOMAIN proc : g \in PagesOf(proc[r]) THEN 0 ELSE 1
    BY <1>3 DEF ClaimsSound
  <2>2. CASE g \in PagesOf(p)
    <3>1. claims[g] = 0
      BY <1>1, <1>2, <2>1, <2>2
    <3>2. ~\E r \in DOMAIN proc' : g \in PagesOf(proc'[r])
      BY <1>1, <1>2, <1>3, <1>5, <2>2 DEF ClaimsSound
    <3>3. Processing!Cardinality(Processing!Named(p, g)) = 1
      BY <1>3, <2>2, NamesOnce, ProcessingCardinality
    <3> QED
      BY <3>1, <3>2, <3>3
  <2>3. CASE g \notin PagesOf(p)
    <3>1. (\E r \in DOMAIN proc' : g \in PagesOf(proc'[r])) <=>
          \E r \in DOMAIN proc : g \in PagesOf(proc[r])
      <4>1. \A r \in DOMAIN proc : g \in PagesOf(proc[r]) => r \in DOMAIN proc'
        BY <1>1, <1>2, <2>3
      <4> QED
        BY <1>5, <4>1
    <3>2. Processing!Cardinality(Processing!Named(p, g)) = 0
      BY <1>3, <2>3, NamesOnce, ProcessingCardinality
    <3>3. claims[g] \in Int
      BY <2>1
    <3>4. claims[g] = IF \E r \in DOMAIN proc' : g \in PagesOf(proc'[r]) THEN 0 ELSE 1
      BY <2>1, <3>1
    <3> QED
      BY <3>2, <3>3, <3>4
  <2> QED
    BY <2>2, <2>3
<1>7. claims' = [g \in ProcessPages |->
                   IF \E r \in DOMAIN proc' : g \in PagesOf(proc'[r]) THEN 0 ELSE 1]
  BY <1>4, <1>6, Zenon
<1>8. \A r, s \in DOMAIN proc' : r # s => PagesOf(proc'[r]) \cap PagesOf(proc'[s]) = {}
  BY <1>3, <1>5 DEF ClaimsSound
<1>9. ClaimsSound'
  BY <1>7, <1>8 DEF ClaimsSound, PagesOf, ImageOf
<1> QED
  BY <1>1, <1>5, <1>9 DEF ProcessesInv, ProcessSound, ImageOf

LEMMA CopiesKeepProcesses ==
  ASSUME ProcessesInv, UNCHANGED <<proc, claims, hung>>
  PROVE  ProcessesInv'
<1>1. ClaimsSound => ClaimsSound'
  BY DEF ClaimsSound, PagesOf, ImageOf
<1>2. \A q \in DOMAIN proc : ProcessSound(proc[q])'
  BY DEF ProcessesInv, ProcessSound, ImageOf
<1> QED
  BY <1>1, <1>2 DEF ProcessesInv

LEMMA NextProcessesInv == ProcessesInv /\ [Processing!Next]_(Processing!vars) => ProcessesInv'
<1> SUFFICES ASSUME ProcessesInv, [Processing!Next]_(Processing!vars) PROVE ProcessesInv'
  OBVIOUS
<1>1. ASSUME NEW q \in Processes, NEW f \in Files, Processing!ElfRefused(q, f)
      PROVE  ProcessesInv'
  BY <1>1, PFreeKeeps DEF Processing!ElfRefused
<1>2. ASSUME NEW q \in Processes, NEW c \in Copies, Processing!CopyStart(q, c)
      PROVE  ProcessesInv'
  BY <1>2, CopiesKeepProcesses DEF Processing!CopyStart
<1>3. CASE Processing!CopyTurn \/ Processing!CopyReturn \/ Processing!CopyDone
  BY <1>3, CopiesKeepProcesses DEF Processing!CopyTurn, Processing!CopyReturn, Processing!CopyDone
<1>4. CASE UNCHANGED Processing!vars
  BY <1>4, CopiesKeepProcesses DEF Processing!vars
<1> QED
  BY <1>1, <1>2, <1>3, <1>4, PNewKeeps, MakeIdleKeeps, PFreeKeeps, ElfLoadKeeps DEF Processing!Next

LEMMA InitProcessesInv == Processing!Init => ProcessesInv
<1> SUFFICES ASSUME Processing!Init PROVE ProcessesInv
  OBVIOUS
<1>1. DOMAIN proc = {} /\ proc = [q \in DOMAIN proc |-> proc[q]] /\ claims = [g \in ProcessPages |-> 1]
  BY DEF Processing!Init
<1> QED
  BY <1>1 DEF ProcessesInv, ClaimsSound

LEMMA PagesComeBack == ProcessesInv => Processing!PagesReturnedOnce
<1> SUFFICES ASSUME ProcessesInv, ~hung, NEW g \in ProcessPages
             PROVE  claims[g] + Processing!Cardinality(
                      UNION {{<<q, i>> : i \in Processing!Named(proc[q], g)} : q \in DOMAIN proc}) = 1
  BY DEF Processing!PagesReturnedOnce, Processing!Live
<1> DEFINE Names == UNION {{<<q, i>> : i \in Processing!Named(proc[q], g)} : q \in DOMAIN proc}
<1>1. ClaimsSound /\ \A q \in DOMAIN proc : ProcessSound(proc[q])
  BY DEF ProcessesInv
<1>2. claims[g] = IF \E q \in DOMAIN proc : g \in PagesOf(proc[q]) THEN 0 ELSE 1
  BY <1>1 DEF ClaimsSound
<1>3. CASE \E q \in DOMAIN proc : g \in PagesOf(proc[q])
  <2>1. PICK q \in DOMAIN proc : g \in PagesOf(proc[q])
    BY <1>3
  <2>2. PICK i : Processing!Named(proc[q], g) = {i}
    BY <1>1, <2>1, NamesOnce
  <2>3. \A r \in DOMAIN proc \ {q} : Processing!Named(proc[r], g) = {}
    BY <1>1, <2>1, NamesOnce DEF ClaimsSound
  <2>4. Names = {<<q, i>>}
    BY <2>1, <2>2, <2>3
  <2>5. claims[g] = 0 /\ Processing!Cardinality(Names) = 1
    <3> HIDE DEF Names
    <3> QED
      BY <1>2, <2>1, <2>4, ProcessingCardinality
  <2> QED
    BY <2>5
<1>4. CASE ~\E q \in DOMAIN proc : g \in PagesOf(proc[q])
  <2>1. \A r \in DOMAIN proc : Processing!Named(proc[r], g) = {}
    BY <1>1, <1>4, NamesOnce
  <2>2. Names = {}
    BY <2>1
  <2> QED
    BY <1>2, <1>4, <2>2, ProcessingCardinality
<1> QED
  BY <1>3, <1>4

\* No page is lost and none goes back twice: for requests of one and two pages the books of
\* the page allocator have the pages of live blocks and the tail's (cpage.c:89-126), and
\* p_free returns each page of a process once, whatever became of it (process.c:68-118,
\* main.c:46-69).
THEOREM PagesAlwaysAccounted ==
  ASSUME Sizes \subseteq {1, 2}
  PROVE  Spec /\ Processing!Spec => []PagesAccounted
<1>1. Spec => [](TypeOK /\ BlocksMarked /\ Accounted)
  BY BooksThm
<1>2. Processing!Spec => []ProcessesInv
  BY InitProcessesInv, NextProcessesInv, PTL DEF Processing!Spec
<1>3. ProcessesInv /\ Accounted => PagesAccounted
  BY PagesComeBack DEF PagesAccounted
<1> QED
  BY <1>1, <1>2, <1>3, PTL

----------------------------------------------------------------------------
(* The tables of processes *)

LEMMA PageArithmetic ==
  /\ PageSize \in Nat \ {0}
  /\ \A a \in Nat : Processing!PageOf(a) \in Nat
  /\ \A g \in Nat : g * PageSize \in Nat
  /\ \A g \in Nat, k \in 0 .. PageSize - 1 : Processing!PageOf(g * PageSize + k) = g
<1>1. PICK P \in Nat \ {0} : P = PageSize
  BY MemoryAssumption DEF ProcessingConstants
<1>2. \A a \in Nat : a \div P \in Nat
  BY <1>1
<1>3. \A g \in Nat : g * P \in Nat
  BY <1>1
<1>4. ASSUME NEW g \in Nat, NEW k \in 0 .. P - 1
      PROVE  (g * P + k) \div P = g
  <2>1. P \in Nat /\ P > 0 /\ k \in Nat /\ k < P /\ g * P \in Nat
    BY <1>1, <1>3, <1>4
  <2> QED
    BY <2>1
<1> QED
  BY <1>1, <1>2, <1>3, <1>4 DEF Processing!PageOf

\* Something of at least a byte takes at least a page, whole pages as many as they are.
LEMMA PagesNeeded ==
  ASSUME NEW b \in Nat
  PROVE  /\ Processing!PageOf(Processing!AlignUp(b)) \in Nat
         /\ b # 0 => Processing!PageOf(Processing!AlignUp(b)) # 0
<1>1. PICK P \in Nat \ {0} : P = PageSize
  BY PageArithmetic
<1>2. PICK n : n = (b + P - 1) \div P
  OBVIOUS
<1>3. n \in Nat /\ (b # 0 => n # 0)
  <2>1. b + P - 1 \in Nat
    BY <1>1
  <2>2. n \in Nat
    BY <1>1, <1>2, <2>1
  <2>3. b # 0 => n # 0
    BY <1>1, <1>2, <2>1
  <2> QED
    BY <2>2, <2>3
<1>4. Processing!AlignUp(b) = n * PageSize
  BY <1>1, <1>2 DEF Processing!AlignUp
<1>5. 0 \in 0 .. PageSize - 1 /\ n * PageSize + 0 = n * PageSize
  BY <1>3, PageArithmetic
<1>6. Processing!PageOf(n * PageSize + 0) = n
  BY <1>3, <1>5, PageArithmetic
<1> QED
  BY <1>3, <1>4, <1>5, <1>6

\* mmu_map_multiple maps its first page, keeps what lies below it, and is linear.
LEMMA MapsFirst ==
  ASSUME NEW table, NEW v \in Nat, NEW p \in Nat, NEW bytes \in Nat \ {0}, NEW bits, NEW m,
         m = Processing!MapMultiple(table, v, p, bytes, bits)
  PROVE  /\ Processing!PageOf(v) \in DOMAIN m
         /\ m[Processing!PageOf(v)] = [to |-> Processing!PageOf(p), bits |-> bits]
<1>1. PICK n \in Nat : n = Processing!PageOf(Processing!AlignUp(bytes)) /\ n # 0
  BY PagesNeeded
<1>2. PICK i \in Nat, j \in Nat : i = Processing!PageOf(v) /\ j = Processing!PageOf(p)
  BY PageArithmetic
<1>3. PICK new : new = [g \in i .. i + n - 1 |-> [to |-> j + g - i, bits |-> bits]]
  OBVIOUS
<1>4. m = [x \in DOMAIN new \cup DOMAIN table |-> IF x \in DOMAIN new THEN new[x] ELSE table[x]]
  BY <1>1, <1>2, <1>3 DEF Processing!MapMultiple, Processing!Over
<1>5. i \in i .. i + n - 1 /\ j + i - i = j
  BY <1>1
<1>6. i \in DOMAIN new /\ new[i] = [to |-> j, bits |-> bits]
  BY <1>3, <1>5
<1> QED
  BY <1>2, <1>4, <1>6

LEMMA MapsOthers ==
  ASSUME NEW table, NEW v \in Nat, NEW p \in Nat, NEW bytes \in Nat, NEW bits, NEW m,
         m = Processing!MapMultiple(table, v, p, bytes, bits),
         NEW x \in DOMAIN table
  PROVE  /\ x \in DOMAIN m
         /\ \/ m[x] = table[x]
            \/ /\ x \in Int /\ x >= Processing!PageOf(v)
               /\ m[x] = [to |-> Processing!PageOf(p) + x - Processing!PageOf(v), bits |-> bits]
<1>1. PICK n \in Nat : n = Processing!PageOf(Processing!AlignUp(bytes))
  BY PagesNeeded
<1>2. PICK i \in Nat, j \in Nat : i = Processing!PageOf(v) /\ j = Processing!PageOf(p)
  BY PageArithmetic
<1>3. PICK new : new = [g \in i .. i + n - 1 |-> [to |-> j + g - i, bits |-> bits]]
  OBVIOUS
<1>4. m = [y \in DOMAIN new \cup DOMAIN table |-> IF y \in DOMAIN new THEN new[y] ELSE table[y]]
  BY <1>1, <1>2, <1>3 DEF Processing!MapMultiple, Processing!Over
<1>5. DOMAIN new = i .. i + n - 1
  BY <1>3
<1>6. x \in DOMAIN m /\ (m[x] = table[x] \/ (x \in Int /\ x >= i /\ m[x] = [to |-> j + x - i, bits |-> bits]))
  BY <1>3, <1>4, <1>5
<1> QED
  BY <1>2, <1>6

\* What a hart needs of a table to switch to the process and back.
SpawnPages == {Processing!PageOf(Thread[1]), Processing!PageOf(Trap[1])}

Identity(table, g, bits) == g \in DOMAIN table /\ table[g] = [to |-> g, bits |-> bits]

Switchable(p) ==
  /\ p.file = None => /\ \A g \in SpawnPages : Identity(p.table, g, {"X"})
                      /\ Identity(p.table, p.page, {"R", "W"})
  /\ p.kind = "idle" =>
       p.table[Processing!PageOf(StackPointer)] = [to |-> p.image, bits |-> {"X"}]

\* A range that begins at its own page is mapped to itself there, and to itself stays
\* what was so under the same bits, or lies below the range.
LEMMA IdentityFirst ==
  ASSUME NEW table, NEW v \in Nat, NEW p \in Nat, NEW bytes \in Nat \ {0}, NEW bits, NEW m,
         m = Processing!MapMultiple(table, v, p, bytes, bits),
         Processing!PageOf(v) = Processing!PageOf(p)
  PROVE  Identity(m, Processing!PageOf(v), bits)
  BY MapsFirst DEF Identity

LEMMA IdentitySame ==
  ASSUME NEW table, NEW v \in Nat, NEW p \in Nat, NEW bytes \in Nat, NEW bits, NEW m,
         m = Processing!MapMultiple(table, v, p, bytes, bits),
         Processing!PageOf(v) = Processing!PageOf(p),
         NEW g \in Int, Identity(table, g, bits)
  PROVE  Identity(m, g, bits)
<1>1. PICK i \in Nat : i = Processing!PageOf(v) /\ i = Processing!PageOf(p)
  BY PageArithmetic
<1>2. g \in DOMAIN table /\ table[g] = [to |-> g, bits |-> bits]
  BY DEF Identity
<1>3. g \in DOMAIN m /\ (m[g] = table[g] \/ m[g] = [to |-> i + g - i, bits |-> bits])
  BY <1>1, <1>2, MapsOthers
<1>4. i + g - i = g
  OBVIOUS
<1> QED
  BY <1>2, <1>3, <1>4 DEF Identity

LEMMA IdentityBelow ==
  ASSUME NEW table, NEW v \in Nat, NEW p \in Nat, NEW bytes \in Nat, NEW bits, NEW m,
         m = Processing!MapMultiple(table, v, p, bytes, bits),
         NEW g \in Int, g < Processing!PageOf(v), NEW own, Identity(table, g, own)
  PROVE  Identity(m, g, own)
<1>1. PICK i \in Nat : i = Processing!PageOf(v)
  BY PageArithmetic
<1>2. g \in DOMAIN table /\ table[g] = [to |-> g, bits |-> own]
  BY DEF Identity
<1>3. PICK j \in Nat : j = Processing!PageOf(p)
  BY PageArithmetic
<1>4. g \in DOMAIN m /\ (m[g] = table[g] \/ (g >= i /\ m[g] = [to |-> j + g - i, bits |-> bits]))
  BY <1>1, <1>2, <1>3, MapsOthers
<1> QED
  BY <1>1, <1>2, <1>4 DEF Identity

\* Code that lies in one page is mapped to itself, and code mapped to itself stays so.
LEMMA CodeMapped ==
  ASSUME NEW table, NEW code \in (Nat \ {0}) \X Nat, Processing!OnePage(code)
  PROVE  /\ Identity(Processing!MapCode(table, code), Processing!PageOf(code[1]), {"X"})
         /\ \A g \in Int : Identity(table, g, {"X"}) =>
                             Identity(Processing!MapCode(table, code), g, {"X"})
<1>1. PICK x : x = {"X"}
  OBVIOUS
<1>2. PICK a \in Nat \ {0}, b \in Nat : a = code[1] /\ b = code[2]
  OBVIOUS
<1>3. PICK m : m = Processing!MapMultiple(table, a, b, a, x)
  OBVIOUS
<1>4. m = Processing!MapCode(table, code)
  BY <1>1, <1>2, <1>3 DEF Processing!MapCode
<1>5. Processing!PageOf(a) = Processing!PageOf(b)
  BY <1>2 DEF Processing!OnePage
<1>6. Identity(m, Processing!PageOf(a), x)
  BY <1>3, <1>5, IdentityFirst
<1>7. \A g \in Int : Identity(table, g, x) => Identity(m, g, x)
  BY <1>3, <1>5, IdentitySame
<1> QED
  BY <1>1, <1>2, <1>4, <1>6, <1>7

LEMMA SpawnBelow ==
  /\ Thread \in (Nat \ {0}) \X Nat /\ Trap \in (Nat \ {0}) \X Nat
  /\ \A page \in ProcessPages : \A g \in SpawnPages : g \in Nat /\ g < page
<1>1. Thread \in (Nat \ {0}) \X Nat /\ Trap \in (Nat \ {0}) \X Nat
  BY MemoryAssumption DEF ProcessingConstants
<1>2. Processing!PageOf(Thread[1]) \in Nat /\ Processing!PageOf(Trap[1]) \in Nat
  BY <1>1, PageArithmetic
<1> QED
  BY <1>1, <1>2, MemoryAssumption DEF ProcessingConstants, SpawnPages

LEMMA InitTableMaps ==
  ASSUME Processing!OnePage(Thread), Processing!OnePage(Trap), NEW page \in ProcessPages
  PROVE  /\ \A g \in SpawnPages : Identity(Processing!InitTable(page), g, {"X"})
         /\ Identity(Processing!InitTable(page), page, {"R", "W"})
<1>1. /\ Thread \in (Nat \ {0}) \X Nat /\ Trap \in (Nat \ {0}) \X Nat
      /\ page \in Nat /\ page # 0
      /\ \A g \in SpawnPages : g < page /\ g \in Nat
  BY SpawnBelow, NullIsNoPage
<1>2. PICK c : c = Processing!MapCode(Processing!MapCode(Processing!NoTable, Thread), Trap)
  OBVIOUS
<1>3. \A g \in SpawnPages : Identity(c, g, {"X"})
  <2>1. PICK t : t = Processing!MapCode(Processing!NoTable, Thread)
    OBVIOUS
  <2>2. Identity(t, Processing!PageOf(Thread[1]), {"X"})
    BY <1>1, <2>1, CodeMapped
  <2>3. Processing!PageOf(Thread[1]) \in Int
    BY <1>1 DEF SpawnPages
  <2>4. Identity(c, Processing!PageOf(Thread[1]), {"X"}) /\ Identity(c, Processing!PageOf(Trap[1]), {"X"})
    BY <1>1, <1>2, <2>1, <2>2, <2>3, CodeMapped
  <2> QED
    BY <2>4 DEF SpawnPages
<1>4. PICK v \in Nat \ {0}, f \in Nat :
        v = page * PageSize /\ f = page * PageSize + Processing!FrameSize
  <2>1. PICK P \in Nat \ {0} : P = PageSize
    BY PageArithmetic
  <2>2. page * P \in Nat /\ page * P # 0 /\ P \div 2 \in Nat
    BY <1>1, <2>1
  <2> QED
    BY <2>1, <2>2 DEF Processing!FrameSize
<1>5. Processing!PageOf(v) = page /\ Processing!PageOf(f) = page
  <2>1. PICK P \in Nat \ {0} : P = PageSize
    BY PageArithmetic
  <2>2. 0 \in 0 .. P - 1 /\ P \div 2 \in 0 .. P - 1
    BY <2>1
  <2>3. v + 0 = v
    OBVIOUS
  <2> QED
    BY <1>1, <1>4, <2>1, <2>2, <2>3, PageArithmetic DEF Processing!FrameSize
<1>6. PICK w : w = {"R", "W"}
  OBVIOUS
<1>7. PICK m : m = Processing!MapMultiple(c, v, f, v, w)
  OBVIOUS
<1>8. m = Processing!InitTable(page)
  BY <1>2, <1>4, <1>6, <1>7 DEF Processing!InitTable, Processing!MapFrame
<1>9. Identity(m, page, w)
  BY <1>4, <1>5, <1>7, IdentityFirst
<1>10. PICK x : x = {"X"}
  OBVIOUS
<1>11. \A g \in SpawnPages : Identity(c, g, x) /\ g \in Int /\ g < Processing!PageOf(v)
  BY <1>1, <1>3, <1>5, <1>10
<1>12. \A g \in SpawnPages : Identity(m, g, x)
  BY <1>4, <1>7, <1>11, IdentityBelow
<1> QED
  BY <1>6, <1>8, <1>9, <1>10, <1>12

LEMMA NewSwitchable ==
  ASSUME Processing!OnePage(Thread), Processing!OnePage(Trap),
         NEW page \in ProcessPages, NEW ptable, NEW stack \in Nat, NEW user \in BOOLEAN
  PROVE  Switchable(Processing!New(page, ptable, stack, user))
<1>1. PICK t : t = Processing!InitTable(page)
  OBVIOUS
<1>2. PICK x, w : x = {"X"} /\ w = {"R", "W"}
  OBVIOUS
<1>3. Identity(t, page, w) /\ \A g \in SpawnPages : Identity(t, g, x)
  BY <1>1, <1>2, InitTableMaps
<1>4. PICK v \in Nat, e \in Nat, b \in Nat :
        v = StackPointer /\ e = StackPointer + PageSize /\ b = stack * PageSize
  <2>1. PICK P \in Nat : P = PageSize
    BY PageArithmetic
  <2> QED
    BY <2>1, MemoryAssumption DEF ProcessingConstants
<1>5. page < Processing!PageOf(v) /\ page \in Int
  BY <1>4, MemoryAssumption DEF ProcessingConstants
<1>6. \A g \in SpawnPages : g \in Int /\ g < Processing!PageOf(v)
  <2>1. PICK i \in Nat : i = Processing!PageOf(v)
    BY PageArithmetic
  <2>2. \A g \in SpawnPages : g \in Int /\ g < page
    BY SpawnBelow
  <2> QED
    BY <1>5, <2>1, <2>2
<1>7. PICK bits : bits = IF user THEN {"U", "R", "W"} ELSE {"R", "W"}
  OBVIOUS
<1>8. PICK m : m = Processing!MapMultiple(t, v, e, b, bits)
  OBVIOUS
<1>9. m = Processing!StackTable(page, stack, user)
  BY <1>1, <1>4, <1>7, <1>8 DEF Processing!StackTable
<1>10. Identity(m, page, w)
  BY <1>3, <1>4, <1>5, <1>8, IdentityBelow
<1>11. \A g \in SpawnPages : Identity(m, g, x)
  BY <1>3, <1>4, <1>6, <1>8, IdentityBelow
<1>12. PICK p : p = Processing!New(page, ptable, stack, user)
  OBVIOUS
<1>13. p.table = m /\ p.page = page /\ p.kind # "idle"
  BY <1>9, <1>12 DEF Processing!New
<1> QED
  BY <1>2, <1>10, <1>11, <1>12, <1>13 DEF Switchable

LEMMA IdleSwitchable ==
  ASSUME NEW p, ProcessSound(p), Switchable(p)
  PROVE  Switchable(Processing!IdleFrom(p))
<1>1. PICK s \in Nat : s = Processing!PageOf(StackPointer)
  BY PageArithmetic, MemoryAssumption DEF ProcessingConstants
<1>2. PICK new : new = [g \in {s} |-> [to |-> p.stack, bits |-> {"X"}]]
  OBVIOUS
<1>3. PICK t : t = [y \in {s} \cup DOMAIN p.table |-> IF y = s THEN new[y] ELSE p.table[y]]
  OBVIOUS
<1>4. t = Processing!Over([g \in {Processing!PageOf(StackPointer)} |->
                             [to |-> p.stack, bits |-> {"X"}]], p.table)
  BY <1>1, <1>2, <1>3 DEF Processing!Over
<1>5. PICK i : i = Processing!IdleFrom(p)
  OBVIOUS
<1>6. i = [kind |-> "idle", page |-> p.page, ptable |-> p.ptable, stack |-> 0,
           image |-> p.stack, image_pg_num |-> 1, table |-> t, file |-> p.file, reach |-> p.reach]
  BY <1>4, <1>5, IdleFields
<1>7. \A g \in Int : \A bits : g < s /\ Identity(p.table, g, bits) => Identity(t, g, bits)
  BY <1>3 DEF Identity
<1>8. p.page \in Int /\ p.page < s /\ \A g \in SpawnPages : g \in Int /\ g < s
  <2>1. p.page \in ProcessPages
    BY DEF ProcessSound
  <2>2. p.page \in Nat /\ p.page < s
    BY <1>1, <2>1, MemoryAssumption DEF ProcessingConstants
  <2> QED
    BY <2>1, <2>2, SpawnBelow
<1>9. t[s] = [to |-> p.stack, bits |-> {"X"}]
  BY <1>2, <1>3
<1>10. PICK x, w : x = {"X"} /\ w = {"R", "W"}
  OBVIOUS
<1>11. p.file = None => Identity(p.table, p.page, w) /\ \A g \in SpawnPages : Identity(p.table, g, x)
  BY <1>10 DEF Switchable
<1>12. p.file = None => Identity(t, p.page, w) /\ \A g \in SpawnPages : Identity(t, g, x)
  BY <1>7, <1>8, <1>11
<1> QED
  BY <1>1, <1>5, <1>6, <1>9, <1>10, <1>12 DEF Switchable

\* Every process there is can be switched to; also when the hart hangs.
TablesInv ==
  ProcessesInv /\ (Processing!OnePage(Thread) /\ Processing!OnePage(Trap)
                     => \A q \in DOMAIN proc : Switchable(proc[q]))

LEMMA NextTablesInv == TablesInv /\ [Processing!Next]_(Processing!vars) => TablesInv'
<1> SUFFICES ASSUME TablesInv, [Processing!Next]_(Processing!vars),
                    Processing!OnePage(Thread), Processing!OnePage(Trap)
             PROVE  \A r \in DOMAIN proc' : Switchable(proc'[r])
  BY NextProcessesInv DEF TablesInv, Processing!OnePage, Processing!PageOf
<1>1. ProcessesInv /\ \A r \in DOMAIN proc : ProcessSound(proc[r]) /\ Switchable(proc[r])
  BY DEF TablesInv, ProcessesInv
<1>2. ASSUME NEW q \in Processes, NEW user \in BOOLEAN, Processing!PNew(q, user), proc' # proc
      PROVE  \A r \in DOMAIN proc' : Switchable(proc'[r])
  <2>1. PICK page \in Processing!Znalloc(1) \ {0} : \E ptable, stack \in Processing!Znalloc(1) :
          proc' = Processing!Over([r \in {q} |-> Processing!New(page, ptable, stack, user)], proc)
    BY <1>2 DEF Processing!PNew
  <2>2. PICK ptable, stack \in Processing!Znalloc(1) :
          proc' = Processing!Over([r \in {q} |-> Processing!New(page, ptable, stack, user)], proc)
    BY <2>1
  <2>3. page \in ProcessPages /\ (stack = 0 \/ stack \in ProcessPages)
    BY <2>1, <2>2, ZnallocOne
  <2>4. PICK p : p = Processing!New(page, ptable, stack, user)
    OBVIOUS
  <2>5. Switchable(p)
    BY <2>3, <2>4, NewSwitchable, NullIsNoPage
  <2>6. proc' = [r \in {q} \cup DOMAIN proc |-> IF r = q THEN p ELSE proc[r]]
    BY <2>2, <2>4 DEF Processing!Over
  <2> QED
    BY <1>1, <2>5, <2>6
<1>3. ASSUME NEW q \in Processes, Processing!MakeIdle(q), proc' # proc
      PROVE  \A r \in DOMAIN proc' : Switchable(proc'[r])
  <2>1. q \in DOMAIN proc /\ proc' = [proc EXCEPT ![q] = Processing!IdleFrom(@)]
    BY <1>3 DEF Processing!MakeIdle
  <2>2. PICK o, p : o = proc[q] /\ p = Processing!IdleFrom(o)
    OBVIOUS
  <2>3. Switchable(p)
    BY <1>1, <2>1, <2>2, IdleSwitchable
  <2>4. DOMAIN proc' = DOMAIN proc /\ \A r \in DOMAIN proc : proc'[r] = IF r = q THEN p ELSE proc[r]
    BY <1>1, <2>1, <2>2 DEF ProcessesInv
  <2> QED
    BY <1>1, <2>3, <2>4
<1>4. ASSUME NEW q \in Processes, NEW f \in Files, Processing!ElfLoad(q, f), proc' # proc
      PROVE  \A r \in DOMAIN proc' : Switchable(proc'[r])
  <2>1. PICK image : /\ q \in DOMAIN proc /\ proc[q].kind = "user"
                     /\ proc' = [proc EXCEPT ![q] = Processing!Loaded(@, f, image)]
    BY <1>4 DEF Processing!ElfLoad
  <2>2. PICK o, p : o = proc[q] /\ p = Processing!Loaded(o, f, image)
    OBVIOUS
  <2>3. p.file = f /\ p.kind = "user"
    BY <1>1, <2>1, <2>2, LoadedFields
  <2>4. Switchable(p)
    BY <2>3, MemoryAssumption DEF Switchable, ProcessingConstants
  <2>5. DOMAIN proc' = DOMAIN proc /\ \A r \in DOMAIN proc : proc'[r] = IF r = q THEN p ELSE proc[r]
    BY <1>1, <2>1, <2>2 DEF ProcessesInv
  <2> QED
    BY <1>1, <2>4, <2>5
<1>5. ASSUME NEW q, Processing!PFree(q)
      PROVE  \A r \in DOMAIN proc' : Switchable(proc'[r])
  BY <1>1, <1>5 DEF Processing!PFree
<1>6. CASE proc' = proc
  BY <1>1, <1>6
<1>7. ASSUME NEW q \in Processes, NEW f \in Files, Processing!ElfRefused(q, f)
      PROVE  \A r \in DOMAIN proc' : Switchable(proc'[r])
  BY <1>5, <1>7 DEF Processing!ElfRefused
<1>8. CASE \/ \E q \in Processes, c \in Copies : Processing!CopyStart(q, c)
           \/ Processing!CopyTurn \/ Processing!CopyReturn \/ Processing!CopyDone
           \/ UNCHANGED Processing!vars
  BY <1>6, <1>8 DEF Processing!CopyStart, Processing!CopyTurn, Processing!CopyReturn,
                    Processing!CopyDone, Processing!vars
<1> QED
  BY <1>2, <1>3, <1>4, <1>5, <1>6, <1>7, <1>8 DEF Processing!Next

\* A hart can switch to every process that is not from a file and back: the spawn code
\* and the frame are mapped to themselves, and whatever is mapped later for the stack
\* and the image of an idle process leaves them so (process.c:44-54, main.c:46-69,
\* spawn.S:97-172).
THEOREM SwitchAlwaysSafe == Processing!Spec => []SwitchSafe
<1>1. Processing!Init => TablesInv
  BY InitProcessesInv DEF TablesInv, Processing!Init
<1>2. TablesInv => SwitchSafe
  <2> SUFFICES ASSUME TablesInv, Processing!OnePage(Thread), Processing!OnePage(Trap),
                      NEW q \in DOMAIN proc
               PROVE  /\ proc[q].file = None =>
                           /\ \A g \in SpawnPages : proc[q].table[g] = [to |-> g, bits |-> {"X"}]
                           /\ proc[q].table[proc[q].page] =
                                [to |-> proc[q].page, bits |-> {"R", "W"}]
                      /\ proc[q].kind = "idle" =>
                           proc[q].table[Processing!PageOf(StackPointer)] =
                             [to |-> proc[q].image, bits |-> {"X"}]
    BY DEF SwitchSafe, Processing!SwitchSafe, Processing!Live, SpawnPages
  <2> QED
    BY DEF TablesInv, Switchable, Identity
<1> QED
  BY <1>1, <1>2, NextTablesInv, PTL DEF Processing!Spec

----------------------------------------------------------------------------
(* The copies of uaccess.c *)

\* An address lies in its page, and the end of the page is at most a page away.
LEMMA PageAround ==
  ASSUME NEW a \in Nat
  PROVE  \E n, d \in Nat : /\ n = Processing!PageOf(a) /\ d = n * PageSize
                           /\ d <= a /\ a < d + PageSize
                           /\ Processing!AlignUp(a) \in Nat
                           /\ a <= Processing!AlignUp(a)
                           /\ Processing!AlignUp(a) <= d + PageSize
<1>1. PICK P \in Nat \ {0} : P = PageSize
  BY PageArithmetic
<1>2. PICK n \in Nat, d \in Nat : n = a \div P /\ d = n * P /\ d <= a /\ a < d + P
  BY <1>1
<1>3. PICK c \in Nat : c = (a + P - 1) \div P
  BY <1>1
<1>4. c <= n + 1
  <2>1. (n + 1) * P = d + P /\ a + P - 1 < (n + 1) * P + P
    BY <1>1, <1>2
  <2> QED
    BY <1>1, <1>2, <1>3, <2>1
<1>5. c * P \in Nat /\ a <= c * P /\ c * P <= d + P
  <2>1. a + P - 1 < c * P + P
    BY <1>1, <1>3
  <2>2. c * P <= (n + 1) * P /\ (n + 1) * P = d + P
    BY <1>1, <1>2, <1>4
  <2> QED
    BY <1>1, <2>1, <2>2
<1> QED
  BY <1>1, <1>2, <1>3, <1>5 DEF Processing!PageOf, Processing!AlignUp

\* All bytes up to the next page lie in one page.
LEMMA SamePage ==
  ASSUME NEW a \in Nat, NEW b \in Nat, a <= b, b < Processing!AlignUp(a)
  PROVE  Processing!PageOf(b) = Processing!PageOf(a)
<1>1. PICK P \in Nat \ {0} : P = PageSize
  BY PageArithmetic
<1>2. PICK n, d \in Nat : /\ n = Processing!PageOf(a) /\ d = n * P
                          /\ d <= a /\ Processing!AlignUp(a) \in Nat
                          /\ Processing!AlignUp(a) <= d + P
  BY <1>1, PageAround
<1>3. PICK k \in 0 .. P - 1 : d + k = b
  <2>1. b - d \in 0 .. P - 1 /\ d + (b - d) = b
    BY <1>1, <1>2
  <2> QED
    BY <2>1
<1> QED
  BY <1>1, <1>2, <1>3, PageArithmetic

\* What a copy moved is what it has passed, and all of it was mapped.
CopyInv ==
  copy # None =>
    /\ copy = [q |-> copy.q, addr |-> copy.addr, bytes |-> copy.bytes, i |-> copy.i,
               moved |-> copy.moved, returned |-> copy.returned]
    /\ copy.addr \in Nat /\ copy.bytes \in Nat /\ copy.i \in Nat
    /\ copy.moved = {j \in 0 .. copy.bytes - 1 : j < copy.i}
    /\ \A j \in copy.moved : Processing!PageOf(copy.addr + j) \in DOMAIN proc[copy.q].table
    /\ copy.returned =>
         \/ copy.i >= copy.bytes
         \/ Processing!PageOf(copy.addr + copy.i) \notin DOMAIN proc[copy.q].table

LEMMA CopyTurnKeeps ==
  ASSUME CopyInv, Processing!CopyTurn
  PROVE  CopyInv'
<1>1. copy # None /\ ~copy.returned /\ proc' = proc
  BY DEF Processing!CopyTurn
<1>2. PICK a \in Nat, b \in Nat, i \in Nat : \E q, m, r :
        copy = [q |-> q, addr |-> a, bytes |-> b, i |-> i, moved |-> m, returned |-> r]
  BY <1>1 DEF CopyInv
<1>3. PICK q, m, r :
        copy = [q |-> q, addr |-> a, bytes |-> b, i |-> i, moved |-> m, returned |-> r]
  BY <1>2
<1>4. /\ m = {j \in 0 .. b - 1 : j < i} /\ ~r
      /\ \A j \in m : Processing!PageOf(a + j) \in DOMAIN proc[q].table
  BY <1>1, <1>3 DEF CopyInv
<1>5. i < b /\ Processing!PageOf(a + i) \in DOMAIN proc[q].table
  BY <1>3 DEF Processing!CopyTurn, Processing!Mapped
<1>6. PICK t \in Nat : t = Processing!AlignUp(a + i) - a - i
  <2>1. a + i \in Nat
    OBVIOUS
  <2>2. Processing!AlignUp(a + i) \in Nat /\ a + i <= Processing!AlignUp(a + i)
    BY <2>1, PageAround
  <2>3. Processing!AlignUp(a + i) - a - i \in Nat
    BY <2>2
  <2> QED
    BY <2>3
<1>7. PICK c \in Nat : c = (IF t > b - i THEN b - i ELSE t)
  BY <1>5
<1>8. PICK n : n = m \cup (i .. i + c - 1)
  OBVIOUS
<1>9. copy' = [q |-> q, addr |-> a, bytes |-> b, i |-> i + t, moved |-> n, returned |-> r]
  <2>1. Processing!TillNextPage = t /\ Processing!Chunk = c
    BY <1>3, <1>6, <1>7 DEF Processing!TillNextPage, Processing!Chunk
  <2>2. copy' = [copy EXCEPT !.i = i + t, !.moved = n]
    BY <1>3, <1>8, <2>1 DEF Processing!CopyTurn
  <2>3. PICK e : e = [copy EXCEPT !.i = i + t]
    OBVIOUS
  <2>4. e = [q |-> q, addr |-> a, bytes |-> b, i |-> i + t, moved |-> m, returned |-> r]
    BY <1>3, <2>3
  <2>5. PICK d : d = [e EXCEPT !.moved = n]
    OBVIOUS
  <2>6. d = [q |-> q, addr |-> a, bytes |-> b, i |-> i + t, moved |-> n, returned |-> r]
    BY <2>4, <2>5
  <2> QED
    BY <2>2, <2>3, <2>5, <2>6
<1>10. n = {j \in 0 .. b - 1 : j < i + t}
  BY <1>4, <1>5, <1>7, <1>8
<1>11. ASSUME NEW j \in i .. i + c - 1
       PROVE  Processing!PageOf(a + j) \in DOMAIN proc[q].table
  <2>1. a + i \in Nat /\ a + j \in Nat /\ a + i <= a + j
    OBVIOUS
  <2>2. Processing!AlignUp(a + i) \in Nat
    BY <2>1, PageAround
  <2>3. a + j < Processing!AlignUp(a + i)
    BY <1>6, <1>7, <2>2
  <2> QED
    BY <1>5, <2>1, <2>3, SamePage
<1>12. \A j \in n : Processing!PageOf(a + j) \in DOMAIN proc[q].table
  BY <1>4, <1>8, <1>11
<1> QED
  BY <1>1, <1>4, <1>9, <1>10, <1>12 DEF CopyInv

LEMMA NextCopyInv == CopyInv /\ [Processing!Next]_(Processing!vars) => CopyInv'
<1> SUFFICES ASSUME CopyInv, [Processing!Next]_(Processing!vars) PROVE CopyInv'
  OBVIOUS
<1>1. CASE copy = None /\ copy' = copy
  BY <1>1 DEF CopyInv
<1>2. ASSUME NEW q \in Processes, NEW c \in Copies, Processing!CopyStart(q, c)
      PROVE  CopyInv'
  <2>1. PICK a \in Nat, b \in Nat : a = c.addr /\ b = c.bytes
    BY MemoryAssumption DEF ProcessingConstants
  <2>2. copy' = [q |-> q, addr |-> a, bytes |-> b, i |-> 0, moved |-> {}, returned |-> FALSE]
    BY <1>2, <2>1 DEF Processing!CopyStart
  <2> QED
    BY <2>2 DEF CopyInv
<1>3. CASE Processing!CopyReturn
  <2>1. copy # None /\ proc' = proc /\ copy' = [copy EXCEPT !.returned = TRUE]
    BY <1>3 DEF Processing!CopyReturn
  <2>2. PICK a \in Nat, b \in Nat, i \in Nat : \E q, m, r :
        copy = [q |-> q, addr |-> a, bytes |-> b, i |-> i, moved |-> m, returned |-> r]
    BY <2>1 DEF CopyInv
  <2>3. PICK q, m, r :
          copy = [q |-> q, addr |-> a, bytes |-> b, i |-> i, moved |-> m, returned |-> r]
    BY <2>2
  <2>4. copy' = [q |-> q, addr |-> a, bytes |-> b, i |-> i, moved |-> m, returned |-> TRUE]
    BY <2>1, <2>3
  <2>5. i >= b \/ Processing!PageOf(a + i) \notin DOMAIN proc[q].table
    BY <1>3, <2>3 DEF Processing!CopyReturn, Processing!Mapped
  <2>6. m = {j \in 0 .. b - 1 : j < i} /\ \A j \in m : Processing!PageOf(a + j) \in DOMAIN proc[q].table
    BY <2>1, <2>3 DEF CopyInv
  <2>7. /\ copy' = [q |-> copy'.q, addr |-> copy'.addr, bytes |-> copy'.bytes, i |-> copy'.i,
                    moved |-> copy'.moved, returned |-> copy'.returned]
        /\ copy'.q = q /\ copy'.addr = a /\ copy'.bytes = b /\ copy'.i = i /\ copy'.moved = m
    BY <2>4
  <2> QED
    BY <2>1, <2>5, <2>6, <2>7 DEF CopyInv
<1>4. CASE Processing!CopyDone
  BY <1>4 DEF Processing!CopyDone, CopyInv
<1>5. CASE UNCHANGED Processing!vars
  BY <1>5 DEF CopyInv, Processing!vars
<1>6. ASSUME NEW q \in Processes, NEW user, Processing!PNew(q, user)
      PROVE  CopyInv'
  BY <1>1, <1>6 DEF Processing!PNew
<1>7. ASSUME NEW q \in Processes, Processing!MakeIdle(q) \/ Processing!PFree(q)
      PROVE  CopyInv'
  BY <1>1, <1>7 DEF Processing!MakeIdle, Processing!PFree
<1>8. ASSUME NEW q \in Processes, NEW f, Processing!ElfLoad(q, f) \/ Processing!ElfRefused(q, f)
      PROVE  CopyInv'
  BY <1>1, <1>8 DEF Processing!ElfLoad, Processing!ElfRefused, Processing!PFree
<1> QED
  BY <1>2, <1>3, <1>4, <1>5, <1>6, <1>7, <1>8, CopyTurnKeeps DEF Processing!Next

LEMMA CopiesHonest == CopyInv => Processing!CopyHonest
<1> SUFFICES ASSUME CopyInv, copy # None, copy.returned PROVE Processing!CopyHonest
  BY DEF Processing!CopyHonest
<1>1. PICK a \in Nat, b \in Nat, i \in Nat : \E q, m, r :
        copy = [q |-> q, addr |-> a, bytes |-> b, i |-> i, moved |-> m, returned |-> r]
  BY DEF CopyInv
<1>2. PICK q, m, r :
        copy = [q |-> q, addr |-> a, bytes |-> b, i |-> i, moved |-> m, returned |-> r]
  BY <1>1
<1> DEFINE unmapped == {j \in 0 .. b - 1 : ~(Processing!PageOf(a + j) \in DOMAIN proc[q].table)}
<1>3. /\ m = {j \in 0 .. b - 1 : j < i}
      /\ \A j \in m : Processing!PageOf(a + j) \in DOMAIN proc[q].table
      /\ i >= b \/ Processing!PageOf(a + i) \notin DOMAIN proc[q].table
  BY <1>2 DEF CopyInv
<1>4. m = {j \in 0 .. b - 1 : \A k \in unmapped : j < k}
  <2>1. \A k \in unmapped : k \in Nat /\ k >= i
    BY <1>3
  <2>2. i < b => i \in unmapped
    BY <1>3
  <2> HIDE DEF unmapped
  <2> QED
    BY <1>3, <2>1, <2>2
<1> QED
  BY <1>2, <1>4 DEF Processing!CopyHonest, Processing!Mapped

----------------------------------------------------------------------------
(* The images that elf_load makes *)

LEMMA LeastNumber ==
  ASSUME NEW S \in SUBSET Nat, S # {}
  PROVE  \E m \in S : \A k \in S : m <= k
<1>1. IsWellFoundedOn(OpToRel(<, Nat), Nat)
  BY NatLessThanWellFounded
<1>2. PICK m \in S : \A k \in S : <<k, m>> \notin OpToRel(<, Nat)
  BY <1>1, WFMin
<1>3. \A k \in S : ~(k < m)
  BY <1>2 DEF OpToRel
<1>4. \A k \in S : m <= k
  BY <1>3
<1> QED
  BY <1>4

\* Segments that follow one another: none begins before the first, none ends behind the last.
LEMMA SegmentsRise ==
  ASSUME NEW n \in Nat, NEW v \in [1 .. n -> Nat], NEW e \in [1 .. n -> Nat],
         \A i \in 1 .. n : v[i] <= e[i],
         \A i \in 1 .. n - 1 : e[i] <= v[i + 1]
  PROVE  \A j \in 1 .. n : v[1] <= v[j] /\ \A i \in 1 .. j : e[i] <= e[j]
<1> DEFINE Wrong == {j \in 1 .. n : ~(v[1] <= v[j] /\ \A i \in 1 .. j : e[i] <= e[j])}
<1> SUFFICES ASSUME Wrong # {} PROVE FALSE
  OBVIOUS
<1>1. Wrong \in SUBSET Nat
  OBVIOUS
<1>2. PICK m \in Wrong : \A k \in Wrong : m <= k
  BY <1>1, LeastNumber
<1>3. m \in 1 .. n /\ m # 1
  BY <1>2
<1>4. PICK k \in 1 .. n : k = m - 1 /\ k \in 1 .. n - 1 /\ ~(m <= k)
  BY <1>3
<1>5. v[1] <= v[k] /\ \A i \in 1 .. k : e[i] <= e[k]
  BY <1>2, <1>4
<1>6. v[k] <= e[k] /\ e[k] <= v[m] /\ v[m] <= e[m]
  BY <1>3, <1>4
<1>7. v[1] \in Nat /\ v[k] \in Nat /\ v[m] \in Nat /\ e[k] \in Nat /\ e[m] \in Nat
  BY <1>3, <1>4
<1>8. v[1] <= v[m]
  BY <1>5, <1>6, <1>7
<1>9. ASSUME NEW i \in 1 .. m PROVE e[i] <= e[m]
  <2>1. CASE i = m
    BY <1>7, <2>1
  <2>2. CASE i # m
    <3>1. i \in 1 .. k /\ e[i] \in Nat
      BY <1>3, <1>4, <2>2
    <3> QED
      BY <1>5, <1>6, <1>7, <3>1
  <2> QED
    BY <2>1, <2>2
<1> QED
  BY <1>2, <1>8, <1>9

\* For two and more of them the recursion of elf_load finds where the first begins and
\* where the last ends.
LEMMA RangeOfAscending ==
  ASSUME NEW loads, NEW n \in Nat, n > 1, n = Len(loads),
         NEW v \in [1 .. n -> Nat], NEW e \in [1 .. n -> Nat],
         \A i \in 1 .. n : v[i] = loads[i].vaddr /\ e[i] = Processing!EndOf(loads[i]) /\ v[i] <= e[i],
         \A i \in 1 .. n - 1 : e[i] <= v[i + 1]
  PROVE  Processing!AddressRange(loads) = [start |-> v[1], end |-> e[n]]
<1> DEFINE Turn(g, i) ==
             LET a == loads[i].vaddr
             IN  IF i = 1 THEN [start |-> a, end |-> a]
                 ELSE LET r == g[i - 1]
                      IN  IF r.start > a THEN [r EXCEPT !.start = a]
                          ELSE IF r.end < Processing!EndOf(loads[i])
                               THEN [r EXCEPT !.end = Processing!EndOf(loads[i])]
                               ELSE r
           upTo[i \in 1 .. Len(loads)] == Turn(upTo, i)
           w == [i \in 1 .. n |-> [start |-> v[1], end |-> IF i = 1 THEN v[1] ELSE e[i]]]
<1>1. Processing!AddressRange(loads) = upTo[n]
  BY DEF Processing!AddressRange
<1>2. upTo = CHOOSE g : g = [i \in 1 .. n |-> Turn(g, i)]
  OBVIOUS
<1>3. ASSUME NEW g, NEW h, NEW i \in 1 .. n, i # 1 => g[i - 1] = h[i - 1]
      PROVE  Turn(g, i) = Turn(h, i)
  BY <1>3
<1>4. \A i \in 1 .. n : v[i] <= e[i] /\ \A j \in 1 .. n - 1 : e[j] <= v[j + 1]
  OBVIOUS
<1>5. \A j \in 1 .. n : v[1] <= v[j] /\ \A i \in 1 .. j : e[i] <= e[j]
  BY <1>4, SegmentsRise
<1>6. ASSUME NEW i \in 1 .. n
      PROVE  w[i] = Turn(w, i)
  <2>1. v[i] = loads[i].vaddr /\ e[i] = Processing!EndOf(loads[i]) /\ v[i] <= e[i]
        /\ v[i] \in Nat /\ e[i] \in Nat /\ v[1] \in Nat /\ v[1] <= v[i]
    BY <1>5
  <2>2. CASE i = 1
    BY <2>1, <2>2
  <2>3. CASE i # 1
    <3>1. PICK k \in 1 .. n : k = i - 1
      BY <2>3
    <3>2. PICK r : r = w[k]
      OBVIOUS
    <3>3. PICK d \in Nat : d = IF k = 1 THEN v[1] ELSE e[k]
      BY <2>1, <3>1
    <3>4. r = [start |-> v[1], end |-> d]
      BY <3>2, <3>3
    <3>5. d <= e[i]
      <4>1. CASE k = 1
        BY <2>1, <3>3, <4>1
      <4>2. CASE k # 1
        BY <1>5, <3>1, <3>3, <4>2
      <4> QED
        BY <4>1, <4>2
    <3>6. w[i] = [start |-> v[1], end |-> e[i]]
      BY <2>3
    <3>7. PICK q : q = [r EXCEPT !.end = e[i]]
      OBVIOUS
    <3>8. q = [start |-> v[1], end |-> e[i]]
      BY <3>4, <3>7
    <3>9. r.start = v[1] /\ r.end = d
      BY <3>4
    <3>10. Turn(w, i) = IF d < e[i] THEN q ELSE r
      BY <2>1, <2>3, <3>1, <3>2, <3>7, <3>9
    <3> QED
      BY <2>1, <3>4, <3>5, <3>6, <3>8, <3>10
  <2> QED
    BY <2>2, <2>3
<1> HIDE DEF Turn, upTo
<1>7. w = [i \in 1 .. n |-> Turn(w, i)]
  BY <1>6
<1>8. upTo = [i \in 1 .. n |-> Turn(upTo, i)]
  <2> HIDE DEF w
  <2> QED
    BY <1>2, <1>7, Zenon
<1>9. upTo[n] = w[n]
  <2> DEFINE Wrong == {i \in 1 .. n : upTo[i] # w[i]}
  <2> SUFFICES ASSUME Wrong # {} PROVE FALSE
    OBVIOUS
  <2>1. Wrong \in SUBSET Nat
    OBVIOUS
  <2>2. PICK m \in Wrong : \A k \in Wrong : m <= k
    BY <2>1, LeastNumber
  <2>3. m \in 1 .. n /\ (m # 1 => m - 1 \in 1 .. n /\ ~(m <= m - 1))
    BY <2>2
  <2>4. m # 1 => upTo[m - 1] = w[m - 1]
    BY <2>2, <2>3
  <2>5. Turn(upTo, m) = Turn(w, m)
    BY <1>3, <2>3, <2>4
  <2>6. upTo[m] = Turn(upTo, m) /\ w[m] = Turn(w, m)
    BY <1>6, <1>8, <2>3
  <2> QED
    BY <2>2, <2>5, <2>6
<1> QED
  BY <1>1, <1>9

LEMMA FileFits ==
  ASSUME NEW f \in Files, Processing!Ascending(f), Len(Processing!Loads(f)) > 1
  PROVE  ReachOf(f) <=
           Processing!ImagePages(Processing!AddressRange(Processing!Loads(f))) * PageSize
<1>1. PICK loads : loads = Processing!Loads(f)
  OBVIOUS
<1>2. loads \in Seq([load : BOOLEAN, vaddr : Nat, memsz : Nat])
  BY <1>1, MemoryAssumption DEF ProcessingConstants
<1>3. PICK n \in Nat : n = Len(loads) /\ n > 1
  BY <1>1, <1>2
<1>4. \A i \in 1 .. n : loads[i] \in [load : BOOLEAN, vaddr : Nat, memsz : Nat]
  <2>1. PICK S : S = [load : BOOLEAN, vaddr : Nat, memsz : Nat]
    OBVIOUS
  <2>2. loads \in Seq(S)
    BY <1>2, <2>1
  <2>3. \A i \in 1 .. n : loads[i] \in S
    BY <1>3, <2>2
  <2> QED
    BY <2>1, <2>3
<1>5. PICK v, e : /\ v = [i \in 1 .. n |-> loads[i].vaddr]
                  /\ e = [i \in 1 .. n |-> Processing!EndOf(loads[i])]
  OBVIOUS
<1>6. \A i \in 1 .. n : loads[i].vaddr \in Nat /\ Processing!EndOf(loads[i]) \in Nat
                        /\ loads[i].vaddr <= Processing!EndOf(loads[i])
  BY <1>4 DEF Processing!EndOf
<1>7. v \in [1 .. n -> Nat] /\ e \in [1 .. n -> Nat]
  BY <1>5, <1>6
<1>8. \A i \in 1 .. n : v[i] = loads[i].vaddr /\ e[i] = Processing!EndOf(loads[i]) /\ v[i] <= e[i]
  BY <1>5, <1>6
<1>9. \A i \in 1 .. n - 1 : e[i] <= v[i + 1]
  <2>1. \A i \in 1 .. n - 1 : i \in 1 .. n /\ i + 1 \in 1 .. n
    BY <1>3
  <2>2. \A i \in 1 .. n - 1 : Processing!EndOf(loads[i]) <= loads[i + 1].vaddr
    BY <1>1, <1>3 DEF Processing!Ascending
  <2> QED
    BY <1>8, <2>1, <2>2
<1>10. Processing!AddressRange(loads) = [start |-> v[1], end |-> e[n]]
  BY <1>3, <1>7, <1>8, <1>9, RangeOfAscending
<1>11. PICK a \in Nat, z \in Nat : a = v[1] /\ z = e[n]
  BY <1>3, <1>7
<1>12. ReachOf(f) <= z - a /\ ReachOf(f) \in Int
  <2> DEFINE ends == {Processing!EndOf(loads[i]) - Processing!AddressRange(loads).start
                       : i \in DOMAIN loads}
  <2>1. ReachOf(f) = CHOOSE c \in ends : \A d \in ends : d <= c
    BY <1>1 DEF ReachOf
  <2>2. DOMAIN loads = 1 .. n
    BY <1>2, <1>3
  <2>3. ends = {e[i] - a : i \in 1 .. n}
    BY <1>8, <1>10, <1>11, <2>2
  <2>4. \A i \in 1 .. n : v[i] <= e[i]
    BY <1>8
  <2>5. n \in 1 .. n /\ \A i \in 1 .. n : i \in 1 .. n /\ i <= n
    BY <1>3
  <2>6. \A i \in 1 .. n : e[i] <= e[n]
    BY <1>7, <1>9, <2>4, <2>5, SegmentsRise
  <2>7. \A i \in 1 .. n : e[i] <= z /\ e[i] \in Nat
    BY <1>7, <1>11, <2>6
  <2>8. ASSUME NEW d \in ends PROVE d \in Int /\ d <= z - a
    <3>1. PICK i \in 1 .. n : d = e[i] - a
      BY <2>3
    <3> QED
      BY <1>11, <2>7, <3>1
  <2>9. z - a \in ends
    BY <1>11, <2>3, <2>5
  <2> HIDE DEF ends
  <2> QED
    BY <2>1, <2>8, <2>9
<1>13. PICK P \in Nat \ {0} : P = PageSize
  BY PageArithmetic
<1>14. PICK s, d \in Nat : s = Processing!PageOf(a) /\ d = s * P /\ d <= a
  BY <1>13, PageAround
<1>15. PICK c \in Nat : c = Processing!PageOf(Processing!AlignUp(z)) /\ z <= c * P
  <2>1. PICK g : g = (z + P - 1) \div P
    OBVIOUS
  <2>2. g \in Nat /\ Processing!AlignUp(z) = g * P
    BY <1>13, <2>1 DEF Processing!AlignUp
  <2>3. 0 \in 0 .. P - 1 /\ g * P + 0 = g * P
    BY <1>13, <2>2
  <2>4. Processing!PageOf(g * P) = g
    BY <1>13, <2>2, <2>3, PageArithmetic
  <2>5. z <= Processing!AlignUp(z)
    BY PageAround
  <2> QED
    BY <2>2, <2>4, <2>5
<1>16. Processing!ImagePages(Processing!AddressRange(loads)) = c - s
  BY <1>10, <1>11, <1>14, <1>15 DEF Processing!ImagePages
<1>17. z - a <= (c - s) * P
  <2>1. PICK y \in Nat : y = c * P
    BY <1>13
  <2>2. (c - s) * P = y - d
    BY <1>13, <1>14, <2>1
  <2>3. z <= y
    BY <1>15, <2>1
  <2>4. z - a <= y - d
    BY <1>14, <2>3
  <2> QED
    BY <2>2, <2>4
<1>18. (c - s) * P \in Int
  BY <1>13
<1> QED
  BY <1>1, <1>12, <1>13, <1>16, <1>17, <1>18

\* A process with a file has the image that elf_load made of it.
ImagesInv ==
  ProcessesInv /\ \A q \in DOMAIN proc :
    proc[q].file # None =>
      /\ proc[q].kind = "user" /\ proc[q].file \in Files
      /\ proc[q].image_pg_num =
           Processing!ImagePages(Processing!AddressRange(Processing!Loads(proc[q].file)))
      /\ proc[q].reach = ReachOf(proc[q].file)

LEMMA NextImagesInv == ImagesInv /\ [Processing!Next]_(Processing!vars) => ImagesInv'
<1> DEFINE Made(p) ==
             p.file # None =>
               /\ p.kind = "user" /\ p.file \in Files
               /\ p.image_pg_num =
                    Processing!ImagePages(Processing!AddressRange(Processing!Loads(p.file)))
               /\ p.reach = ReachOf(p.file)
<1> SUFFICES ASSUME ImagesInv, [Processing!Next]_(Processing!vars)
             PROVE  \A r \in DOMAIN proc' : Made(proc'[r])
  BY NextProcessesInv DEF ImagesInv
<1>1. ProcessesInv /\ \A r \in DOMAIN proc : ProcessSound(proc[r]) /\ Made(proc[r])
  BY DEF ImagesInv, ProcessesInv
<1>2. ASSUME NEW q \in Processes, NEW user \in BOOLEAN, Processing!PNew(q, user), proc' # proc
      PROVE  \A r \in DOMAIN proc' : Made(proc'[r])
  <2>1. PICK page \in Processing!Znalloc(1) \ {0} : \E ptable, stack \in Processing!Znalloc(1) :
          proc' = Processing!Over([r \in {q} |-> Processing!New(page, ptable, stack, user)], proc)
    BY <1>2 DEF Processing!PNew
  <2>2. PICK ptable, stack \in Processing!Znalloc(1) :
          proc' = Processing!Over([r \in {q} |-> Processing!New(page, ptable, stack, user)], proc)
    BY <2>1
  <2>3. PICK p : p = Processing!New(page, ptable, stack, user)
    OBVIOUS
  <2>4. p.file = None
    BY <2>3 DEF Processing!New
  <2>5. proc' = [r \in {q} \cup DOMAIN proc |-> IF r = q THEN p ELSE proc[r]]
    BY <2>2, <2>3 DEF Processing!Over
  <2> QED
    BY <1>1, <2>4, <2>5
<1>3. ASSUME NEW q \in Processes, Processing!MakeIdle(q), proc' # proc
      PROVE  \A r \in DOMAIN proc' : Made(proc'[r])
  <2>1. /\ q \in DOMAIN proc /\ proc[q].kind = "kernel"
        /\ proc' = [proc EXCEPT ![q] = Processing!IdleFrom(@)]
    BY <1>3 DEF Processing!MakeIdle
  <2>2. PICK o, p : o = proc[q] /\ p = Processing!IdleFrom(o)
    OBVIOUS
  <2>3. o.file = None
    BY <1>1, <2>1, <2>2
  <2>4. p.file = None
    BY <1>1, <2>1, <2>2, <2>3, IdleFields
  <2>5. DOMAIN proc' = DOMAIN proc /\ \A r \in DOMAIN proc : proc'[r] = IF r = q THEN p ELSE proc[r]
    BY <1>1, <2>1, <2>2 DEF ProcessesInv
  <2> QED
    BY <1>1, <2>4, <2>5
<1>4. ASSUME NEW q \in Processes, NEW f \in Files, Processing!ElfLoad(q, f), proc' # proc
      PROVE  \A r \in DOMAIN proc' : Made(proc'[r])
  <2>1. PICK image : /\ q \in DOMAIN proc /\ proc[q].kind = "user"
                     /\ proc' = [proc EXCEPT ![q] = Processing!Loaded(@, f, image)]
    BY <1>4 DEF Processing!ElfLoad
  <2>2. PICK o, p : o = proc[q] /\ p = Processing!Loaded(o, f, image)
    OBVIOUS
  <2>3. /\ p.file = f /\ p.kind = "user" /\ p.reach = ReachOf(f)
        /\ p.image_pg_num = Processing!ImagePages(Processing!AddressRange(Processing!Loads(f)))
    BY <1>1, <2>1, <2>2, LoadedFields
  <2>4. DOMAIN proc' = DOMAIN proc /\ \A r \in DOMAIN proc : proc'[r] = IF r = q THEN p ELSE proc[r]
    BY <1>1, <2>1, <2>2 DEF ProcessesInv
  <2> QED
    BY <1>1, <2>3, <2>4
<1>5. ASSUME NEW q, Processing!PFree(q)
      PROVE  \A r \in DOMAIN proc' : Made(proc'[r])
  BY <1>1, <1>5 DEF Processing!PFree
<1>6. CASE proc' = proc
  BY <1>1, <1>6
<1>7. ASSUME NEW q \in Processes, NEW f \in Files, Processing!ElfRefused(q, f)
      PROVE  \A r \in DOMAIN proc' : Made(proc'[r])
  BY <1>5, <1>7 DEF Processing!ElfRefused
<1>8. CASE \/ \E q \in Processes, c \in Copies : Processing!CopyStart(q, c)
           \/ Processing!CopyTurn \/ Processing!CopyReturn \/ Processing!CopyDone
           \/ UNCHANGED Processing!vars
  BY <1>6, <1>8 DEF Processing!CopyStart, Processing!CopyTurn, Processing!CopyReturn,
                    Processing!CopyDone, Processing!vars
<1> HIDE DEF Made
<1> QED
  BY <1>2, <1>3, <1>4, <1>5, <1>6, <1>7, <1>8 DEF Processing!Next

LEMMA FilesInside == ImagesInv => Processing!ImageInside
<1> SUFFICES ASSUME ImagesInv, NEW q \in DOMAIN proc, proc[q].file # None,
                    Processing!Ascending(proc[q].file), Len(Processing!Loads(proc[q].file)) > 1
             PROVE  proc[q].reach <= proc[q].image_pg_num * PageSize
  BY DEF Processing!ImageInside, Processing!Live
<1> QED
  BY FileFits DEF ImagesInv

\* What elf_load copies of a file of ascending segments stays in the pages it took, and a
\* copy from or to a process that returns has moved the request up to the first byte that
\* is not mapped (elf.c:21-61, uaccess.c:9-36).
THEOREM ImagesAlwaysSound == Processing!Spec => []ImageSound
<1>1. Processing!Init => ImagesInv /\ CopyInv
  BY InitProcessesInv DEF ImagesInv, CopyInv, Processing!Init
<1> QED
  BY <1>1, NextImagesInv, NextCopyInv, FilesInside, CopiesHonest, PTL
     DEF Processing!Spec, ImageSound

----------------------------------------------------------------------------
(* The byte allocator *)

\* The nodes of N, and the head, in a ring in the order of addresses, both ways.
Ring(next, prev, N) ==
  /\ next \in [Heap!Units -> Heap!Units] /\ prev \in [Heap!Units -> Heap!Units]
  /\ N \subseteq Heap!Units \ {0}
  /\ \A a \in N \cup {0} :
       /\ next[a] \in N \cup {0} /\ prev[a] \in N \cup {0}
       /\ prev[next[a]] = a /\ next[prev[a]] = a
       /\ next[a] # 0 => a < next[a]
  /\ \A a \in N \cup {0}, b \in N : a < b => next[a] # 0 /\ next[a] <= b

Words == [size : [Heap!Units -> 0 .. Word - 1], prev : [Heap!Units -> Heap!Units],
          next : [Heap!Units -> Heap!Units]]

LEMMA UnitsOf ==
  /\ Heap!Top \in Nat \ {0} /\ 0 \in Heap!Units /\ Heap!Head = 0
  /\ Heap!Top <= Word /\ Word \in Nat /\ PageUnits \in Nat \ {0}
  /\ Heap!Units = 0 .. Heap!Top - 1
<1>1. PICK p \in Nat \ {0}, q \in Nat \ {0} : p = PageUnits /\ q = MaxPages + 1
  BY MemoryAssumption DEF HeapConstants
<1>2. q * p \in Nat \ {0}
  BY <1>1
<1> QED
  BY <1>1, <1>2, MemoryAssumption DEF HeapConstants, Heap!Top, Heap!Units, Heap!Head

LEMMA RingNumbers ==
  ASSUME NEW next, NEW prev, NEW N, Ring(next, prev, N)
  PROVE  N \cup {0} \subseteq Heap!Units /\ 0 \notin N /\ \A x \in N \cup {0} : x \in Nat
<1>1. \A x \in Heap!Units : x \in Nat
  BY UnitsOf
<1>2. N \subseteq Heap!Units /\ 0 \notin N /\ 0 \in Heap!Units
  BY UnitsOf DEF Ring
<1> QED
  BY <1>1, <1>2

\* node_append and node_remove.
LEMMA RingGrows ==
  ASSUME NEW next, NEW prev, NEW N, Ring(next, prev, N), NEW a \in N \cup {0},
         NEW b \in Heap!Units \ {0}, b \notin N, a < b, next[a] = 0 \/ b < next[a]
  PROVE  Ring([next EXCEPT ![b] = next[a], ![a] = b], [prev EXCEPT ![b] = a, ![next[a]] = b],
              N \cup {b})
<1> DEFINE n == [next EXCEPT ![b] = next[a], ![a] = b]
           p == [prev EXCEPT ![b] = a, ![next[a]] = b]
<1>1. /\ N \cup {0} \subseteq Heap!Units /\ 0 \notin N /\ b # 0 /\ a # b /\ next[a] # b
      /\ next[a] \in N \cup {0} /\ \A x \in N \cup {0} : x \in Nat
      /\ b \in Nat
  <2>1. next[a] \in N \cup {0}
    BY DEF Ring
  <2>2. b \in Nat
    BY UnitsOf
  <2> QED
    BY <2>1, <2>2, RingNumbers
<1>2. n \in [Heap!Units -> Heap!Units] /\ p \in [Heap!Units -> Heap!Units]
  BY <1>1 DEF Ring
<1>3. /\ n[a] = b /\ n[b] = next[a] /\ p[b] = a /\ p[next[a]] = b
      /\ \A x \in N \cup {0} : x # a => n[x] = next[x]
      /\ \A x \in N \cup {0} : x # next[a] => p[x] = prev[x]
  BY <1>1 DEF Ring
<1> HIDE DEF n, p
<1>4. ASSUME NEW x \in N \cup {b} \cup {0}
      PROVE  /\ n[x] \in N \cup {b} \cup {0} /\ p[x] \in N \cup {b} \cup {0}
             /\ p[n[x]] = x /\ n[p[x]] = x
             /\ n[x] # 0 => x < n[x]
  <2>1. CASE x = b
    BY <1>1, <1>3, <2>1 DEF Ring
  <2>2. CASE x = a
    <3>1. n[x] = b /\ p[b] = x /\ x < b
      BY <1>3, <2>2
    <3>2. p[x] \in N \cup {b} \cup {0} /\ n[p[x]] = x
      <4>1. CASE x = next[a]
        BY <1>1, <1>3, <4>1
      <4>2. CASE x # next[a]
        <5>1. p[x] = prev[x] /\ prev[x] \in N \cup {0} /\ next[prev[x]] = x
          BY <1>3, <2>2, <4>2 DEF Ring
        <5>2. prev[x] # a
          BY <4>2, <5>1
        <5> QED
          BY <1>3, <5>1, <5>2
      <4> QED
        BY <4>1, <4>2
    <3> QED
      BY <3>1, <3>2
  <2>3. CASE x \in N \cup {0} /\ x # a
    <3>1. n[x] = next[x] /\ next[x] \in N \cup {0} /\ prev[next[x]] = x
      BY <1>3, <2>3 DEF Ring
    <3>2. next[x] # next[a]
      BY <2>3, <3>1 DEF Ring
    <3>3. p[n[x]] = x /\ (n[x] # 0 => x < n[x])
      BY <1>3, <2>3, <3>1, <3>2 DEF Ring
    <3>4. p[x] \in N \cup {b} \cup {0} /\ n[p[x]] = x
      <4>1. CASE x = next[a]
        BY <1>3, <4>1
      <4>2. CASE x # next[a]
        <5>1. p[x] = prev[x] /\ prev[x] \in N \cup {0} /\ next[prev[x]] = x
          BY <1>3, <2>3, <4>2 DEF Ring
        <5>2. prev[x] # a
          BY <4>2, <5>1
        <5> QED
          BY <1>3, <5>1, <5>2
      <4> QED
        BY <4>1, <4>2
    <3> QED
      BY <3>1, <3>3, <3>4
  <2> QED
    BY <2>1, <2>2, <2>3
<1>5. ASSUME NEW x \in N \cup {b} \cup {0}, NEW y \in N \cup {b}, x < y
      PROVE  n[x] # 0 /\ n[x] <= y
  <2>1. CASE x = b
    <3>1. y \in N /\ a < y
      BY <1>1, <1>5, <2>1
    <3>2. next[a] # 0 /\ next[a] <= y
      BY <3>1 DEF Ring
    <3> QED
      BY <1>3, <2>1, <3>2
  <2>2. CASE x = a
    <3>1. n[x] = b
      BY <1>3, <2>2
    <3>2. CASE y = b
      BY <1>1, <3>1, <3>2
    <3>3. CASE y \in N
      <4>1. next[a] # 0 /\ next[a] <= y
        BY <1>5, <2>2, <3>3 DEF Ring
      <4> QED
        BY <1>1, <3>1, <3>3, <4>1
    <3> QED
      BY <3>2, <3>3
  <2>3. CASE x \in N \cup {0} /\ x # a
    <3>1. n[x] = next[x]
      BY <1>3, <2>3
    <3>2. CASE y \in N
      BY <1>5, <2>3, <3>1, <3>2 DEF Ring
    <3>3. CASE y = b
      <4>1. x < a
        <5>1. a < x => x \in N
          BY <1>1, <2>3
        <5>2. a < x => next[a] # 0 /\ next[a] <= x
          BY <5>1 DEF Ring
        <5>3. a \in Nat /\ x \in Nat /\ next[a] \in Nat
          BY <1>1, <2>3
        <5> QED
          BY <1>1, <1>5, <2>3, <3>3, <5>2, <5>3
      <4>2. a \in N
        BY <1>1, <2>3, <4>1
      <4>3. next[x] # 0 /\ next[x] <= a /\ next[x] \in N \cup {0}
        BY <2>3, <4>1, <4>2 DEF Ring
      <4>4. next[x] \in Nat /\ a \in Nat /\ b \in Nat
        BY <1>1, <4>3
      <4> QED
        BY <3>1, <3>3, <4>3, <4>4
    <3> QED
      BY <3>2, <3>3
  <2> QED
    BY <2>1, <2>2, <2>3
<1>6. N \cup {b} \subseteq Heap!Units \ {0}
  BY DEF Ring
<1>7. Ring(n, p, N \cup {b})
  BY <1>2, <1>4, <1>5, <1>6 DEF Ring
<1> QED
  BY <1>7 DEF n, p

LEMMA RingShrinks ==
  ASSUME NEW next, NEW prev, NEW N, Ring(next, prev, N), NEW b \in N
  PROVE  Ring([next EXCEPT ![prev[b]] = next[b]], [prev EXCEPT ![next[b]] = prev[b]], N \ {b})
<1> DEFINE n == [next EXCEPT ![prev[b]] = next[b]]
           p == [prev EXCEPT ![next[b]] = prev[b]]
<1>1. /\ N \cup {0} \subseteq Heap!Units /\ 0 \notin N /\ b # 0
      /\ next[b] \in N \cup {0} /\ prev[b] \in N \cup {0}
      /\ \A x \in N \cup {0} : x \in Nat
  <2>1. next[b] \in N \cup {0} /\ prev[b] \in N \cup {0}
    BY DEF Ring
  <2> QED
    BY <2>1, RingNumbers
<1>2. next[b] # b /\ prev[b] # b /\ prev[next[b]] = b /\ next[prev[b]] = b
  BY <1>1 DEF Ring
<1>3. n \in [Heap!Units -> Heap!Units] /\ p \in [Heap!Units -> Heap!Units]
  BY <1>1 DEF Ring
<1>4. /\ n[prev[b]] = next[b] /\ p[next[b]] = prev[b]
      /\ \A x \in N \cup {0} : x # prev[b] => n[x] = next[x]
      /\ \A x \in N \cup {0} : x # next[b] => p[x] = prev[x]
  BY <1>1 DEF Ring
<1> HIDE DEF n, p
<1>5. ASSUME NEW x \in (N \ {b}) \cup {0}
      PROVE  /\ n[x] \in (N \ {b}) \cup {0} /\ p[x] \in (N \ {b}) \cup {0}
             /\ p[n[x]] = x /\ n[p[x]] = x
             /\ n[x] # 0 => x < n[x]
  <2>1. x \in N \cup {0} /\ x # b
    BY <1>1
  <2>2. /\ n[x] \in (N \ {b}) \cup {0} /\ p[n[x]] = x /\ (n[x] # 0 => x < n[x])
    <3>1. CASE x = prev[b]
      <4>1. n[x] = next[b] /\ p[n[x]] = x /\ n[x] \in (N \ {b}) \cup {0}
        BY <1>1, <1>2, <1>4, <3>1
      <4>2. next[b] # 0 => b < next[b]
        BY DEF Ring
      <4>3. x < b
        BY <1>1, <1>2, <3>1 DEF Ring
      <4> QED
        BY <1>1, <4>1, <4>2, <4>3
    <3>2. CASE x # prev[b]
      <4>1. n[x] = next[x] /\ next[x] \in N \cup {0} /\ prev[next[x]] = x
        BY <1>4, <2>1, <3>2 DEF Ring
      <4>2. next[x] # b /\ next[x] # next[b]
        BY <1>2, <2>1, <3>2, <4>1
      <4>3. next[x] # 0 => x < next[x]
        BY <2>1 DEF Ring
      <4> QED
        BY <1>1, <1>4, <4>1, <4>2, <4>3
    <3> QED
      BY <3>1, <3>2
  <2>3. p[x] \in (N \ {b}) \cup {0} /\ n[p[x]] = x
    <3>1. CASE x = next[b]
      BY <1>1, <1>2, <1>4, <3>1
    <3>2. CASE x # next[b]
      <4>1. p[x] = prev[x] /\ prev[x] \in N \cup {0} /\ next[prev[x]] = x
        BY <1>4, <2>1, <3>2 DEF Ring
      <4>2. prev[x] # b /\ prev[x] # prev[b]
        BY <1>2, <2>1, <3>2, <4>1
      <4> QED
        BY <1>1, <1>4, <4>1, <4>2
    <3> QED
      BY <3>1, <3>2
  <2> QED
    BY <2>2, <2>3
<1>6. ASSUME NEW x \in (N \ {b}) \cup {0}, NEW y \in N \ {b}, x < y
      PROVE  n[x] # 0 /\ n[x] <= y
  <2>1. next[x] # 0 /\ next[x] <= y /\ x \in N \cup {0}
    BY <1>6 DEF Ring
  <2>2. CASE x = prev[b]
    <3>1. next[x] = b /\ n[x] = next[b] /\ b < y
      BY <1>1, <1>2, <1>4, <2>1, <2>2
    <3>2. next[b] # 0 /\ next[b] <= y
      BY <3>1 DEF Ring
    <3> QED
      BY <3>1, <3>2
  <2>3. CASE x # prev[b]
    BY <1>4, <2>1, <2>3
  <2> QED
    BY <2>2, <2>3
<1>7. N \ {b} \subseteq Heap!Units \ {0}
  BY DEF Ring
<1>8. Ring(n, p, N \ {b})
  BY <1>3, <1>5, <1>6, <1>7 DEF Ring
<1> QED
  BY <1>8 DEF n, p

\* What follows x0 under h: a sequence is given by its recursion.
Follows(f, h, x0) == f[0] = x0 /\ \A i \in Nat : f[i + 1] = h[f[i]]

LEMMA Iterates ==
  ASSUME NEW X, NEW h \in [X -> X], NEW x0 \in X
  PROVE  \E f \in [Nat -> X] : Follows(f, h, x0)
<1> DEFINE Upto(n, g) == /\ g \in [0 .. n -> X] /\ g[0] = x0
                         /\ \A i \in 0 .. n - 1 : g[i + 1] = h[g[i]]
           Wrong == {n \in Nat : ~\E g : Upto(n, g)}
<1>1. Wrong = {}
  <2> SUFFICES ASSUME Wrong # {} PROVE FALSE
    OBVIOUS
  <2>1. PICK m \in Wrong : \A k \in Wrong : m <= k
    BY LeastNumber
  <2>2. m # 0
    <3>1. PICK g : g = [i \in 0 .. 0 |-> x0]
      OBVIOUS
    <3>2. g \in [0 .. 0 -> X] /\ g[0] = x0 /\ \A i \in 0 .. 0 - 1 : g[i + 1] = h[g[i]]
      BY <3>1
    <3>3. 0 \notin Wrong
      BY <3>2
    <3> QED
      BY <2>1, <3>3
  <2>3. PICK k \in Nat : m = k + 1
    <3>1. m \in Nat /\ m - 1 \in Nat /\ m = (m - 1) + 1
      BY <2>2
    <3> QED
      BY <3>1
  <2>4. PICK g : Upto(k, g)
    BY <2>1, <2>3
  <2>5. PICK e : e = [i \in 0 .. k + 1 |-> IF i = k + 1 THEN h[g[k]] ELSE g[i]]
    OBVIOUS
  <2>6. e \in [0 .. k + 1 -> X]
    BY <2>4, <2>5
  <2>7. e[0] = x0
    BY <2>4, <2>5
  <2>8. ASSUME NEW i \in 0 .. (k + 1) - 1
        PROVE  e[i + 1] = h[e[i]]
    BY <2>4, <2>5
  <2>9. Upto(k + 1, e)
    BY <2>6, <2>7, <2>8
  <2> QED
    BY <2>1, <2>3, <2>9
<1>2. ASSUME NEW n \in Nat, NEW k \in Nat, NEW g, NEW e, Upto(n, g), Upto(k, e),
             NEW i \in Nat, i <= n, i <= k
      PROVE  g[i] = e[i]
  <2> DEFINE Other == {j \in Nat : j <= n /\ j <= k /\ g[j] # e[j]}
  <2> SUFFICES ASSUME Other # {} PROVE FALSE
    BY <1>2
  <2>1. PICK m \in Other : \A j \in Other : m <= j
    BY LeastNumber
  <2>2. m # 0
    BY <1>2, <2>1
  <2>3. PICK j \in Nat : m = j + 1
    <3>1. m \in Nat /\ m - 1 \in Nat /\ m = (m - 1) + 1
      BY <2>2
    <3> QED
      BY <3>1
  <2>4. g[j] = e[j]
    BY <2>1, <2>3
  <2>5. j \in 0 .. n - 1 /\ j \in 0 .. k - 1
    BY <2>1, <2>3
  <2>6. g[j + 1] = h[g[j]] /\ e[j + 1] = h[e[j]]
    BY <1>2, <2>5
  <2> QED
    BY <2>1, <2>3, <2>4, <2>6
<1> DEFINE f == [n \in Nat |-> (CHOOSE g : Upto(n, g))[n]]
<1>3. ASSUME NEW n \in Nat
      PROVE  \E g : Upto(n, g) /\ f[n] = g[n]
  BY <1>1
<1> HIDE DEF f
<1>4. ASSUME NEW n \in Nat
      PROVE  f[n] \in X /\ f[n + 1] = h[f[n]]
  <2>1. PICK g : Upto(n, g) /\ f[n] = g[n]
    BY <1>3
  <2>2. PICK e : Upto(n + 1, e) /\ f[n + 1] = e[n + 1]
    BY <1>3
  <2>3. g[n] = e[n]
    <3> HIDE DEF Upto
    <3> QED
      BY <1>2, <2>1, <2>2
  <2>4. e[n + 1] = h[e[n]] /\ g[n] \in X
    BY <2>1, <2>2
  <2> QED
    BY <2>1, <2>2, <2>3, <2>4
<1>5. f[0] = x0
  <2>1. PICK g : Upto(0, g) /\ f[0] = g[0]
    BY <1>3
  <2> QED
    BY <2>1
<1>6. f \in [Nat -> X]
  BY <1>4 DEF f
<1> QED
  BY <1>4, <1>5, <1>6 DEF Follows

LEMMA WalkIs ==
  ASSUME NEW link \in [Heap!Units -> Heap!Units], NEW f,
         f = CHOOSE g : g = [i \in Nat |-> IF i = 0 THEN Heap!Head ELSE link[g[i - 1]]]
  PROVE  Follows(f, link, 0)
<1> DEFINE Turn(g, i) == IF i = 0 THEN Heap!Head ELSE link[g[i - 1]]
<1>1. f = CHOOSE g : g = [i \in Nat |-> Turn(g, i)]
  OBVIOUS
<1>2. PICK w : Follows(w, link, 0)
  <2>1. PICK X, z : X = Heap!Units /\ z = 0 /\ z \in X
    BY UnitsOf
  <2> QED
    BY <2>1, Iterates
<1>3. w[0] = 0 /\ \A i \in Nat : w[i + 1] = link[w[i]]
  BY <1>2 DEF Follows
<1>4. PICK v : v = [i \in Nat |-> w[i]]
  OBVIOUS
<1>5. v = [i \in Nat |-> Turn(v, i)]
  <2>1. ASSUME NEW i \in Nat
        PROVE  w[i] = Turn(v, i)
    <3>1. CASE i = 0
      BY <1>3, <3>1, UnitsOf
    <3>2. CASE i # 0
      <4>1. PICK k \in Nat : k = i - 1
        BY <3>2
      <4>2. w[k + 1] = link[w[k]] /\ i = k + 1 /\ v[k] = w[k]
        BY <1>3, <1>4, <4>1
      <4> QED
        BY <3>2, <4>1, <4>2
    <3> QED
      BY <3>1, <3>2
  <2> QED
    BY <1>4, <2>1
<1> HIDE DEF Turn
<1>6. f = [i \in Nat |-> Turn(f, i)]
  BY <1>1, <1>5, Zenon
<1>7. ASSUME NEW i \in Nat
      PROVE  f[i] = Turn(f, i)
  BY <1>6
<1>8. f[0] = 0
  BY <1>7, UnitsOf DEF Turn
<1>9. ASSUME NEW i \in Nat
      PROVE  f[i + 1] = link[f[i]]
  BY <1>7 DEF Turn
<1> QED
  BY <1>8, <1>9 DEF Follows

LEMMA ForwardIs ==
  ASSUME NEW m, m.next \in [Heap!Units -> Heap!Units]
  PROVE  Follows(Heap!Forward(m), m.next, 0)
<1> DEFINE f[i \in Nat] == IF i = 0 THEN Heap!Head ELSE m.next[f[i - 1]]
<1>1. Heap!Forward(m) = f
  BY DEF Heap!Forward
<1>2. f = CHOOSE g : g = [i \in Nat |-> IF i = 0 THEN Heap!Head ELSE m.next[g[i - 1]]]
  OBVIOUS
<1> HIDE DEF f
<1> QED
  BY <1>1, <1>2, WalkIs

LEMMA BackwardIs ==
  ASSUME NEW m, m.prev \in [Heap!Units -> Heap!Units]
  PROVE  Follows(Heap!Backward(m), m.prev, 0)
<1> DEFINE f[i \in Nat] == IF i = 0 THEN Heap!Head ELSE m.prev[f[i - 1]]
<1>1. Heap!Backward(m) = f
  BY DEF Heap!Backward
<1>2. f = CHOOSE g : g = [i \in Nat |-> IF i = 0 THEN Heap!Head ELSE m.prev[g[i - 1]]]
  OBVIOUS
<1> HIDE DEF f
<1> QED
  BY <1>1, <1>2, WalkIs

\* The links of N by rising d, from the head and back to it.
Rising(link, d, N) ==
  /\ \A a \in N : d[a] \in 1 .. Heap!Top - 1
  /\ \A a, b \in N : d[a] = d[b] => a = b
  /\ \A a \in N \cup {0} : link[a] \in N \cup {0}
  /\ \A a \in N : link[a] # 0 => d[a] < d[link[a]]
  /\ \A b \in N : link[0] # 0 /\ d[link[0]] <= d[b]
  /\ \A a, b \in N : d[a] < d[b] => link[a] # 0 /\ d[link[a]] <= d[b]

\* A walk along them comes to each node in turn, and then to the head.
LEMMA WalkComes ==
  ASSUME NEW link, NEW d, NEW N, 0 \notin N, Rising(link, d, N), NEW f, Follows(f, link, 0)
  PROVE  /\ \A i \in Nat : f[i] \in N \cup {0}
         /\ \E i \in 1 .. Heap!Top : f[i] = 0
         /\ \A i \in Nat \ {0} : (\A j \in 1 .. i - 1 : f[j] # 0) =>
              \A b \in N : f[i] = 0 \/ d[b] < d[f[i]] => \E j \in 1 .. i - 1 : f[j] = b
<1>1. f[0] = 0 /\ \A i \in Nat : f[i + 1] = link[f[i]]
  BY DEF Follows
<1>2. ASSUME NEW i \in Nat
      PROVE  f[i] \in N \cup {0}
  <2> DEFINE Wrong == {j \in Nat : f[j] \notin N \cup {0}}
  <2> SUFFICES ASSUME Wrong # {} PROVE FALSE
    OBVIOUS
  <2>1. PICK m \in Wrong : \A k \in Wrong : m <= k
    BY LeastNumber
  <2>2. m # 0
    BY <1>1, <2>1
  <2>3. PICK k \in Nat : m = k + 1
    <3>1. m \in Nat /\ m - 1 \in Nat /\ m = (m - 1) + 1
      BY <2>2
    <3> QED
      BY <3>1
  <2>4. f[k] \in N \cup {0}
    BY <2>1, <2>3
  <2> QED
    BY <1>1, <2>1, <2>3, <2>4 DEF Rising
<1> DEFINE Quiet(i) == \A j \in 1 .. i - 1 : f[j] # 0
           Done(i) == /\ f[i] # 0 => d[f[i]] >= i
                      /\ \A b \in N :
                           f[i] = 0 \/ d[b] < d[f[i]] => \E j \in 1 .. i - 1 : f[j] = b
           Wrong == {i \in Nat \ {0} : Quiet(i) /\ ~Done(i)}
<1>3. Wrong = {}
  <2> SUFFICES ASSUME Wrong # {} PROVE FALSE
    OBVIOUS
  <2>1. PICK m \in Wrong : \A k \in Wrong : m <= k
    BY LeastNumber
  <2>2. CASE m = 1
    <3>1. f[1] = link[0]
      BY <1>1
    <3>2. f[1] # 0 => d[f[1]] >= 1
      BY <1>2 DEF Rising
    <3>3. ASSUME NEW b \in N
          PROVE  ~(f[1] = 0 \/ d[b] < d[f[1]])
      <4>1. /\ link[0] # 0 /\ d[link[0]] <= d[b]
            /\ link[0] \in N /\ d[link[0]] \in Nat /\ d[b] \in Nat
        BY DEF Rising
      <4> QED
        BY <3>1, <4>1
    <3>4. Done(1)
      BY <3>2, <3>3
    <3> QED
      BY <2>1, <2>2, <3>4
  <2>3. CASE m # 1
    <3>1. PICK k \in Nat \ {0} : m = k + 1
      <4>1. m \in Nat /\ m - 1 \in Nat \ {0} /\ m = (m - 1) + 1
        BY <2>1, <2>3
      <4> QED
        BY <4>1
    <3>2. Quiet(k) /\ f[k] # 0
      BY <2>1, <3>1
    <3>3. Done(k)
      <4>1. k \notin Wrong
        BY <2>1, <3>1
      <4> QED
        BY <3>2, <4>1
    <3>4. f[k] \in N /\ f[m] = link[f[k]] /\ f[m] \in N \cup {0} /\ d[f[k]] \in Nat
      BY <1>1, <1>2, <3>1, <3>2 DEF Rising
    <3>5. f[m] # 0 => d[f[m]] >= m
      <4>1. f[m] # 0 => d[f[k]] < d[f[m]] /\ d[f[m]] \in Nat
        BY <3>4 DEF Rising
      <4>2. d[f[k]] >= k
        BY <3>2, <3>3
      <4> QED
        BY <3>1, <3>4, <4>1, <4>2
    <3>6. ASSUME NEW b \in N, f[m] = 0 \/ d[b] < d[f[m]]
          PROVE  \E j \in 1 .. m - 1 : f[j] = b
      <4>1. d[b] \in Nat /\ (f[m] # 0 => d[f[m]] \in Nat)
        BY <3>4 DEF Rising
      <4>2. ~(d[f[k]] < d[b])
        <5>1. d[f[k]] < d[b] => f[m] # 0 /\ d[f[m]] <= d[b]
          BY <3>4 DEF Rising
        <5> QED
          BY <3>6, <4>1, <5>1
      <4>3. CASE d[b] = d[f[k]]
        <5>1. b = f[k] /\ k \in 1 .. m - 1
          BY <3>1, <3>4, <4>3 DEF Rising
        <5> QED
          BY <5>1
      <4>4. CASE d[b] < d[f[k]]
        <5>1. PICK j \in 1 .. k - 1 : f[j] = b
          BY <3>3, <4>4
        <5> QED
          BY <3>1, <5>1
      <4> QED
        BY <3>4, <4>1, <4>2, <4>3, <4>4
    <3>7. Done(m)
      BY <3>5, <3>6
    <3> QED
      BY <2>1, <3>7
  <2> QED
    BY <2>2, <2>3
<1>4. \E i \in 1 .. Heap!Top : f[i] = 0
  <2> SUFFICES ASSUME \A i \in 1 .. Heap!Top : f[i] # 0
               PROVE  FALSE
    OBVIOUS
  <2>1. PICK t \in Nat \ {0} : t = Heap!Top
    BY UnitsOf
  <2>2. Quiet(t) /\ f[t] # 0
    BY <2>1
  <2>3. d[f[t]] >= t
    BY <1>3, <2>1, <2>2
  <2>4. d[f[t]] \in 1 .. t - 1
    BY <1>2, <2>1, <2>2 DEF Rising
  <2> QED
    BY <2>3, <2>4
<1> QED
  BY <1>2, <1>3, <1>4

\* Where a search stops: nothing that it passed would have stopped it.
LEMMA StopsFirst ==
  ASSUME NEW link, NEW d, NEW N, 0 \notin N, Rising(link, d, N), NEW f, Follows(f, link, 0),
         NEW S, 0 \in S, NEW r, r = Heap!StopsAt(f, S)
  PROVE  /\ r \in S /\ r \in N \cup {0}
         /\ \A b \in N : r = 0 \/ d[b] < d[r] => b \notin S
<1> DEFINE First(i) == f[i] \in S /\ \A j \in 1 .. i - 1 : f[j] \notin S
           Stops == {i \in Nat : i \in 1 .. Heap!Top /\ f[i] \in S}
<1>1. Stops # {}
  BY WalkComes, UnitsOf
<1>2. PICK m \in Stops : \A k \in Stops : m <= k
  BY <1>1, LeastNumber
<1>3. m \in 1 .. Heap!Top /\ First(m)
  <2>1. ASSUME NEW j \in 1 .. m - 1
        PROVE  f[j] \notin S
    <3>1. j \in Nat /\ j \in 1 .. Heap!Top /\ ~(m <= j)
      BY <1>2, UnitsOf
    <3> QED
      BY <1>2, <3>1
  <2> QED
    BY <1>2, <2>1
<1>4. PICK c \in 1 .. Heap!Top : First(c) /\ r = f[c]
  <2>1. Heap!StopsAt(f, S) = f[CHOOSE i \in 1 .. Heap!Top : First(i)]
    BY DEF Heap!StopsAt
  <2> QED
    BY <1>3, <2>1
<1>5. c \in Nat \ {0} /\ \A j \in 1 .. c - 1 : f[j] # 0
  BY <1>4, UnitsOf
<1>6. ASSUME NEW b \in N, r = 0 \/ d[b] < d[r]
      PROVE  b \notin S
  <2>1. PICK j \in 1 .. c - 1 : f[j] = b
    BY <1>4, <1>5, <1>6, WalkComes
  <2> QED
    BY <1>4, <2>1
<1> QED
  BY <1>4, <1>5, <1>6, WalkComes

LEMMA RingUp ==
  ASSUME NEW next, NEW prev, NEW N, Ring(next, prev, N)
  PROVE  Rising(next, [a \in Heap!Units |-> a], N)
<1> DEFINE d == [a \in Heap!Units |-> a]
<1>1. N \cup {0} \subseteq Heap!Units /\ 0 \notin N /\ \A x \in N \cup {0} : x \in Nat
  BY RingNumbers
<1>2. \A a \in N \cup {0} : d[a] = a
  BY <1>1
<1>3. \A a \in N : a \in 1 .. Heap!Top - 1
  BY UnitsOf DEF Ring
<1>4. \A a \in N \cup {0} : next[a] \in N \cup {0} /\ (next[a] # 0 => a < next[a])
  BY DEF Ring
<1>5. \A a \in N \cup {0}, b \in N : a < b => next[a] # 0 /\ next[a] <= b
  BY DEF Ring
<1>6. \A b \in N : 0 < b
  BY <1>3, UnitsOf
<1> HIDE DEF d
<1>7. Rising(next, d, N)
  BY <1>2, <1>3, <1>4, <1>5, <1>6 DEF Rising
<1> QED
  BY <1>7 DEF d

LEMMA RingDown ==
  ASSUME NEW next, NEW prev, NEW N, Ring(next, prev, N)
  PROVE  Rising(prev, [a \in Heap!Units |-> Heap!Top - a], N)
<1> DEFINE d == [a \in Heap!Units |-> Heap!Top - a]
<1>1. N \cup {0} \subseteq Heap!Units /\ 0 \notin N /\ \A x \in N \cup {0} : x \in Nat
  BY RingNumbers
<1>2. PICK t \in Nat : t = Heap!Top
  BY UnitsOf
<1>3. \A a \in N \cup {0} : d[a] = t - a
  BY <1>1, <1>2
<1>4. \A a \in N : a \in 1 .. t - 1
  BY <1>2, UnitsOf DEF Ring
<1>5. \A a \in N \cup {0} : /\ prev[a] \in N \cup {0} /\ next[prev[a]] = a
                            /\ a # 0 => prev[a] < a
  <2>1. \A a \in N \cup {0} : prev[a] \in N \cup {0} /\ next[prev[a]] = a
    BY DEF Ring
  <2>2. \A a \in N \cup {0} : next[a] # 0 => a < next[a]
    BY DEF Ring
  <2> QED
    BY <2>1, <2>2
<1>6. ASSUME NEW a \in N \cup {0}, NEW b \in N, a = 0 \/ b < a
      PROVE  prev[a] # 0 /\ b <= prev[a]
  <2>1. prev[a] \in Nat /\ b \in Nat /\ a \in Nat
    BY <1>1, <1>5
  <2>2. prev[a] < b => a # 0 /\ a <= b
    BY <1>5 DEF Ring
  <2>3. 0 < b
    BY <1>4
  <2> QED
    BY <1>6, <2>1, <2>2, <2>3
<1> HIDE DEF d
<1>7. \A a \in N : d[a] \in 1 .. t - 1
  BY <1>3, <1>4
<1>8. \A a, b \in N : d[a] = d[b] => a = b
  BY <1>1, <1>3
<1>9. \A a \in N : prev[a] # 0 => d[a] < d[prev[a]]
  <2> SUFFICES ASSUME NEW a \in N, prev[a] # 0 PROVE d[a] < d[prev[a]]
    OBVIOUS
  <2>1. prev[a] \in N \cup {0} /\ prev[a] < a
    BY <1>1, <1>5
  <2>2. d[a] = t - a /\ d[prev[a]] = t - prev[a] /\ prev[a] \in Nat /\ a \in Nat
    BY <1>1, <1>3, <2>1
  <2> QED
    BY <2>1, <2>2
<1>10. \A b \in N : prev[0] # 0 /\ d[prev[0]] <= d[b]
  <2> SUFFICES ASSUME NEW b \in N PROVE prev[0] # 0 /\ d[prev[0]] <= d[b]
    OBVIOUS
  <2>1. prev[0] # 0 /\ b <= prev[0] /\ prev[0] \in N \cup {0}
    BY <1>5, <1>6
  <2>2. d[b] = t - b /\ d[prev[0]] = t - prev[0] /\ prev[0] \in Nat /\ b \in Nat
    BY <1>1, <1>3, <2>1
  <2> QED
    BY <2>1, <2>2
<1>11. \A a, b \in N : d[a] < d[b] => prev[a] # 0 /\ d[prev[a]] <= d[b]
  <2> SUFFICES ASSUME NEW a \in N, NEW b \in N, d[a] < d[b]
               PROVE  prev[a] # 0 /\ d[prev[a]] <= d[b]
    OBVIOUS
  <2>1. d[a] = t - a /\ d[b] = t - b /\ a \in Nat /\ b \in Nat
    BY <1>1, <1>3
  <2>2. b < a
    BY <2>1
  <2>3. prev[a] # 0 /\ b <= prev[a] /\ prev[a] \in N \cup {0}
    BY <1>5, <1>6, <2>2
  <2>4. d[prev[a]] = t - prev[a] /\ prev[a] \in Nat
    BY <1>1, <1>3, <2>3
  <2> QED
    BY <2>1, <2>3, <2>4
<1>12. Rising(prev, d, N)
  BY <1>2, <1>5, <1>7, <1>8, <1>9, <1>10, <1>11 DEF Rising
<1> QED
  BY <1>12 DEF d

LEMMA SearchUp ==
  ASSUME NEW m, NEW N, Ring(m.next, m.prev, N), NEW S, 0 \in S,
         NEW r, r = Heap!StopsAt(Heap!Forward(m), S)
  PROVE  /\ r \in S /\ r \in N \cup {0}
         /\ \A b \in N : r = 0 \/ b < r => b \notin S
<1> DEFINE d == [a \in Heap!Units |-> a]
<1>1. N \cup {0} \subseteq Heap!Units /\ 0 \notin N /\ m.next \in [Heap!Units -> Heap!Units]
  BY RingNumbers DEF Ring
<1>2. PICK f : f = Heap!Forward(m) /\ Follows(f, m.next, 0)
  BY <1>1, ForwardIs
<1>3. Rising(m.next, d, N)
  BY RingUp
<1>4. \A b \in N \cup {0} : d[b] = b
  BY <1>1
<1> HIDE DEF d
<1>5. r = Heap!StopsAt(f, S)
  BY <1>2
<1>6. /\ r \in S /\ r \in N \cup {0}
      /\ \A b \in N : r = 0 \/ d[b] < d[r] => b \notin S
  BY <1>1, <1>2, <1>3, <1>5, StopsFirst
<1> QED
  BY <1>4, <1>6

LEMMA PlaceIs ==
  ASSUME NEW N, Ring(mem.next, mem.prev, N), NEW a \in Heap!Units \ {0}, a \notin N
  PROVE  /\ Heap!Place(a) \in N \cup {0} /\ Heap!Place(a) < a
         /\ mem.next[Heap!Place(a)] = 0 \/ a < mem.next[Heap!Place(a)]
<1> DEFINE d == [x \in Heap!Units |-> Heap!Top - x]
           S == {x \in Heap!Units : x = Heap!Head \/ a > x}
<1>1. N \cup {0} \subseteq Heap!Units /\ 0 \notin N /\ mem.prev \in [Heap!Units -> Heap!Units]
      /\ \A x \in N \cup {0} : x \in Nat
  BY RingNumbers DEF Ring
<1>2. PICK f : f = Heap!Backward(mem) /\ Follows(f, mem.prev, 0)
  BY <1>1, BackwardIs
<1>3. Rising(mem.prev, d, N)
  BY RingDown
<1>4. PICK t \in Nat : \A b \in N \cup {0} : d[b] = t - b
  BY <1>1, UnitsOf
<1>5. PICK r : r = Heap!Place(a) /\ r = Heap!StopsAt(f, S)
  BY <1>2 DEF Heap!Place
<1>6. 0 \in S /\ a \in Nat \ {0}
  BY UnitsOf
<1> HIDE DEF d
<1>7. r \in S /\ r \in N \cup {0} /\ \A b \in N : r = 0 \/ d[b] < d[r] => b \notin S
  <2> HIDE DEF S
  <2> QED
    BY <1>1, <1>2, <1>3, <1>5, <1>6, StopsFirst
<1>8. r < a
  BY <1>6, <1>7, UnitsOf
<1>9. ASSUME mem.next[r] # 0
      PROVE  a < mem.next[r]
  <2>1. PICK b \in N : b = mem.next[r] /\ r < b
    BY <1>7, <1>9 DEF Ring
  <2>2. r = 0 \/ d[b] < d[r]
    BY <1>1, <1>4, <1>7, <2>1
  <2>3. b \notin S
    BY <1>7, <2>2
  <2>4. ~(a > b) /\ b \in Nat /\ a # b
    BY <1>1, <2>3
  <2> QED
    BY <1>6, <2>1, <2>4
<1> QED
  BY <1>5, <1>7, <1>8, <1>9

LEMMA NodesAre ==
  ASSUME NEW m, NEW N, Ring(m.next, m.prev, N)
  PROVE  Heap!Nodes(m) = N /\ \E i \in 1 .. Heap!Top : Heap!Forward(m)[i] = 0
<1> DEFINE d == [a \in Heap!Units |-> a]
           f == Heap!Forward(m)
<1>1. N \cup {0} \subseteq Heap!Units /\ 0 \notin N /\ m.next \in [Heap!Units -> Heap!Units]
  BY RingNumbers DEF Ring
<1>2. Follows(f, m.next, 0)
  BY <1>1, ForwardIs
<1>3. Rising(m.next, d, N)
  BY RingUp
<1> HIDE DEF d, f
<1>4. /\ \A i \in Nat : f[i] \in N \cup {0}
      /\ \E i \in 1 .. Heap!Top : f[i] = 0
      /\ \A i \in Nat \ {0} : (\A j \in 1 .. i - 1 : f[j] # 0) =>
           \A b \in N : f[i] = 0 \/ d[b] < d[f[i]] => \E j \in 1 .. i - 1 : f[j] = b
  BY <1>1, <1>2, <1>3, WalkComes
<1> DEFINE Ends == {i \in Nat : i \in 1 .. Heap!Top /\ f[i] = 0}
<1>5. PICK e \in Ends : \A k \in Ends : e <= k
  <2>1. Ends # {}
    BY <1>4, UnitsOf
  <2> QED
    BY <2>1, LeastNumber
<1>6. e \in Nat \ {0} /\ e \in 1 .. Heap!Top /\ f[e] = 0
  BY <1>5, UnitsOf
<1>7. ASSUME NEW j \in 1 .. e - 1
      PROVE  f[j] # 0 /\ j \in 1 .. Heap!Top /\ j \in Nat
  <2>1. j \in Nat /\ j \in 1 .. Heap!Top /\ ~(e <= j)
    BY <1>6, UnitsOf
  <2> QED
    BY <1>5, <2>1
<1>8. ASSUME NEW b \in N
      PROVE  b \in {f[i] : i \in 1 .. Heap!Top} /\ b # 0
  <2>1. PICK j \in 1 .. e - 1 : f[j] = b
    BY <1>4, <1>6, <1>7
  <2> QED
    BY <1>1, <1>7, <2>1
<1>9. ASSUME NEW i \in 1 .. Heap!Top, f[i] # 0
      PROVE  f[i] \in N
  BY <1>4, <1>9, UnitsOf
<1>10. Heap!Nodes(m) = {a \in {f[i] : i \in 1 .. Heap!Top} : a # 0}
  BY UnitsOf DEF Heap!Nodes, f
<1>11. Heap!Nodes(m) = N
  BY <1>8, <1>9, <1>10
<1> QED
  BY <1>4, <1>11 DEF f

\* The nodes have room for their links and end where the heap does, or below.
Sized(m, N, e) == \A a \in N : 2 <= m.size[a] /\ a + m.size[a] <= e

\* The memory from t to e is new: its nodes leave no gap and do not overlap, nor does what
\* begins at t, whether it is still a node or was merged into one.
Fresh(m, N, t, e) ==
  /\ \A x \in N \cup {t}, y \in N : t <= x /\ x < y => x + m.size[x] <= y
  /\ \A x \in N : t <= x => x + m.size[x] = e \/ x + m.size[x] \in N
  /\ t < e => PageUnits <= m.size[t] /\ t + m.size[t] <= e

\* While the list is coalesced: nodes go, and only their sizes change.
Merging(m, N, m0, N0, t, e) ==
  /\ m \in Words /\ Ring(m.next, m.prev, N) /\ N \subseteq N0
  /\ Sized(m, N, e) /\ Fresh(m, N, t, e)
  /\ \A u \in Heap!Units \ N0 : m.size[u] = m0.size[u]

Touching(m, N, k) == \A c \in N : Heap!Touches(m, c) => k <= m.next[c]

LEMMA MergeIs ==
  ASSUME NEW m \in Words, NEW a, NEW b, b = m.next[a], m.prev[b] = a
  PROVE  Heap!Merge(m, a) = [size |-> [m.size EXCEPT ![a] = @ + m.size[b]],
                             prev |-> [m.prev EXCEPT ![m.next[b]] = a],
                             next |-> [m.next EXCEPT ![a] = m.next[b]]]
<1>1. PICK s, p, n : m = [size |-> s, prev |-> p, next |-> n]
  BY DEF Words
<1>2. m.size = s /\ m.prev = p /\ m.next = n
  BY <1>1
<1>3. Heap!NodeRemove(m, b) = [size |-> s, prev |-> [p EXCEPT ![n[b]] = p[b]],
                               next |-> [n EXCEPT ![p[b]] = n[b]]]
  <2>1. PICK x, y, u, v : x = n[b] /\ y = p[b]
                          /\ u = [p EXCEPT ![x] = y] /\ v = [n EXCEPT ![y] = x]
    OBVIOUS
  <2>2. Heap!NodeRemove(m, b) = [m EXCEPT !.prev[x] = y, !.next[y] = x]
    BY <1>2, <2>1 DEF Heap!NodeRemove
  <2>3. [m EXCEPT !.prev[x] = y, !.next[y] = x] = [m EXCEPT !.prev = u, !.next = v]
    BY <1>1, <1>2, <2>1
  <2>4. [m EXCEPT !.prev = u, !.next = v] = [size |-> s, prev |-> u, next |-> v]
    <3>1. PICK r : r = [m EXCEPT !.prev = u]
      OBVIOUS
    <3>2. r = [size |-> s, prev |-> u, next |-> n]
      BY <1>1, <3>1
    <3>3. [r EXCEPT !.next = v] = [size |-> s, prev |-> u, next |-> v]
      BY <3>2
    <3> QED
      BY <3>1, <3>3
  <2> QED
    BY <2>1, <2>2, <2>3, <2>4
<1>4. p[b] = a /\ n[a] = b
  BY <1>2
<1>5. Heap!Merge(m, a) = [Heap!NodeRemove(m, b) EXCEPT !.size[a] = @ + s[b]]
  BY <1>2 DEF Heap!Merge
<1> QED
  BY <1>2, <1>3, <1>4, <1>5

LEMMA MergeKeeps ==
  ASSUME NEW m, NEW N, NEW m0, NEW N0, NEW t \in Nat, NEW e \in Nat, e <= Heap!Top,
         Merging(m, N, m0, N0, t, e), NEW a \in N, Heap!Touches(m, a),
         NEW b, b = m.next[a], NEW k \in Nat, k <= b,
         \A c \in N : c < a => ~Heap!Touches(m, c)
  PROVE  /\ Merging(Heap!Merge(m, a), N \ {b}, m0, N0, t, e)
         /\ Touching(Heap!Merge(m, a), N \ {b}, k + 1)
<1>1. m \in Words /\ Ring(m.next, m.prev, N) /\ N \subseteq N0 /\ Sized(m, N, e)
      /\ Fresh(m, N, t, e) /\ \A u \in Heap!Units \ N0 : m.size[u] = m0.size[u]
  BY DEF Merging
<1>2. /\ N \cup {0} \subseteq Heap!Units /\ 0 \notin N /\ \A x \in N \cup {0} : x \in Nat
      /\ \A x \in Heap!Units : m.size[x] \in Nat
  <2>1. m.size \in [Heap!Units -> 0 .. Word - 1]
    BY <1>1 DEF Words
  <2>2. \A x \in Heap!Units : m.size[x] \in Nat
    BY <2>1, UnitsOf
  <2> QED
    BY <1>1, <2>2, RingNumbers
<1>3. /\ b \in N /\ a < b /\ a + m.size[a] = b /\ m.prev[b] = a
      /\ m.next[b] \in N \cup {0} /\ m.next[b] # b
  <2>1. b \in N \cup {0} /\ b # 0 /\ a + m.size[a] = b
    BY <1>1, UnitsOf DEF Ring, Heap!Touches
  <2>2. b \in N /\ a < b /\ m.prev[b] = a
    BY <1>1, <2>1 DEF Ring
  <2>3. m.next[b] \in N \cup {0} /\ (m.next[b] # 0 => b < m.next[b])
    BY <1>1, <2>2 DEF Ring
  <2> QED
    BY <1>2, <2>1, <2>2, <2>3
<1>4. PICK s : s = [m.size EXCEPT ![a] = @ + m.size[b]]
  OBVIOUS
<1>5. PICK m1 : /\ m1 = Heap!Merge(m, a) /\ m1.size = s
                /\ m1 = [size |-> s, prev |-> m1.prev, next |-> m1.next]
                /\ m1.prev = [m.prev EXCEPT ![m.next[b]] = m.prev[b]]
                /\ m1.next = [m.next EXCEPT ![m.prev[b]] = m.next[b]]
  BY <1>1, <1>3, <1>4, MergeIs
<1>6. Ring(m1.next, m1.prev, N \ {b})
  BY <1>1, <1>3, <1>5, RingShrinks
<1>7. /\ s[a] = m.size[a] + m.size[b] /\ a + s[a] = b + m.size[b]
      /\ 2 <= m.size[b] /\ b + m.size[b] <= e /\ 2 <= m.size[a]
      /\ \A x \in Heap!Units : x # a => s[x] = m.size[x]
  <2>1. m.size \in [Heap!Units -> 0 .. Word - 1]
    BY <1>1 DEF Words
  <2>2. s[a] = m.size[a] + m.size[b] /\ \A x \in Heap!Units : x # a => s[x] = m.size[x]
    BY <1>2, <1>4, <2>1
  <2>3. 2 <= m.size[b] /\ b + m.size[b] <= e /\ 2 <= m.size[a]
    BY <1>1, <1>3 DEF Sized
  <2>4. a \in Nat /\ b \in Nat /\ m.size[a] \in Nat /\ m.size[b] \in Nat
    BY <1>2, <1>3
  <2> QED
    BY <1>3, <2>2, <2>3, <2>4
<1>8. m1 \in Words
  <2>1. s[a] \in 0 .. Word - 1
    <3>1. a \in Nat \ {0} /\ s[a] \in Nat /\ b \in Nat /\ m.size[b] \in Nat
      BY <1>2, <1>3, <1>7
    <3> QED
      BY <1>7, <3>1, UnitsOf
  <2>2. s \in [Heap!Units -> 0 .. Word - 1]
    BY <1>1, <1>4, <1>7, <2>1 DEF Words
  <2> QED
    BY <1>5, <1>6, <2>2 DEF Words, Ring
<1>9. Sized(m1, N \ {b}, e)
  <2> SUFFICES ASSUME NEW x \in N \ {b}
               PROVE  2 <= s[x] /\ x + s[x] <= e
    BY <1>5 DEF Sized
  <2>1. CASE x = a
    BY <1>2, <1>3, <1>7, <2>1
  <2>2. CASE x # a
    BY <1>1, <1>2, <1>7, <2>2 DEF Sized
  <2> QED
    BY <2>1, <2>2
<1>10. ASSUME NEW y \in N, y # b, a < y
       PROVE  b < y
  <2>1. b <= y /\ y \in Nat /\ b \in Nat
    BY <1>1, <1>2, <1>3, <1>10 DEF Ring
  <2> QED
    BY <1>10, <2>1
<1>11. Fresh(m1, N \ {b}, t, e)
  <2>1. ASSUME NEW x \in (N \ {b}) \cup {t}, NEW y \in N \ {b}, t <= x, x < y
        PROVE  x + s[x] <= y
    <3>1. CASE x = a
      <4>1. b < y /\ t <= b
        BY <1>2, <1>3, <1>10, <2>1, <3>1
      <4>2. b + m.size[b] <= y
        BY <1>1, <1>3, <4>1 DEF Fresh
      <4> QED
        BY <1>7, <3>1, <4>2
    <3>2. CASE x # a
      <4>1. x + m.size[x] <= y
        BY <1>1, <2>1 DEF Fresh
      <4>2. x \in Heap!Units
        BY <1>2, <2>1, UnitsOf
      <4> QED
        BY <1>7, <3>2, <4>1, <4>2
    <3> QED
      BY <3>1, <3>2
  <2>2. ASSUME NEW x \in N \ {b}, t <= x
        PROVE  x + s[x] = e \/ x + s[x] \in N \ {b}
    <3>1. CASE x = a
      <4>1. t <= b /\ b + m.size[b] # b
        BY <1>2, <1>3, <1>7, <2>2, <3>1
      <4>2. b + m.size[b] = e \/ b + m.size[b] \in N
        BY <1>1, <1>3, <4>1 DEF Fresh
      <4> QED
        BY <1>7, <3>1, <4>1, <4>2
    <3>2. CASE x # a
      <4>1. x + m.size[x] = e \/ x + m.size[x] \in N
        BY <1>1, <2>2 DEF Fresh
      <4>2. x \in Nat /\ a \in Nat /\ b \in Nat /\ 2 <= m.size[x] /\ m.size[x] \in Nat
        BY <1>1, <1>2, <1>3 DEF Sized
      <4>3. x + m.size[x] # b
        <5>1. x < a => x + m.size[x] <= a
          BY <1>1, <2>2 DEF Fresh
        <5>2. a < x => b < x
          BY <1>10, <2>2
        <5> QED
          BY <1>3, <3>2, <4>2, <5>1, <5>2
      <4> QED
        BY <1>2, <1>7, <3>2, <4>1, <4>3
    <3> QED
      BY <3>1, <3>2
  <2>3. ASSUME t < e
        PROVE  PageUnits <= s[t] /\ t + s[t] <= e
    <3>1. t \in Heap!Units /\ PageUnits <= m.size[t] /\ t + m.size[t] <= e /\ PageUnits \in Nat
      BY <1>1, <2>3, UnitsOf DEF Fresh
    <3>2. CASE t = a
      BY <1>2, <1>3, <1>7, <3>1, <3>2
    <3>3. CASE t # a
      BY <1>7, <3>1, <3>3
    <3> QED
      BY <3>2, <3>3
  <2> QED
    BY <1>5, <2>1, <2>2, <2>3 DEF Fresh
<1>12. \A u \in Heap!Units \ N0 : s[u] = m0.size[u]
  BY <1>1, <1>7
<1>13. Touching(m1, N \ {b}, k + 1)
  <2> SUFFICES ASSUME NEW c \in N \ {b}, m1.next[c] # 0, c + s[c] = m1.next[c]
               PROVE  k + 1 <= m1.next[c]
    BY <1>5, UnitsOf DEF Touching, Heap!Touches
  <2>1. m1.next[c] \in N \ {b} /\ c < m1.next[c]
    BY <1>6 DEF Ring
  <2>2. CASE c = a \/ a < c
    <3>1. a < m1.next[c]
      BY <1>2, <2>1, <2>2
    <3>2. b < m1.next[c]
      BY <1>10, <2>1, <3>1
    <3> QED
      BY <1>2, <1>3, <2>1, <3>2
  <2>3. CASE c < a
    <3>1. m1.next[c] = m.next[c] /\ s[c] = m.size[c]
      BY <1>1, <1>2, <1>3, <1>5, <1>7, <2>3 DEF Ring
    <3>2. Heap!Touches(m, c)
      BY <3>1, UnitsOf DEF Heap!Touches
    <3> QED
      BY <2>3, <3>2
  <2> QED
    BY <1>2, <2>2, <2>3
<1> QED
  BY <1>1, <1>5, <1>6, <1>8, <1>9, <1>11, <1>12, <1>13 DEF Merging

\* One turn of the loop: the first node that touches the next one is merged with it.
LEMMA MergeFirstKeeps ==
  ASSUME NEW m, NEW N, NEW m0, NEW N0, NEW t \in Nat, NEW e \in Nat, e <= Heap!Top,
         Merging(m, N, m0, N0, t, e), NEW k \in Nat, Touching(m, N, k)
  PROVE  \E M : /\ Merging(Heap!MergeFirst(m), M, m0, N0, t, e)
                /\ Touching(Heap!MergeFirst(m), M, k + 1)
<1> DEFINE S == {x \in Heap!Units : x = Heap!Head \/ Heap!Touches(m, x)}
<1>1. Ring(m.next, m.prev, N) /\ 0 \in S
  BY UnitsOf DEF Merging
<1>2. PICK a : a = Heap!StopsAt(Heap!Forward(m), S)
  OBVIOUS
<1>3. a \in S /\ a \in N \cup {0} /\ \A c \in N : a = 0 \/ c < a => c \notin S
  <2> HIDE DEF S
  <2> QED
    BY <1>1, <1>2, SearchUp
<1>4. Heap!MergeFirst(m) = IF a = 0 THEN m ELSE Heap!Merge(m, a)
  BY <1>2, UnitsOf DEF Heap!MergeFirst
<1>5. \A c \in N : c \in Heap!Units
  BY <1>1, RingNumbers
<1>6. CASE a = 0
  <2>1. \A c \in N : ~Heap!Touches(m, c)
    BY <1>3, <1>5, <1>6
  <2>2. Touching(m, N, k + 1)
    BY <2>1 DEF Touching
  <2> QED
    BY <1>4, <1>6, <2>2
<1>7. CASE a # 0
  <2>1. a \in N /\ Heap!Touches(m, a) /\ \A c \in N : c < a => ~Heap!Touches(m, c)
    BY <1>3, <1>5, <1>7, UnitsOf
  <2>2. k <= m.next[a]
    BY <2>1 DEF Touching
  <2>3. PICK b, m1 : b = m.next[a] /\ k <= b /\ m1 = Heap!Merge(m, a)
    BY <2>2
  <2>4. Merging(m1, N \ {b}, m0, N0, t, e) /\ Touching(m1, N \ {b}, k + 1)
    BY <2>1, <2>3, MergeKeeps
  <2>5. Heap!MergeFirst(m) = m1
    BY <1>4, <1>7, <2>3
  <2> QED
    BY <2>4, <2>5
<1> QED
  BY <1>6, <1>7

\* And all its turns, since the first such place rises: at the end no node touches the next.
LEMMA CoalesceKeeps ==
  ASSUME NEW m, NEW N, NEW t \in Nat, NEW e \in Nat, e <= Heap!Top, Merging(m, N, m, N, t, e)
  PROVE  \E M : /\ Merging(Heap!Coalesce(m), M, m, N, t, e)
                /\ \A c \in M : ~Heap!Touches(Heap!Coalesce(m), c)
<1> DEFINE Turn(g, i) == IF i = 0 THEN m ELSE Heap!MergeFirst(g[i - 1])
           g[i \in Nat] == Turn(g, i)
           States == {w \in Words : \E M : Merging(w, M, m, N, t, e)}
           h == [w \in States |-> Heap!MergeFirst(w)]
<1>1. Heap!Coalesce(m) = g[Heap!Top]
  BY DEF Heap!Coalesce
<1>2. g = CHOOSE f : f = [i \in Nat |-> Turn(f, i)]
  OBVIOUS
<1>3. ASSUME NEW w, NEW M, NEW k \in Nat, Merging(w, M, m, N, t, e), Touching(w, M, k)
      PROVE  \E L : /\ Merging(Heap!MergeFirst(w), L, m, N, t, e)
                    /\ Touching(Heap!MergeFirst(w), L, k + 1)
  BY <1>3, MergeFirstKeeps
<1>4. ASSUME NEW w, NEW M, Merging(w, M, m, N, t, e)
      PROVE  Touching(w, M, 0) /\ w \in Words
  <2>1. w \in Words /\ Ring(w.next, w.prev, M)
    BY <1>4 DEF Merging
  <2>2. \A c \in M : w.next[c] \in M \cup {0}
    BY <2>1 DEF Ring
  <2>3. \A x \in M \cup {0} : x \in Nat
    BY <2>1, RingNumbers
  <2>4. \A c \in M : 0 <= w.next[c]
    BY <2>2, <2>3
  <2> QED
    BY <2>1, <2>4 DEF Touching
<1>5. h \in [States -> States] /\ m \in States
  <2>1. ASSUME NEW w \in States
        PROVE  Heap!MergeFirst(w) \in States
    <3>1. PICK M : Merging(w, M, m, N, t, e)
      OBVIOUS
    <3>2. Touching(w, M, 0)
      BY <1>4, <3>1
    <3>3. PICK L : Merging(Heap!MergeFirst(w), L, m, N, t, e)
      BY <1>3, <3>1, <3>2
    <3> QED
      BY <1>4, <3>3
  <2>2. m \in Words
    BY <1>4
  <2> QED
    BY <2>1, <2>2
<1>6. PICK f \in [Nat -> States] : Follows(f, h, m)
  <2> HIDE DEF h, States
  <2> QED
    BY <1>5, Iterates
<1>7. f = [i \in Nat |-> Turn(f, i)]
  <2>1. f[0] = m /\ \A i \in Nat : f[i + 1] = h[f[i]]
    BY <1>6 DEF Follows
  <2>2. ASSUME NEW i \in Nat
        PROVE  f[i] = Turn(f, i)
    <3>1. CASE i = 0
      BY <2>1, <3>1
    <3>2. CASE i # 0
      <4>1. PICK k \in Nat : k = i - 1 /\ i = k + 1
        BY <3>2
      <4>2. f[i] = h[f[k]] /\ f[k] \in States
        BY <2>1, <4>1
      <4>3. h[f[k]] = Heap!MergeFirst(f[k])
        BY <4>2
      <4> QED
        BY <3>2, <4>1, <4>2, <4>3
    <3> QED
      BY <3>1, <3>2
  <2> QED
    BY <2>2
<1> HIDE DEF g, Turn
<1>8. g = [i \in Nat |-> Turn(g, i)]
  BY <1>2, <1>7, Zenon
<1>9. ASSUME NEW i \in Nat
      PROVE  g[i] = Turn(g, i)
  BY <1>8
<1> DEFINE Right(i) == \E M : Merging(g[i], M, m, N, t, e) /\ Touching(g[i], M, i)
           Wrong == {i \in Nat : ~Right(i)}
<1>10. Wrong = {}
  <2> SUFFICES ASSUME Wrong # {} PROVE FALSE
    OBVIOUS
  <2>1. PICK n \in Wrong : \A k \in Wrong : n <= k
    <3> HIDE DEF Right
    <3> QED
      BY LeastNumber
  <2>2. CASE n = 0
    <3>1. g[0] = m
      BY <1>9 DEF Turn
    <3>2. Merging(g[0], N, m, N, t, e) /\ Touching(g[0], N, 0)
      BY <1>4, <3>1
    <3> QED
      BY <2>1, <2>2, <3>2
  <2>3. CASE n # 0
    <3>1. PICK k \in Nat : k = n - 1 /\ n = k + 1
      BY <2>3
    <3>2. Right(k)
      <4>1. k \notin Wrong
        BY <2>1, <3>1
      <4> QED
        BY <4>1
    <3>3. PICK M : Merging(g[k], M, m, N, t, e) /\ Touching(g[k], M, k)
      BY <3>2
    <3>4. g[n] = Heap!MergeFirst(g[k])
      BY <1>9, <3>1 DEF Turn
    <3>5. \E L : Merging(g[n], L, m, N, t, e) /\ Touching(g[n], L, k + 1)
      BY <1>3, <3>3, <3>4
    <3> QED
      BY <2>1, <3>1, <3>5
  <2> QED
    BY <2>2, <2>3
<1>11. PICK M : /\ Merging(g[Heap!Top], M, m, N, t, e)
                /\ Touching(g[Heap!Top], M, Heap!Top)
  BY <1>10, UnitsOf
<1>12. ASSUME NEW c \in M, Heap!Touches(g[Heap!Top], c)
       PROVE  FALSE
  <2>1. PICK w : w = g[Heap!Top]
    OBVIOUS
  <2>2. Heap!Top <= w.next[c]
    BY <1>11, <1>12, <2>1 DEF Touching
  <2>3. Ring(w.next, w.prev, M)
    BY <1>11, <2>1 DEF Merging
  <2>4. w.next[c] \in M \cup {0} /\ M \cup {0} \subseteq Heap!Units
    BY <2>3, RingNumbers DEF Ring
  <2> QED
    BY <2>2, <2>4, UnitsOf
<1> QED
  BY <1>1, <1>11, <1>12

LEMMA AppendIs ==
  ASSUME NEW m \in Words, NEW a, NEW b
  PROVE  Heap!NodeAppend(m, a, b) =
           [size |-> m.size, prev |-> [m.prev EXCEPT ![b] = a, ![m.next[a]] = b],
            next |-> [m.next EXCEPT ![b] = m.next[a], ![a] = b]]
<1>1. PICK s, p, n : m = [size |-> s, prev |-> p, next |-> n]
  BY DEF Words
<1>2. m.size = s /\ m.prev = p /\ m.next = n
  BY <1>1
<1>3. PICK c, u, v, w, z : /\ c = n[a] /\ u = [n EXCEPT ![b] = c] /\ v = [p EXCEPT ![b] = a]
                           /\ w = [v EXCEPT ![c] = b] /\ z = [u EXCEPT ![a] = b]
  OBVIOUS
<1>4. Heap!NodeAppend(m, a, b) =
        [m EXCEPT !.next[b] = c, !.prev[b] = a, !.prev[c] = b, !.next[a] = b]
  BY <1>2, <1>3 DEF Heap!NodeAppend
<1>5. PICK r : r = [m EXCEPT !.next[b] = c]
  OBVIOUS
<1>6. r = [size |-> s, prev |-> p, next |-> u]
  BY <1>1, <1>3, <1>5
<1>7. PICK q : q = [r EXCEPT !.prev[b] = a]
  OBVIOUS
<1>8. q = [size |-> s, prev |-> v, next |-> u]
  BY <1>3, <1>6, <1>7
<1>9. PICK x : x = [q EXCEPT !.prev[c] = b]
  OBVIOUS
<1>10. x = [size |-> s, prev |-> w, next |-> u]
  BY <1>3, <1>8, <1>9
<1>11. [x EXCEPT !.next[a] = b] = [size |-> s, prev |-> w, next |-> z]
  BY <1>3, <1>10
<1>12. Heap!NodeAppend(m, a, b) = [x EXCEPT !.next[a] = b]
  BY <1>4, <1>5, <1>7, <1>9
<1> QED
  BY <1>2, <1>3, <1>11, <1>12

\* A page becomes the last node.
WithPage(m, v) == Heap!NodeAppend([m EXCEPT !.size[v] = PageUnits], m.prev[0], v)

LEMMA PageAdded ==
  ASSUME NEW m \in Words, NEW N, Ring(m.next, m.prev, N),
         NEW v \in Heap!Units, PageUnits <= v, \A x \in N : x < v
  PROVE  /\ WithPage(m, v) \in Words
         /\ Ring(WithPage(m, v).next, WithPage(m, v).prev, N \cup {v})
         /\ WithPage(m, v).size = [m.size EXCEPT ![v] = PageUnits]
<1>1. PageUnits \in 0 .. Word - 1 /\ v \in Heap!Units \ {0} /\ v \in Nat
  BY UnitsOf
<1>2. PICK s : s = [m.size EXCEPT ![v] = PageUnits] /\ s \in [Heap!Units -> 0 .. Word - 1]
  BY <1>1 DEF Words
<1>3. PICK w : w = [m EXCEPT !.size[v] = PageUnits]
  OBVIOUS
<1>4. w = [size |-> s, prev |-> m.prev, next |-> m.next] /\ w \in Words
  BY <1>2, <1>3 DEF Words
<1>5. w.size = s /\ w.prev = m.prev /\ w.next = m.next
  BY <1>4
<1>6. PICK a : a = m.prev[0] /\ a \in N \cup {0} /\ m.next[a] = 0
  BY DEF Ring
<1>7. v \notin N /\ a < v
  <2>1. \A x \in N \cup {0} : x \in Nat
    BY RingNumbers
  <2>2. 0 < v
    BY UnitsOf
  <2> QED
    BY <1>1, <1>6, <2>1, <2>2
<1>8. WithPage(m, v) = [size |-> s, prev |-> [m.prev EXCEPT ![v] = a, ![m.next[a]] = v],
                        next |-> [m.next EXCEPT ![v] = m.next[a], ![a] = v]]
  <2>1. WithPage(m, v) = Heap!NodeAppend(w, a, v)
    BY <1>3, <1>6 DEF WithPage
  <2>2. Heap!NodeAppend(w, a, v) =
          [size |-> w.size, prev |-> [w.prev EXCEPT ![v] = a, ![w.next[a]] = v],
           next |-> [w.next EXCEPT ![v] = w.next[a], ![a] = v]]
    BY <1>4, AppendIs
  <2> QED
    BY <1>5, <2>1, <2>2
<1>9. Ring(WithPage(m, v).next, WithPage(m, v).prev, N \cup {v})
  <2>1. Ring([m.next EXCEPT ![v] = m.next[a], ![a] = v],
             [m.prev EXCEPT ![v] = a, ![m.next[a]] = v], N \cup {v})
    BY <1>1, <1>6, <1>7, RingGrows
  <2>2. /\ WithPage(m, v).next = [m.next EXCEPT ![v] = m.next[a], ![a] = v]
        /\ WithPage(m, v).prev = [m.prev EXCEPT ![v] = a, ![m.next[a]] = v]
    BY <1>8
  <2> QED
    BY <2>1, <2>2
<1>10. WithPage(m, v) \in Words
  BY <1>2, <1>8, <1>9 DEF Words, Ring
<1> QED
  BY <1>2, <1>8, <1>9, <1>10

LEMMA AddPagesIs ==
  /\ Heap!AddPages(mem, 0) = mem
  /\ Heap!AddPages(mem, 1) = WithPage(mem, end + 1 * PageUnits)
  /\ Heap!AddPages(mem, 2) = WithPage(WithPage(mem, end + 1 * PageUnits), end + 2 * PageUnits)
<1> DEFINE one == WithPage(mem, end + 1 * PageUnits)
           two == WithPage(one, end + 2 * PageUnits)
           Turn(g, i) == IF i = 0 THEN mem
                         ELSE LET v == end + i * PageUnits
                              IN  Heap!NodeAppend([g[i - 1] EXCEPT !.size[v] = PageUnits],
                                                  g[i - 1].prev[Heap!Head], v)
<1>1. ASSUME NEW k \in 0 .. 2
      PROVE  Heap!AddPages(mem, k) = IF k = 0 THEN mem ELSE IF k = 1 THEN one ELSE two
  <2> DEFINE g[i \in 0 .. k] == Turn(g, i)
             w == [i \in 0 .. k |-> IF i = 0 THEN mem ELSE IF i = 1 THEN one ELSE two]
  <2>1. Heap!AddPages(mem, k) = g[k]
    BY DEF Heap!AddPages
  <2>2. g = CHOOSE f : f = [i \in 0 .. k |-> Turn(f, i)]
    OBVIOUS
  <2>3. ASSUME NEW f, NEW i \in 0 .. 2
        PROVE  Turn(f, i) = IF i = 0 THEN mem ELSE WithPage(f[i - 1], end + i * PageUnits)
    BY UnitsOf DEF WithPage
  <2> HIDE DEF one, two, Turn
  <2>4. ASSUME NEW i \in 0 .. k
        PROVE  w[i] = Turn(w, i)
    <3>1. i \in 0 .. 2
      OBVIOUS
    <3>2. CASE i = 0
      BY <2>3, <3>1, <3>2
    <3>3. CASE i = 1
      <4>1. w[0] = mem /\ w[1] = one /\ 1 - 1 = 0
        BY <3>3
      <4>2. Turn(w, 1) = WithPage(w[0], end + 1 * PageUnits)
        BY <2>3, <4>1
      <4> QED
        BY <3>3, <4>1, <4>2 DEF one
    <3>4. CASE i = 2
      <4>1. w[1] = one /\ w[2] = two /\ 2 - 1 = 1
        BY <3>4
      <4>2. Turn(w, 2) = WithPage(w[1], end + 2 * PageUnits)
        BY <2>3, <4>1
      <4> QED
        BY <3>4, <4>1, <4>2 DEF two
    <3> QED
      BY <3>1, <3>2, <3>3, <3>4
  <2>5. w = [i \in 0 .. k |-> Turn(w, i)]
    BY <2>4
  <2> HIDE DEF g, w
  <2>6. g = [i \in 0 .. k |-> Turn(g, i)]
    BY <2>2, <2>5, Zenon
  <2>7. ASSUME NEW i \in 0 .. k
        PROVE  g[i] = IF i = 0 THEN mem ELSE WithPage(g[i - 1], end + i * PageUnits)
    BY <2>3, <2>6
  <2>8. g[0] = mem
    BY <2>7
  <2>9. k >= 1 => g[1] = one
    BY <2>7, <2>8 DEF one
  <2>10. k = 2 => g[2] = two
    BY <2>7, <2>9 DEF two
  <2> QED
    BY <2>1, <2>8, <2>9, <2>10
<1> HIDE DEF one, two
<1>2. Heap!AddPages(mem, 0) = mem /\ Heap!AddPages(mem, 1) = one /\ Heap!AddPages(mem, 2) = two
  BY <1>1
<1> QED
  BY <1>2 DEF one, two

LEMMA PagesAdded ==
  ASSUME NEW N, mem \in Words, Ring(mem.next, mem.prev, N), Sized(mem, N, end + PageUnits),
         end \in Nat, 1 < PageUnits, NEW k \in 0 .. 2, end + k * PageUnits \in Heap!Units,
         NEW m, m = Heap!AddPages(mem, k)
  PROVE  \E M : /\ M = N \cup {end + i * PageUnits : i \in 1 .. k}
                /\ Merging(m, M, m, M, end + PageUnits, end + (k + 1) * PageUnits)
                /\ \A u \in Heap!Units : u < end + PageUnits => m.size[u] = mem.size[u]
<1>1. PICK P \in Nat \ {0}, t \in Nat : P = PageUnits /\ t = end + P
  BY UnitsOf
<1>2. /\ end + 1 * PageUnits = t /\ end + 2 * PageUnits = t + P
      /\ end + PageUnits = t /\ 0 * PageUnits = 0
  BY <1>1
<1>3. N \cup {0} \subseteq Heap!Units /\ 0 \notin N /\ \A x \in N \cup {0} : x \in Nat
  BY RingNumbers
<1>4. \A x \in N : 2 <= mem.size[x] /\ x + mem.size[x] <= t
  BY <1>1 DEF Sized
<1>5. \A u \in Heap!Units : mem.size[u] \in Nat /\ u \in Nat
  BY UnitsOf DEF Words
<1>6. \A x \in N : x < t /\ x + 1 < t
  <2> SUFFICES ASSUME NEW x \in N PROVE x < t /\ x + 1 < t
    OBVIOUS
  <2>1. x \in Nat /\ mem.size[x] \in Nat /\ 2 <= mem.size[x] /\ x + mem.size[x] <= t
    BY <1>3, <1>4, <1>5
  <2> QED
    BY <2>1
<1>7. ASSUME NEW M, NEW e \in Nat, m \in Words, Ring(m.next, m.prev, M), Sized(m, M, e),
             Fresh(m, M, t, e), e = end + (k + 1) * PageUnits,
             M = N \cup {end + i * PageUnits : i \in 1 .. k},
             \A u \in Heap!Units : u < t => m.size[u] = mem.size[u]
      PROVE  \E L : /\ L = N \cup {end + i * PageUnits : i \in 1 .. k}
                    /\ Merging(m, L, m, L, end + PageUnits, end + (k + 1) * PageUnits)
                    /\ \A u \in Heap!Units : u < end + PageUnits => m.size[u] = mem.size[u]
  BY <1>2, <1>7 DEF Merging
<1>8. CASE k = 0
  <2>1. m = mem
    BY <1>8, AddPagesIs
  <2>2. Fresh(mem, N, t, t)
    <3>1. \A x \in N \cup {t}, y \in N : ~(t <= x /\ x < y)
      BY <1>3, <1>6
    <3>2. \A x \in N : ~(t <= x)
      BY <1>3, <1>6
    <3> QED
      BY <3>1, <3>2 DEF Fresh
  <2>3. {end + i * PageUnits : i \in 1 .. k} = {}
    BY <1>8
  <2>4. Sized(mem, N, t)
    BY <1>1
  <2>5. t = end + (k + 1) * PageUnits
    BY <1>1, <1>8
  <2>6. N = N \cup {end + i * PageUnits : i \in 1 .. k}
    BY <2>3
  <2> QED
    BY <1>7, <2>1, <2>2, <2>4, <2>5, <2>6
<1>9. CASE k = 1
  <2>1. m = WithPage(mem, t) /\ t \in Heap!Units
    BY <1>2, <1>9, AddPagesIs
  <2>2. PICK M : M = N \cup {t}
    OBVIOUS
  <2>3. /\ m \in Words /\ Ring(m.next, m.prev, M) /\ m.size = [mem.size EXCEPT ![t] = P]
    <3>1. PageUnits <= t
      BY <1>1
    <3> QED
      BY <1>1, <1>6, <2>1, <2>2, <3>1, PageAdded
  <2>4. m.size[t] = P /\ \A u \in Heap!Units : u # t => m.size[u] = mem.size[u]
    BY <2>1, <2>3 DEF Words
  <2>5. Sized(m, M, t + P)
    <3>1. ASSUME NEW x \in M
          PROVE  2 <= m.size[x] /\ x + m.size[x] <= t + P
      <4>1. CASE x = t
        BY <1>1, <2>4, <4>1
      <4>2. CASE x # t
        <5>1. x \in N /\ x \in Nat /\ x \in Heap!Units /\ m.size[x] = mem.size[x]
              /\ mem.size[x] \in Nat
          BY <1>3, <1>5, <2>2, <2>4, <4>2
        <5>2. 2 <= mem.size[x] /\ x + mem.size[x] <= t
          BY <1>4, <5>1
        <5> QED
          BY <5>1, <5>2
      <4> QED
        BY <4>1, <4>2
    <3> QED
      BY <3>1 DEF Sized
  <2>6. Fresh(m, M, t, t + P)
    <3>1. \A x \in M \cup {t}, y \in M : ~(t <= x /\ x < y)
      BY <1>3, <1>6, <2>2
    <3>2. \A x \in M : t <= x => x = t
      BY <1>3, <1>6, <2>2
    <3> QED
      BY <1>1, <2>4, <3>1, <3>2 DEF Fresh
  <2>7. t + P = end + (k + 1) * PageUnits
    BY <1>1, <1>9
  <2>8. M = N \cup {end + i * PageUnits : i \in 1 .. k}
    <3>1. {end + i * PageUnits : i \in 1 .. k} = {t}
      BY <1>2, <1>9
    <3> QED
      BY <2>2, <3>1
  <2> QED
    BY <1>7, <2>3, <2>4, <2>5, <2>6, <2>7, <2>8
<1>10. CASE k = 2
  <2>1. m = WithPage(WithPage(mem, t), t + P) /\ t + P \in Heap!Units /\ t \in Heap!Units
    BY <1>2, <1>10, AddPagesIs, UnitsOf
  <2>2. PICK M, w : M = (N \cup {t}) \cup {t + P} /\ w = WithPage(mem, t)
    OBVIOUS
  <2>3. w \in Words /\ Ring(w.next, w.prev, N \cup {t}) /\ w.size = [mem.size EXCEPT ![t] = P]
    <3>1. PageUnits <= t
      BY <1>1
    <3> QED
      BY <1>1, <1>6, <2>1, <2>2, <3>1, PageAdded
  <2>4. m \in Words /\ Ring(m.next, m.prev, M) /\ m.size = [w.size EXCEPT ![t + P] = P]
    <3>1. PICK N1, u : N1 = N \cup {t} /\ u = t + P
      OBVIOUS
    <3>2. u \in Heap!Units /\ PageUnits <= u /\ \A x \in N1 : x < u
      BY <1>1, <1>3, <1>6, <2>1, <3>1
    <3>3. w \in Words /\ Ring(w.next, w.prev, N1) /\ M = N1 \cup {u} /\ m = WithPage(w, u)
      BY <2>1, <2>2, <2>3, <3>1
    <3>4. /\ m \in Words /\ Ring(m.next, m.prev, N1 \cup {u})
          /\ m.size = [w.size EXCEPT ![u] = PageUnits]
      BY <3>2, <3>3, PageAdded
    <3> QED
      BY <1>1, <3>1, <3>3, <3>4
  <2>5. m.size[t] = P /\ m.size[t + P] = P
        /\ \A u \in Heap!Units : u # t /\ u # t + P => m.size[u] = mem.size[u]
    BY <1>1, <2>1, <2>3, <2>4 DEF Words
  <2>6. Sized(m, M, t + 2 * P)
    <3>1. ASSUME NEW x \in M
          PROVE  2 <= m.size[x] /\ x + m.size[x] <= t + 2 * P
      <4>1. CASE x = t \/ x = t + P
        BY <1>1, <2>5, <4>1
      <4>2. CASE x # t /\ x # t + P
        <5>1. x \in N /\ x \in Nat /\ x \in Heap!Units /\ m.size[x] = mem.size[x]
              /\ mem.size[x] \in Nat
          BY <1>3, <1>5, <2>2, <2>5, <4>2
        <5>2. 2 <= mem.size[x] /\ x + mem.size[x] <= t
          BY <1>4, <5>1
        <5> QED
          BY <5>1, <5>2
      <4> QED
        BY <4>1, <4>2
    <3> QED
      BY <3>1 DEF Sized
  <2>7. Fresh(m, M, t, t + 2 * P)
    <3>1. \A x \in M \cup {t} : t <= x => x = t \/ x = t + P
      BY <1>3, <1>6, <2>2
    <3>2. \A x \in M \cup {t}, y \in M : t <= x /\ x < y => x = t /\ y = t + P
      BY <1>1, <1>3, <1>6, <2>2
    <3>3. t + P \in M
      BY <2>2
    <3>4. \A x \in M \cup {t}, y \in M : t <= x /\ x < y => x + m.size[x] <= y
      BY <2>5, <3>2
    <3>5. \A x \in M : t <= x => x + m.size[x] = t + 2 * P \/ x + m.size[x] \in M
      <4>1. t + m.size[t] \in M /\ (t + P) + m.size[t + P] = t + 2 * P
        BY <1>1, <2>5, <3>3
      <4> QED
        BY <3>1, <4>1
    <3>6. PageUnits <= m.size[t] /\ t + m.size[t] <= t + 2 * P
      BY <1>1, <2>5
    <3> QED
      BY <3>4, <3>5, <3>6 DEF Fresh
  <2>8. t + 2 * P = end + (k + 1) * PageUnits /\ t + 2 * P \in Nat
    BY <1>1, <1>10
  <2>9. M = N \cup {end + i * PageUnits : i \in 1 .. k}
    <3>1. {end + i * PageUnits : i \in 1 .. k} = {t, t + P}
      BY <1>2, <1>10
    <3> QED
      BY <2>2, <3>1
  <2>10. \A u \in Heap!Units : u < t => m.size[u] = mem.size[u]
    BY <1>1, <1>5, <2>5
  <2> QED
    BY <1>7, <2>4, <2>6, <2>7, <2>8, <2>9, <2>10
<1> QED
  BY <1>8, <1>9, <1>10

\* What kmalloc and kfree keep, with N the nodes of the free list: they lie in the pages
\* that were asked for, and so do the blocks, each behind its size and apart from the nodes.
Whole(c, N) ==
  /\ blocks[c].at \in Nat \ {0} /\ blocks[c].units \in Nat \ {0, 1}
  /\ mem.size[blocks[c].at] = blocks[c].units
  /\ Heap!Block(c) \subseteq mapped
  /\ \A a \in N : {a, a + 1} \cap Heap!Block(c) = {}

HeapIs(N) ==
  /\ mem \in Words /\ Ring(mem.next, mem.prev, N) /\ Sized(mem, N, end + PageUnits)
  /\ end \in Heap!Units /\ end + PageUnits <= Heap!Top
  /\ \E q \in Nat : end = q * PageUnits
  /\ mapped \subseteq 0 .. end + PageUnits - 1
  /\ blocks = [p \in Pointers |-> blocks[p]]
  /\ \A c \in Heap!Live : Whole(c, N)
  /\ \A c, d \in Heap!Live : c # d => Heap!Block(c) \cap Heap!Block(d) = {}

HeapInv == \E N : HeapIs(N)

\* The heap grows by pages, so a page that begins in it ends in it.
LEMMA PagesEnd ==
  ASSUME NEW q \in Nat, q * PageUnits < Heap!Top
  PROVE  q * PageUnits + PageUnits <= Heap!Top
<1>1. MaxPages \in Nat /\ PageUnits \in Nat /\ Heap!Top = (MaxPages + 1) * PageUnits
  BY MemoryAssumption DEF HeapConstants, Heap!Top
<1>2. CASE q <= MaxPages
  <2>1. PICK d \in Nat : MaxPages = q + d
    <3>1. MaxPages - q \in Nat /\ MaxPages = q + (MaxPages - q)
      BY <1>1, <1>2
    <3> QED
      BY <3>1
  <2>2. Heap!Top = q * PageUnits + d * PageUnits + PageUnits
    BY <1>1, <2>1
  <2>3. d * PageUnits \in Nat /\ q * PageUnits \in Nat
    BY <1>1, <2>1
  <2> QED
    BY <1>1, <2>2, <2>3
<1>3. CASE ~(q <= MaxPages)
  <2>1. PICK d \in Nat : q = MaxPages + 1 + d
    <3>1. q - MaxPages - 1 \in Nat /\ q = MaxPages + 1 + (q - MaxPages - 1)
      BY <1>1, <1>3
    <3> QED
      BY <3>1
  <2>2. q * PageUnits = (MaxPages + 1) * PageUnits + d * PageUnits
    BY <1>1, <2>1
  <2>3. d * PageUnits \in Nat /\ (MaxPages + 1) * PageUnits \in Nat
    BY <1>1, <2>1
  <2> QED
    BY <1>1, <2>2, <2>3
<1> QED
  BY <1>2, <1>3

LEMMA EndRoom ==
  ASSUME \E q \in Nat : end = q * PageUnits, NEW k \in Nat, end + k * PageUnits < Heap!Top
  PROVE  /\ (end + k * PageUnits) + PageUnits <= Heap!Top
         /\ \E r \in Nat : end + k * PageUnits = r * PageUnits
<1>1. PICK q \in Nat : end = q * PageUnits
  OBVIOUS
<1>2. PageUnits \in Nat
  BY UnitsOf
<1>3. PICK r \in Nat : r = q + k
  OBVIOUS
<1>4. r * PageUnits = end + k * PageUnits
  BY <1>1, <1>2, <1>3
<1> QED
  BY <1>4, PagesEnd

LEMMA LiveBelow ==
  ASSUME NEW N, HeapIs(N), NEW d \in Heap!Live
  PROVE  /\ blocks[d].at \in Nat /\ blocks[d].at \in Heap!Units \ {0} /\ blocks[d].at \notin N
         /\ {blocks[d].at, blocks[d].at + 1} \subseteq Heap!Block(d)
         /\ \A u \in Heap!Block(d) : u \in Nat /\ u < end + PageUnits
<1>1. /\ blocks[d].at \in Nat \ {0} /\ blocks[d].units \in Nat \ {0, 1}
      /\ Heap!Block(d) \subseteq mapped /\ \A a \in N : {a, a + 1} \cap Heap!Block(d) = {}
      /\ mapped \subseteq 0 .. end + PageUnits - 1
      /\ end \in Heap!Units /\ end + PageUnits <= Heap!Top
  BY DEF HeapIs, Whole
<1>2. end \in Nat /\ PageUnits \in Nat /\ Heap!Top \in Nat /\ Heap!Units = 0 .. Heap!Top - 1
  BY <1>1, UnitsOf
<1>3. {blocks[d].at, blocks[d].at + 1} \subseteq Heap!Block(d)
  BY <1>1 DEF Heap!Block
<1>4. \A u \in Heap!Block(d) : u \in Nat /\ u < end + PageUnits
  <2>1. ASSUME NEW u \in mapped
        PROVE  u \in Nat /\ u < end + PageUnits
    <3>1. u \in 0 .. end + PageUnits - 1
      BY <1>1
    <3> QED
      BY <1>2, <3>1
  <2> QED
    BY <1>1, <2>1
<1>5. blocks[d].at < end + PageUnits
  BY <1>3, <1>4
<1>6. blocks[d].at \notin N
  BY <1>1, <1>3
<1> QED
  BY <1>1, <1>2, <1>3, <1>4, <1>5, <1>6

LEMMA HeapInvSound == HeapInv => Heap!HeapBlocksApart /\ Heap!FreeListSound /\ Heap!TypeOK
<1> SUFFICES ASSUME NEW N, HeapIs(N)
             PROVE  Heap!HeapBlocksApart /\ Heap!FreeListSound /\ Heap!TypeOK
  BY DEF HeapInv
<1>1. /\ mem \in Words /\ Ring(mem.next, mem.prev, N)
      /\ end \in Heap!Units /\ end + PageUnits <= Heap!Top
      /\ mapped \subseteq 0 .. end + PageUnits - 1
  BY DEF HeapIs
<1>2. Heap!Nodes(mem) = N /\ \E i \in 1 .. Heap!Top : Heap!Forward(mem)[i] = 0
  BY <1>1, NodesAre
<1>3. Heap!HeapBlocksApart
  BY <1>2 DEF HeapIs, Whole, Heap!HeapBlocksApart
<1>4. Heap!FreeListSound
  <2>1. \A a \in N : /\ mem.next[mem.prev[a]] = a /\ mem.prev[mem.next[a]] = a
                     /\ mem.next[a] = 0 \/ mem.next[a] > a
    <3> SUFFICES ASSUME NEW a \in N
                 PROVE  /\ mem.next[mem.prev[a]] = a /\ mem.prev[mem.next[a]] = a
                        /\ mem.next[a] = 0 \/ mem.next[a] > a
      OBVIOUS
    <3>1. a \in Nat /\ mem.next[a] \in Nat
      BY <1>1, RingNumbers DEF Ring
    <3> QED
      BY <1>1, <3>1 DEF Ring
  <2> QED
    BY <1>2, <2>1, UnitsOf DEF Heap!FreeListSound
<1>5. Heap!TypeOK
  <2>1. mem.size \in [Heap!Units -> 0 .. Word - 1]
        /\ mem.prev \in [Heap!Units -> Heap!Units] /\ mem.next \in [Heap!Units -> Heap!Units]
    BY <1>1 DEF Words
  <2>2. mapped \subseteq Heap!Units
    BY <1>1, UnitsOf
  <2> QED
    BY <1>1, <2>1, <2>2 DEF Heap!TypeOK
<1> QED
  BY <1>3, <1>4, <1>5

LEMMA HeapInit == Heap!Init => HeapInv
<1> SUFFICES ASSUME Heap!Init PROVE HeapIs({})
  BY DEF HeapInv
<1>1. /\ mem = [size |-> [a \in Heap!Units |-> 0], prev |-> [a \in Heap!Units |-> 0],
                next |-> [a \in Heap!Units |-> 0]]
      /\ end = 0 /\ mapped = 0 .. 0 + PageUnits - 1
      /\ blocks = [c \in Pointers |-> NoBlock]
  BY UnitsOf DEF Heap!Init, Heap!PageAt
<1>2. mem \in Words /\ Ring(mem.next, mem.prev, {})
  BY <1>1, UnitsOf DEF Words, Ring
<1>3. Sized(mem, {}, end + PageUnits)
  BY DEF Sized
<1>4. end \in Heap!Units /\ end + PageUnits <= Heap!Top /\ \E q \in Nat : end = q * PageUnits
  <2>1. 0 * PageUnits = 0 /\ 0 * PageUnits < Heap!Top
    BY UnitsOf
  <2>2. 0 * PageUnits + PageUnits <= Heap!Top
    BY <2>1, PagesEnd
  <2> QED
    BY <1>1, <2>1, <2>2, UnitsOf
<1>5. mapped \subseteq 0 .. end + PageUnits - 1
  BY <1>1
<1>6. Heap!Live = {} /\ blocks = [p \in Pointers |-> blocks[p]]
  BY <1>1 DEF Heap!Live
<1> QED
  BY <1>2, <1>3, <1>4, <1>5, <1>6 DEF HeapIs

\* kfree: the block becomes a node, and what touches is merged.
LEMMA HeapKfree ==
  ASSUME HeapInv, NEW c \in Pointers, Heap!Kfree(c)
  PROVE  HeapInv'
<1>1. PICK N : HeapIs(N)
  BY DEF HeapInv
<1>2. /\ mem \in Words /\ Ring(mem.next, mem.prev, N) /\ Sized(mem, N, end + PageUnits)
      /\ end \in Heap!Units /\ end + PageUnits <= Heap!Top
      /\ \E q \in Nat : end = q * PageUnits
      /\ mapped \subseteq 0 .. end + PageUnits - 1
      /\ \A d \in Heap!Live : Whole(d, N)
      /\ \A d, b \in Heap!Live : d # b => Heap!Block(d) \cap Heap!Block(b) = {}
  BY <1>1 DEF HeapIs
<1>3. PICK a, e : a = blocks[c].at /\ e = end + PageUnits
  OBVIOUS
<1>4. c \in Heap!Live /\ end' = end /\ mapped' = mapped
      /\ blocks' = [blocks EXCEPT ![c] = NoBlock]
      /\ mem' = IF mem.size[a] = 0 THEN mem
                ELSE Heap!Coalesce(Heap!NodeAppend(mem, Heap!Place(a), a))
  BY <1>3 DEF Heap!Kfree, Heap!Live
<1>5. e \in Nat /\ e <= Heap!Top /\ PageUnits \in Nat \ {0} /\ Heap!Units = 0 .. Heap!Top - 1
      /\ end \in Nat /\ Heap!Top \in Nat
  BY <1>2, <1>3, UnitsOf
<1>6. /\ a \in Nat /\ a \in Heap!Units \ {0} /\ a \notin N
      /\ {a, a + 1} \subseteq Heap!Block(c)
      /\ \A u \in Heap!Block(c) : u \in Nat /\ u < e
  BY <1>1, <1>3, <1>4, LiveBelow
<1>7. /\ mem.size[a] = blocks[c].units /\ mem.size[a] \in Nat /\ 2 <= mem.size[a]
      /\ a + mem.size[a] <= e
  <2>1. blocks[c].units \in Nat \ {0, 1} /\ mem.size[a] = blocks[c].units
    BY <1>2, <1>3, <1>4 DEF Whole
  <2>2. a + blocks[c].units - 1 \in Heap!Block(c)
    BY <1>3, <1>6, <2>1 DEF Heap!Block
  <2>3. a + blocks[c].units - 1 < e
    BY <1>6, <2>2
  <2> QED
    BY <1>5, <1>6, <2>1, <2>3
<1>8. PICK r, m, N0 : /\ r = Heap!Place(a) /\ m = Heap!NodeAppend(mem, r, a)
                      /\ N0 = N \cup {a}
  OBVIOUS
<1>9. r \in N \cup {0} /\ r < a /\ (mem.next[r] = 0 \/ a < mem.next[r])
  BY <1>2, <1>6, <1>8, PlaceIs
<1>10. m = [size |-> mem.size, prev |-> [mem.prev EXCEPT ![a] = r, ![mem.next[r]] = a],
            next |-> [mem.next EXCEPT ![a] = mem.next[r], ![r] = a]]
  BY <1>2, <1>8, AppendIs
<1>11. Ring(m.next, m.prev, N0)
  <2>1. Ring([mem.next EXCEPT ![a] = mem.next[r], ![r] = a],
             [mem.prev EXCEPT ![a] = r, ![mem.next[r]] = a], N \cup {a})
    BY <1>2, <1>6, <1>9, RingGrows
  <2> QED
    BY <1>8, <1>10, <2>1
<1>12. m \in Words /\ m.size = mem.size
  BY <1>2, <1>10, <1>11 DEF Words, Ring
<1>13. Sized(m, N0, e)
  BY <1>2, <1>3, <1>7, <1>8, <1>12 DEF Sized
<1>14. Fresh(m, N0, e, e)
  <2>1. \A x \in N0 : x \in Nat /\ x < e
    <3>1. ASSUME NEW x \in N0
          PROVE  x \in Nat /\ x < e
      <4>1. x \in Nat /\ x \in Heap!Units
        BY <1>11, RingNumbers
      <4>2. m.size[x] \in Nat
        <5>1. m.size \in [Heap!Units -> 0 .. Word - 1]
          BY <1>12 DEF Words
        <5>2. m.size[x] \in 0 .. Word - 1
          BY <4>1, <5>1
        <5> QED
          BY <5>2, UnitsOf
      <4>3. 2 <= m.size[x] /\ x + m.size[x] <= e
        BY <1>13 DEF Sized
      <4> QED
        BY <1>5, <4>1, <4>2, <4>3
    <3> QED
      BY <3>1
  <2>2. \A x \in N0 \cup {e}, y \in N0 : ~(e <= x /\ x < y)
    BY <1>5, <2>1
  <2>3. \A x \in N0 : ~(e <= x)
    BY <1>5, <2>1
  <2> QED
    BY <1>5, <2>2, <2>3 DEF Fresh
<1>15. Merging(m, N0, m, N0, e, e)
  BY <1>11, <1>12, <1>13, <1>14 DEF Merging
<1>16. PICK M : Merging(Heap!Coalesce(m), M, m, N0, e, e)
  BY <1>5, <1>15, CoalesceKeeps
<1>17. mem' = Heap!Coalesce(m)
  BY <1>4, <1>7, <1>8
<1>18. /\ mem' \in Words /\ Ring(mem'.next, mem'.prev, M) /\ M \subseteq N \cup {a}
       /\ Sized(mem', M, e)
       /\ \A u \in Heap!Units : u \notin N \cup {a} => mem'.size[u] = mem.size[u]
  BY <1>8, <1>12, <1>16, <1>17 DEF Merging
<1>19. blocks = [p \in Pointers |-> blocks[p]]
  BY <1>1 DEF HeapIs
<1>20. /\ blocks' = [p \in Pointers |-> blocks'[p]]
       /\ \A d \in Heap!Live' : d \in Heap!Live /\ d # c /\ blocks'[d] = blocks[d]
  BY <1>4, <1>19 DEF Heap!Live
<1>21. ASSUME NEW d \in Heap!Live'
       PROVE  /\ Heap!Block(d)' = Heap!Block(d)
              /\ Whole(d, M)'
  <2>1. d \in Heap!Live /\ d # c /\ blocks'[d] = blocks[d]
    BY <1>20
  <2>2. Heap!Block(d)' = Heap!Block(d)
    BY <2>1 DEF Heap!Block
  <2>3. Whole(d, N) /\ Heap!Block(d) \cap Heap!Block(c) = {}
    BY <1>2, <1>4, <2>1
  <2>4. blocks[d].at \in Heap!Units /\ blocks[d].at \notin N /\ blocks[d].at \in Heap!Block(d)
    BY <1>1, <2>1, LiveBelow
  <2>5. mem'.size[blocks[d].at] = mem.size[blocks[d].at]
    BY <1>6, <1>18, <2>3, <2>4
  <2>6. \A x \in M : {x, x + 1} \cap Heap!Block(d) = {}
    BY <1>6, <1>18, <2>3 DEF Whole
  <2> QED
    BY <1>4, <2>1, <2>2, <2>3, <2>5, <2>6 DEF Whole
<1>22. \A d, b \in Heap!Live' : d # b => (Heap!Block(d) \cap Heap!Block(b))' = {}
  BY <1>2, <1>20, <1>21
<1>23. HeapIs(M)'
  BY <1>2, <1>3, <1>4, <1>18, <1>20, <1>21, <1>22 DEF HeapIs
<1> QED
  BY <1>23 DEF HeapInv

\* Callers that spare the search come to the head, and two pages are added.
LEMMA PagesForTwo ==
  ASSUME HeapInv, NEW n \in 1 .. PageUnits - 1, Heap!Spared(n)
  PROVE  Heap!Search(n) = 0 /\ Heap!PagesFor(n) = 2
<1>1. PICK N : HeapIs(N)
  BY DEF HeapInv
<1>2. mem \in Words /\ Ring(mem.next, mem.prev, N)
  BY <1>1 DEF HeapIs
<1>3. N = Heap!Nodes(mem) /\ N \subseteq Heap!Units
  BY <1>2, NodesAre DEF Ring
<1>4. PICK S : S = {a \in Heap!Units : mem.size[a] < n \/ a = Heap!Head}
  OBVIOUS
<1>5. Heap!Search(n) \in S /\ Heap!Search(n) \in N \cup {0}
  <2>1. 0 \in S
    BY <1>4, UnitsOf
  <2>2. Heap!Search(n) = Heap!StopsAt(Heap!Forward(mem), S)
    BY <1>4 DEF Heap!Search
  <2> QED
    BY <1>2, <2>1, <2>2, SearchUp
<1>6. Heap!Search(n) = 0
  <2> SUFFICES ASSUME Heap!Search(n) # 0 PROVE FALSE
    OBVIOUS
  <2>1. PICK x \in N : x = Heap!Search(n)
    BY <1>5
  <2>2. mem.size[x] < n
    BY <1>4, <1>5, <2>1, UnitsOf
  <2>3. n <= mem.size[x]
    BY <1>3, <2>1 DEF Heap!Spared
  <2>4. mem.size \in [Heap!Units -> 0 .. Word - 1]
    BY <1>2 DEF Words
  <2>5. mem.size[x] \in Nat
    BY <1>3, <2>1, <2>4, UnitsOf
  <2> QED
    BY <2>2, <2>3, <2>5
<1>7. n \div PageUnits = 0
  BY UnitsOf
<1> QED
  BY <1>6, <1>7, UnitsOf DEF Heap!PagesFor

\* kmalloc when a page is not to be had: the heap has grown, and no block was made.
LEMMA HeapNoPages ==
  ASSUME HeapInv, NEW n \in 1 .. PageUnits - 1, 1 < PageUnits, Heap!Spared(n),
         Heap!NoMorePages(n)
  PROVE  HeapInv'
<1>1. PICK N : HeapIs(N)
  BY DEF HeapInv
<1>2. /\ mem \in Words /\ Ring(mem.next, mem.prev, N) /\ Sized(mem, N, end + PageUnits)
      /\ end \in Heap!Units /\ end + PageUnits <= Heap!Top
      /\ \E q \in Nat : end = q * PageUnits
      /\ mapped \subseteq 0 .. end + PageUnits - 1
      /\ \A d \in Heap!Live : Whole(d, N)
      /\ \A d, b \in Heap!Live : d # b => Heap!Block(d) \cap Heap!Block(b) = {}
  BY <1>1 DEF HeapIs
<1>3. PICK k \in 0 .. 1 : /\ end + (k + 1) * PageUnits < Heap!Top
                          /\ mem' = Heap!AddPages(mem, k)
                          /\ end' = end + (k + 1) * PageUnits
                          /\ mapped' = mapped \cup Heap!NewUnits(k)
                          /\ blocks' = blocks
  <2>1. Heap!PagesFor(n) = 2
    BY PagesForTwo
  <2> QED
    BY <2>1 DEF Heap!NoMorePages
<1>4. PICK P \in Nat \ {0}, t \in Nat : P = PageUnits /\ t = end + P
  BY <1>2, UnitsOf
<1>5. /\ (k + 1) * PageUnits = k * P + P /\ (k = 0 \/ k = 1) /\ k \in Nat
      /\ k * PageUnits = k * P /\ k * P \in Nat /\ end \in Nat /\ Heap!Top \in Nat
      /\ Heap!Units = 0 .. Heap!Top - 1
  BY <1>2, <1>3, <1>4, UnitsOf
<1>6. end + k * PageUnits \in Heap!Units
  BY <1>3, <1>5
<1>7. PICK M : /\ M = N \cup {end + i * PageUnits : i \in 1 .. k}
               /\ Merging(mem', M, mem', M, end + PageUnits, end + (k + 1) * PageUnits)
               /\ \A u \in Heap!Units : u < end + PageUnits => mem'.size[u] = mem.size[u]
  <2>1. PICK m : m = mem' /\ m = Heap!AddPages(mem, k)
    BY <1>3
  <2>2. k \in 0 .. 2
    BY <1>3
  <2>3. \E M : /\ M = N \cup {end + i * PageUnits : i \in 1 .. k}
               /\ Merging(m, M, m, M, end + PageUnits, end + (k + 1) * PageUnits)
               /\ \A u \in Heap!Units : u < end + PageUnits => m.size[u] = mem.size[u]
    BY <1>2, <1>5, <1>6, <2>1, <2>2, PagesAdded
  <2> QED
    BY <2>1, <2>3
<1>8. M \subseteq N \cup {t}
  <2>1. \A i \in 1 .. k : end + i * PageUnits = t
    BY <1>4, <1>5
  <2> QED
    BY <1>7, <2>1
<1>9. mem' \in Words /\ Ring(mem'.next, mem'.prev, M) /\ Sized(mem', M, end')
  BY <1>3, <1>7 DEF Merging
<1>10. end' \in Heap!Units /\ end' + PageUnits <= Heap!Top
       /\ \E q \in Nat : end' = q * PageUnits
  <2>1. end + (k + 1) * PageUnits \in Nat /\ k + 1 \in Nat
    BY <1>5
  <2>2. /\ (end + (k + 1) * PageUnits) + PageUnits <= Heap!Top
        /\ \E r \in Nat : end + (k + 1) * PageUnits = r * PageUnits
    BY <1>2, <1>3, <2>1, EndRoom
  <2> QED
    BY <1>3, <1>5, <2>1, <2>2
<1>11. Sized(mem', M, end' + PageUnits)
  <2> SUFFICES ASSUME NEW x \in M
               PROVE  2 <= mem'.size[x] /\ x + mem'.size[x] <= end' + PageUnits
    BY DEF Sized
  <2>1. 2 <= mem'.size[x] /\ x + mem'.size[x] <= end'
    BY <1>9 DEF Sized
  <2>2. x \in Heap!Units /\ x \in Nat
    BY <1>9, RingNumbers
  <2>3. mem'.size \in [Heap!Units -> 0 .. Word - 1]
    BY <1>9 DEF Words
  <2>4. mem'.size[x] \in 0 .. Word - 1
    BY <2>2, <2>3
  <2>5. mem'.size[x] \in Nat
    BY <2>4, UnitsOf
  <2>6. end' \in Nat
    BY <1>5, <1>10
  <2> QED
    BY <1>4, <2>1, <2>2, <2>5, <2>6
<1>12. mapped' \subseteq 0 .. end' + PageUnits - 1
  <2>1. \A u \in Heap!NewUnits(k) : u \in 0 .. t + P - 1 /\ k = 1
    <3>1. \A i \in 1 .. k : i = 1 /\ k = 1
      BY <1>5
    <3>2. Heap!PageAt(end + 1 * PageUnits) = t .. t + P - 1
      BY <1>4, <1>5 DEF Heap!PageAt
    <3>3. \A u \in Heap!NewUnits(k) : u \in Heap!PageAt(end + 1 * PageUnits) /\ k = 1
      BY <3>1 DEF Heap!NewUnits
    <3> QED
      BY <1>4, <3>2, <3>3
  <2>2. end' = t + k * P
    BY <1>3, <1>4, <1>5
  <2>3. k = 1 => t + P - 1 <= end' + PageUnits - 1
    BY <1>4, <2>2
  <2>4. \A u \in mapped : u \in 0 .. end' + PageUnits - 1
    BY <1>2, <1>4, <1>5, <2>2
  <2>5. \A u \in Heap!NewUnits(k) : u \in 0 .. end' + PageUnits - 1
    BY <1>4, <1>5, <2>1, <2>2
  <2> QED
    BY <1>3, <2>4, <2>5
<1>13. blocks' = [p \in Pointers |-> blocks'[p]] /\ Heap!Live' = Heap!Live
  BY <1>1, <1>3 DEF HeapIs, Heap!Live
<1>14. ASSUME NEW d \in Heap!Live'
       PROVE  Heap!Block(d)' = Heap!Block(d) /\ Whole(d, M)'
  <2>1. d \in Heap!Live /\ blocks'[d] = blocks[d] /\ Whole(d, N)
    BY <1>2, <1>3, <1>13
  <2>2. Heap!Block(d)' = Heap!Block(d)
    BY <2>1 DEF Heap!Block
  <2>3. /\ blocks[d].at \in Heap!Units /\ blocks[d].at \in Heap!Block(d)
        /\ \A u \in Heap!Block(d) : u \in Nat /\ u < end + PageUnits
    BY <1>1, <2>1, LiveBelow
  <2>4. mem'.size[blocks[d].at] = mem.size[blocks[d].at]
    BY <1>7, <2>3
  <2>5. \A x \in M : {x, x + 1} \cap Heap!Block(d) = {}
    <3>1. \A x \in N : {x, x + 1} \cap Heap!Block(d) = {}
      BY <2>1 DEF Whole
    <3>2. t \notin Heap!Block(d) /\ t + 1 \notin Heap!Block(d)
      BY <1>4, <2>3
    <3> QED
      BY <1>8, <3>1, <3>2
  <2> QED
    BY <1>3, <2>1, <2>2, <2>4, <2>5 DEF Whole
<1>15. \A d, b \in Heap!Live' : d # b => (Heap!Block(d) \cap Heap!Block(b))' = {}
  BY <1>2, <1>13, <1>14
<1>16. HeapIs(M)'
  BY <1>9, <1>10, <1>11, <1>12, <1>13, <1>14, <1>15 DEF HeapIs
<1> QED
  BY <1>16 DEF HeapInv

\* Where coalescing has left the new memory: it begins with t, a node or the rear of one, and
\* a request of less than a page is taken from its end, in front of the next node.
LEMMA RoomBehind ==
  ASSUME NEW m, NEW M, NEW m0, NEW N0, NEW t \in Nat, NEW e \in Nat, e = t + 2 * PageUnits,
         e <= Heap!Top, Merging(m, M, m0, N0, t, e), \A c \in M : ~Heap!Touches(m, c),
         t \in Heap!Units, t # 0, NEW n \in 2 .. PageUnits - 1,
         \A x \in M : x < t => x + 1 < t
  PROVE  /\ n < m.size[t] /\ t + m.size[t] <= e /\ m.size[t] \in 0 .. Word - 1
         /\ t \in M => n + 1 < m.size[t]
         /\ \A x \in M : {x, x + 1} \cap (t + m.size[t] - n .. t + m.size[t] - 1) = {}
<1>1. m \in Words /\ Ring(m.next, m.prev, M) /\ Sized(m, M, e) /\ Fresh(m, M, t, e)
  BY DEF Merging
<1>2. m.size \in [Heap!Units -> 0 .. Word - 1]
  BY <1>1 DEF Words
<1>3. PICK s, P \in Nat : /\ s = m.size[t] /\ s \in 0 .. Word - 1
                          /\ P = PageUnits /\ n < P /\ 2 < P /\ e = t + 2 * P
  BY <1>2, UnitsOf
<1>4. P <= s /\ t + s <= e
  BY <1>1, <1>3 DEF Fresh
<1>5. \A x \in M : x \in Nat /\ x # 0
  BY <1>1, RingNumbers
<1>6. \A x \in M : t < x => t + s <= x
  BY <1>1, <1>3 DEF Fresh
<1>7. ASSUME t \in M
      PROVE  t + s = e
  <2> SUFFICES ASSUME t + s \in M PROVE FALSE
    BY <1>1, <1>3, <1>7 DEF Fresh
  <2>1. t < t + s
    BY <1>3, <1>4
  <2>2. m.next[t] # 0 /\ m.next[t] <= t + s
    BY <1>1, <1>7, <2>1 DEF Ring
  <2>3. m.next[t] \in M /\ t < m.next[t]
    BY <1>1, <1>7, <2>2 DEF Ring
  <2>4. t + s <= m.next[t] /\ m.next[t] \in Nat
    BY <1>5, <1>6, <2>3
  <2>5. t + m.size[t] = m.next[t]
    BY <1>3, <2>2, <2>4
  <2> QED
    BY <1>7, <2>2, <2>5, UnitsOf DEF Heap!Touches
<1>8. t \in M => n + 1 < s
  BY <1>3, <1>7
<1>9. ASSUME NEW x \in M
      PROVE  {x, x + 1} \cap (t + s - n .. t + s - 1) = {}
  <2>1. CASE x < t
    BY <1>3, <1>4, <1>5, <2>1
  <2>2. CASE x = t
    BY <1>3, <1>8, <2>2
  <2>3. CASE t < x
    BY <1>3, <1>5, <1>6, <2>3
  <2> QED
    BY <1>5, <2>1, <2>2, <2>3
<1> QED
  BY <1>3, <1>4, <1>8, <1>9

\* The block is cut off the end of t.
LEMMA TakeIs ==
  ASSUME NEW m \in Words, NEW t \in Heap!Units, NEW n \in Nat, n < m.size[t], m.size[t] < Word,
         NEW b, b = t + m.size[t] - n, b \in Heap!Units
  PROVE  /\ Heap!Take(m, t, n) \in Words
         /\ Heap!Take(m, t, n).next = m.next /\ Heap!Take(m, t, n).prev = m.prev
         /\ Heap!Take(m, t, n).size[b] = n /\ b # t
         /\ Heap!Take(m, t, n).size[t] = m.size[t] - n
         /\ \A u \in Heap!Units : u # t /\ u # b => Heap!Take(m, t, n).size[u] = m.size[u]
<1>1. PICK z, p, x : /\ m = [size |-> z, prev |-> p, next |-> x]
                     /\ z \in [Heap!Units -> 0 .. Word - 1]
                     /\ p \in [Heap!Units -> Heap!Units] /\ x \in [Heap!Units -> Heap!Units]
  BY DEF Words
<1>2. m.size = z /\ m.prev = p /\ m.next = x
  BY <1>1
<1>3. PICK s : s = m.size[t] /\ s \in Nat /\ n < s /\ s < Word
  <2>1. z[t] \in 0 .. Word - 1
    BY <1>1
  <2> QED
    BY <1>2, <2>1, UnitsOf
<1>4. PICK left \in Nat : left = s - n /\ ~(left < 1) /\ left < Word
  <2>1. s - n \in Nat /\ ~(s - n < 1) /\ s - n < Word
    BY <1>3, UnitsOf
  <2> QED
    BY <2>1
<1>5. (m.size[t] - n) % Word = left
  <2>1. m.size[t] - n = left
    BY <1>3, <1>4
  <2>2. left % Word = left
    BY <1>4, UnitsOf
  <2> QED
    BY <2>1, <2>2
<1>6. PICK y : y = [m EXCEPT !.size[b] = n]
  OBVIOUS
<1>7. y = [size |-> [z EXCEPT ![b] = n], prev |-> p, next |-> x]
  BY <1>1, <1>2, <1>6
<1>8. PICK r : r = [y EXCEPT !.size[t] = left]
  OBVIOUS
<1>9. r = [size |-> [[z EXCEPT ![b] = n] EXCEPT ![t] = left], prev |-> p, next |-> x]
  BY <1>7, <1>8
<1>10. Heap!Take(m, t, n) = r
  <2>1. Heap!Take(m, t, n) = [m EXCEPT !.size[b] = n, !.size[t] = left]
    BY <1>4, <1>5 DEF Heap!Take
  <2> QED
    BY <1>6, <1>8, <2>1
<1>11. b # t
  BY <1>3, UnitsOf
<1>12. n \in 0 .. Word - 1 /\ left \in 0 .. Word - 1
  BY <1>3, <1>4, UnitsOf
<1>13. r.size = [[z EXCEPT ![b] = n] EXCEPT ![t] = left] /\ r.prev = p /\ r.next = x
  BY <1>9
<1>14. r.size \in [Heap!Units -> 0 .. Word - 1]
  BY <1>1, <1>12, <1>13
<1>15. r \in Words
  BY <1>1, <1>9, <1>13, <1>14 DEF Words
<1>16. r.size[b] = n /\ r.size[t] = left
       /\ \A u \in Heap!Units : u # t /\ u # b => r.size[u] = z[u]
  BY <1>1, <1>11, <1>13
<1> QED
  BY <1>2, <1>3, <1>4, <1>10, <1>11, <1>13, <1>15, <1>16

\* kmalloc when both pages are had: the block lies in them.
LEMMA HeapAllocate ==
  ASSUME HeapInv, NEW c \in Pointers, NEW n \in 2 .. PageUnits - 1, Heap!Spared(n),
         blocks[c] = NoBlock, Heap!Allocate(c, n)
  PROVE  HeapInv'
<1>1. PICK N : HeapIs(N)
  BY DEF HeapInv
<1>2. /\ mem \in Words /\ Ring(mem.next, mem.prev, N) /\ Sized(mem, N, end + PageUnits)
      /\ end \in Heap!Units /\ end + PageUnits <= Heap!Top
      /\ \E q \in Nat : end = q * PageUnits
      /\ mapped \subseteq 0 .. end + PageUnits - 1
      /\ \A d \in Heap!Live : Whole(d, N)
      /\ \A d, b \in Heap!Live : d # b => Heap!Block(d) \cap Heap!Block(b) = {}
  BY <1>1 DEF HeapIs
<1>3. PICK P \in Nat \ {0}, t \in Nat \ {0}, e \in Nat :
        P = PageUnits /\ t = end + P /\ e = t + 2 * P /\ n < P /\ n \in Nat \ {0, 1}
  <2>1. end + PageUnits \in Nat \ {0} /\ (end + PageUnits) + 2 * PageUnits \in Nat
    BY <1>2, UnitsOf
  <2> QED
    BY <2>1, UnitsOf
<1>4. Heap!PagesFor(n) = 2 /\ Heap!Temp(n) = t
  <2>1. n \in 1 .. PageUnits - 1
    OBVIOUS
  <2>2. Heap!Search(n) = 0 /\ Heap!PagesFor(n) = 2
    BY <2>1, PagesForTwo
  <2> QED
    BY <1>3, <2>2, UnitsOf DEF Heap!Temp
<1>5. PICK m0, m : m0 = Heap!AddPages(mem, 2) /\ m = Heap!Coalesce(m0)
  OBVIOUS
<1>6. PICK b : b = t + m.size[t] - n
  OBVIOUS
<1>7. /\ end + 2 * PageUnits < Heap!Top
      /\ mem' = Heap!Take(m, t, n)
      /\ blocks' = [blocks EXCEPT ![c] = [at |-> b, units |-> n]]
      /\ end' = end + 2 * PageUnits
      /\ mapped' = mapped \cup Heap!NewUnits(2)
  BY <1>4, <1>5, <1>6 DEF Heap!Allocate, Heap!Give, Heap!Grown
<1>8. /\ end \in Nat /\ Heap!Top \in Nat /\ Heap!Units = 0 .. Heap!Top - 1
      /\ end + 2 * PageUnits = t + P /\ t + P < Heap!Top /\ t \in Heap!Units
  BY <1>2, <1>3, <1>7, UnitsOf
<1>9. end' \in Heap!Units /\ end' + PageUnits = e /\ e <= Heap!Top
      /\ \E q \in Nat : end' = q * PageUnits
  <2>1. /\ (end + 2 * PageUnits) + PageUnits <= Heap!Top
        /\ \E r \in Nat : end + 2 * PageUnits = r * PageUnits
    BY <1>2, <1>7, EndRoom
  <2> QED
    BY <1>3, <1>7, <1>8, <2>1
<1>10. PICK N0 : /\ N0 = N \cup {t, t + P}
                 /\ Merging(m0, N0, m0, N0, t, e)
                 /\ \A u \in Heap!Units : u < t => m0.size[u] = mem.size[u]
  <2>1. \E M : /\ M = N \cup {end + i * PageUnits : i \in 1 .. 2}
               /\ Merging(m0, M, m0, M, end + PageUnits, end + (2 + 1) * PageUnits)
               /\ \A u \in Heap!Units : u < end + PageUnits => m0.size[u] = mem.size[u]
    <3>1. end + 2 * PageUnits \in Heap!Units /\ 1 < PageUnits
      BY <1>3, <1>8
    <3>2. 2 \in 0 .. 2
      OBVIOUS
    <3> QED
      BY <1>2, <1>5, <1>8, <3>1, <3>2, PagesAdded
  <2>2. {end + i * PageUnits : i \in 1 .. 2} = {t, t + P}
    <3>1. end + 1 * PageUnits = t
      BY <1>3
    <3>2. 1 .. 2 = {1, 2}
      OBVIOUS
    <3> QED
      BY <1>8, <3>1, <3>2
  <2>3. end + PageUnits = t /\ end + (2 + 1) * PageUnits = e
    <3>1. (2 + 1) * PageUnits = PageUnits + 2 * PageUnits
      BY <1>3
    <3> QED
      BY <1>3, <1>8, <3>1
  <2> QED
    BY <2>1, <2>2, <2>3
<1>11. PICK M : Merging(m, M, m0, N0, t, e) /\ \A x \in M : ~Heap!Touches(m, x)
  BY <1>5, <1>9, <1>10, CoalesceKeeps
<1>12. /\ m \in Words /\ Ring(m.next, m.prev, M) /\ M \subseteq N0 /\ Sized(m, M, e)
       /\ \A u \in Heap!Units \ N0 : m.size[u] = m0.size[u]
  BY <1>11 DEF Merging
<1>13. \A x \in M : x \in Nat /\ x \in Heap!Units /\ (x \in N \/ t <= x)
  <2>1. \A x \in M : x \in Nat /\ x \in Heap!Units
    BY <1>12, RingNumbers
  <2> QED
    BY <1>3, <1>10, <1>12, <2>1
<1>14. \A x \in M : x < t => x \in N /\ x + 1 < t
  <2> SUFFICES ASSUME NEW x \in M, x < t PROVE x \in N /\ x + 1 < t
    OBVIOUS
  <2>1. x \in N /\ x \in Nat /\ x \in Heap!Units
    BY <1>3, <1>13
  <2>2. mem.size \in [Heap!Units -> 0 .. Word - 1]
    BY <1>2 DEF Words
  <2>3. mem.size[x] \in 0 .. Word - 1
    BY <2>1, <2>2
  <2>4. 2 <= mem.size[x] /\ x + mem.size[x] <= t
    BY <1>2, <1>3, <2>1 DEF Sized
  <2> QED
    BY <1>3, <2>1, <2>3, <2>4, UnitsOf
<1>15. /\ n < m.size[t] /\ t + m.size[t] <= e /\ m.size[t] \in 0 .. Word - 1
       /\ t \in M => n + 1 < m.size[t]
       /\ \A x \in M : {x, x + 1} \cap (t + m.size[t] - n .. t + m.size[t] - 1) = {}
  <2>1. e = t + 2 * PageUnits /\ \A x \in M : x < t => x + 1 < t
    BY <1>3, <1>14
  <2> QED
    BY <1>3, <1>8, <1>9, <1>11, <2>1, RoomBehind
<1>16. PICK s \in Nat : /\ s = m.size[t] /\ s < Word /\ n < s /\ t + s <= e /\ b = t + s - n
                        /\ t \in M => n + 1 < s
  BY <1>6, <1>15, UnitsOf
<1>17. b \in Nat \ {0} /\ b \in Heap!Units /\ t < b
  BY <1>3, <1>8, <1>9, <1>16
<1>18. PICK B : /\ B = b .. b + n - 1 /\ B = t + m.size[t] - n .. t + m.size[t] - 1 /\ b \in B
                /\ \A u \in B : u \in Nat /\ t <= u /\ u < e
  <2>1. b .. b + n - 1 = t + m.size[t] - n .. t + m.size[t] - 1
    <3>1. b + n - 1 = t + s - 1
      BY <1>3, <1>16
    <3> QED
      BY <1>6, <1>16, <3>1
  <2>2. b \in b .. b + n - 1 /\ \A u \in b .. b + n - 1 : u \in Nat /\ t <= u /\ u < e
    BY <1>3, <1>16, <1>17
  <2> QED
    BY <2>1, <2>2
<1>19. \A x \in M : {x, x + 1} \cap B = {}
  BY <1>15, <1>18
<1>20. /\ mem' \in Words /\ mem'.next = m.next /\ mem'.prev = m.prev
       /\ mem'.size[b] = n /\ b # t /\ mem'.size[t] = s - n
       /\ \A u \in Heap!Units : u # t /\ u # b => mem'.size[u] = m.size[u]
  <2>1. m.size[t] < Word /\ n < m.size[t] /\ n \in Nat
    BY <1>3, <1>16
  <2>2. PICK w : w = Heap!Take(m, t, n)
    OBVIOUS
  <2>3. /\ w \in Words /\ w.next = m.next /\ w.prev = m.prev
        /\ w.size[b] = n /\ b # t /\ w.size[t] = m.size[t] - n
        /\ \A u \in Heap!Units : u # t /\ u # b => w.size[u] = m.size[u]
    <3>1. m \in Words /\ t \in Heap!Units /\ b = t + m.size[t] - n /\ b \in Heap!Units
      BY <1>6, <1>8, <1>12, <1>17
    <3> QED
      BY <2>1, <2>2, <3>1, TakeIs
  <2> QED
    BY <1>7, <1>16, <2>2, <2>3
<1>21. Ring(mem'.next, mem'.prev, M)
  BY <1>12, <1>20
<1>22. Sized(mem', M, end' + PageUnits)
  <2> SUFFICES ASSUME NEW x \in M
               PROVE  2 <= mem'.size[x] /\ x + mem'.size[x] <= e
    BY <1>9 DEF Sized
  <2>1. 2 <= m.size[x] /\ x + m.size[x] <= e
    BY <1>12 DEF Sized
  <2>2. x # b /\ x \in Heap!Units
    BY <1>13, <1>18, <1>19
  <2>3. CASE x = t
    <3>1. mem'.size[x] = s - n /\ 2 <= s - n /\ t + (s - n) <= e
      BY <1>3, <1>16, <1>20, <2>3
    <3> QED
      BY <2>3, <3>1
  <2>4. CASE x # t
    BY <1>20, <2>1, <2>2, <2>4
  <2> QED
    BY <2>3, <2>4
<1>23. \A u \in Nat : t <= u /\ u < e => u \in Heap!NewUnits(2)
  <2> SUFFICES ASSUME NEW u \in Nat, t <= u, u < e PROVE u \in Heap!NewUnits(2)
    OBVIOUS
  <2>1. end + 1 * PageUnits = t
    BY <1>3
  <2>2. u \in Heap!PageAt(end + 1 * PageUnits) \/ u \in Heap!PageAt(end + 2 * PageUnits)
    BY <1>3, <1>8, <2>1 DEF Heap!PageAt
  <2>3. 1 \in 1 .. 2 /\ 2 \in 1 .. 2
    OBVIOUS
  <2> QED
    BY <2>2, <2>3 DEF Heap!NewUnits
<1>24. mapped' \subseteq 0 .. end' + PageUnits - 1 /\ B \subseteq mapped'
  <2>1. \A u \in Heap!NewUnits(2) : u \in 0 .. e - 1
    <3> SUFFICES ASSUME NEW i \in 1 .. 2, NEW u \in Heap!PageAt(end + i * PageUnits)
                 PROVE  u \in 0 .. e - 1
      BY DEF Heap!NewUnits
    <3>1. end + i * PageUnits = t \/ end + i * PageUnits = t + P
      BY <1>3, <1>8
    <3> QED
      BY <1>3, <3>1 DEF Heap!PageAt
  <2>2. \A u \in mapped : u \in 0 .. e - 1
    BY <1>2, <1>3, <1>8
  <2>3. mapped' \subseteq 0 .. e - 1
    BY <1>7, <2>1, <2>2
  <2>4. B \subseteq mapped'
    BY <1>7, <1>18, <1>23
  <2>5. end' + PageUnits - 1 = e - 1
    BY <1>3, <1>8, <1>9
  <2> QED
    BY <2>3, <2>4, <2>5
<1>25. PICK rec : rec = [at |-> b, units |-> n] /\ rec.at = b /\ rec.units = n
  <2>1. [at |-> b, units |-> n].at = b /\ [at |-> b, units |-> n].units = n
    OBVIOUS
  <2> QED
    BY <2>1
<1>26. /\ blocks' = [p \in Pointers |-> blocks'[p]] /\ blocks'[c] = rec
       /\ \A d \in Heap!Live' : d = c \/ (d \in Heap!Live /\ d # c /\ blocks'[d] = blocks[d])
  <2>1. blocks = [p \in Pointers |-> blocks[p]]
    BY <1>1 DEF HeapIs
  <2> QED
    BY <1>7, <1>25, <2>1 DEF Heap!Live
<1>27. Heap!Block(c)' = B /\ Whole(c, M)'
  <2>1. Heap!Block(c)' = B
    BY <1>18, <1>25, <1>26 DEF Heap!Block
  <2> QED
    BY <1>3, <1>17, <1>19, <1>20, <1>24, <1>25, <1>26, <2>1 DEF Whole
<1>28. ASSUME NEW d \in Heap!Live', d # c
       PROVE  /\ d \in Heap!Live /\ Heap!Block(d)' = Heap!Block(d) /\ Whole(d, M)'
              /\ Heap!Block(d) \cap B = {}
  <2>1. d \in Heap!Live /\ blocks'[d] = blocks[d] /\ Whole(d, N)
    BY <1>2, <1>26, <1>28
  <2>2. Heap!Block(d)' = Heap!Block(d)
    BY <2>1 DEF Heap!Block
  <2>3. /\ blocks[d].at \in Heap!Units /\ blocks[d].at \notin N
        /\ blocks[d].at \in Heap!Block(d)
        /\ \A u \in Heap!Block(d) : u \in Nat /\ u < t
    BY <1>1, <1>3, <2>1, LiveBelow
  <2>4. Heap!Block(d) \cap B = {}
    BY <1>3, <1>18, <2>3
  <2>5. mem'.size[blocks[d].at] = mem.size[blocks[d].at]
    <3>1. blocks[d].at < t /\ blocks[d].at \in Nat
      BY <2>3
    <3>2. blocks[d].at \notin N0 /\ blocks[d].at # t /\ blocks[d].at # b
      BY <1>3, <1>10, <1>17, <2>3, <3>1
    <3> QED
      BY <1>10, <1>12, <1>20, <2>3, <3>1, <3>2
  <2>6. \A x \in M : {x, x + 1} \cap Heap!Block(d) = {}
    <3> SUFFICES ASSUME NEW x \in M PROVE {x, x + 1} \cap Heap!Block(d) = {}
      OBVIOUS
    <3>1. CASE x \in N
      BY <2>1, <3>1 DEF Whole
    <3>2. CASE t <= x
      BY <1>3, <1>13, <2>3, <3>2
    <3> QED
      BY <1>13, <3>1, <3>2
  <2> QED
    BY <1>7, <2>1, <2>2, <2>4, <2>5, <2>6 DEF Whole
<1>29. \A d, g \in Heap!Live' : d # g => (Heap!Block(d) \cap Heap!Block(g))' = {}
  BY <1>2, <1>27, <1>28
<1>30. \A d \in Heap!Live' : Whole(d, M)'
  BY <1>27, <1>28
<1>31. HeapIs(M)'
  <2>1. end' + PageUnits <= Heap!Top
    BY <1>9
  <2> QED
    BY <1>9, <1>20, <1>21, <1>22, <1>24, <1>26, <1>29, <1>30, <2>1 DEF HeapIs
<1> QED
  BY <1>31 DEF HeapInv

\* The blocks of kmalloc never share memory, lie in what is mapped and over no free node's
\* size and links, and the free list stays a ring in the order of addresses (kmalloc.c:55-159),
\* while callers spare the search and ask for less than a page.
THEOREM HeapAlwaysSound ==
  ASSUME Careful = TRUE, Requests \subseteq 1 .. PageUnits - 1
  PROVE  Heap!Spec => [](HeapSound /\ Heap!TypeOK)
<1>1. Heap!Init => HeapInv
  BY HeapInit
<1>2. HeapInv /\ [Heap!Next]_Heap!vars => HeapInv'
  <2> SUFFICES ASSUME HeapInv, [Heap!Next]_Heap!vars PROVE HeapInv'
    OBVIOUS
  <2>1. ASSUME NEW c \in Pointers, Heap!Kfree(c)
        PROVE  HeapInv'
    BY <2>1, HeapKfree
  <2>2. ASSUME NEW c \in Pointers, NEW n \in Requests, Heap!Kmalloc(c, n)
        PROVE  HeapInv'
    <3>1. blocks[c] = NoBlock /\ Heap!Spared(n) /\ (Heap!Allocate(c, n) \/ Heap!NoMorePages(n))
      BY <2>2 DEF Heap!Kmalloc
    <3>2. n \in 2 .. PageUnits - 1 /\ n \in 1 .. PageUnits - 1 /\ 1 < PageUnits
      BY UnitsOf, MemoryAssumption DEF HeapConstants
    <3>3. CASE Heap!Allocate(c, n)
      BY <3>1, <3>2, <3>3, HeapAllocate
    <3>4. CASE Heap!NoMorePages(n)
      BY <3>1, <3>2, <3>4, HeapNoPages
    <3> QED
      BY <3>1, <3>3, <3>4
  <2>3. CASE UNCHANGED Heap!vars
    BY <2>3 DEF Heap!vars, HeapInv, HeapIs, Whole, Heap!Live, Heap!Block
  <2> QED
    BY <2>1, <2>2, <2>3 DEF Heap!Next
<1>3. HeapInv => HeapSound /\ Heap!TypeOK
  BY HeapInvSound DEF HeapSound, HeapBlocksApart
<1> QED
  BY <1>1, <1>2, <1>3, PTL DEF Heap!Spec

\* Types of the page allocator, of the page tables and of the byte allocator, in the
\* regimes of the theorems above (cpage.c, mmu.c, kmalloc.c).
THEOREM MemoryTypes ==
  ASSUME Sizes \subseteq {1, 2}, Careful = TRUE, Requests \subseteq 1 .. PageUnits - 1
  PROVE  Spec /\ Mmus!Spec /\ Heap!Spec => []TypesOK
<1>1. Spec => []TypeOK
  <2>1. Spec => [](TypeOK /\ BlocksMarked /\ Accounted)
    BY BooksThm
  <2> QED
    BY <2>1, PTL
<1>2. Mmus!Spec => []Mmus!TypeOK
  <2>1. MmuTheorems!Spec => [](MmuTheorems!TypeOK /\ MmuTheorems!EveryTableOnce
                               /\ MmuTheorems!WalksOnPath)
    BY MemoryAssumption, MmuTheorems!TablesAlwaysSound
       DEF Mmus!MmuConstants, MmuTheorems!MmuConstants
  <2>2. MmuTheorems!TypeOK => Mmus!TypeOK
    BY SameTables
  <2> QED
    BY <2>1, <2>2, SameMmuSpec, PTL
<1>3. Heap!Spec => [](HeapSound /\ Heap!TypeOK)
  BY HeapAlwaysSound
<1>4. TypeOK /\ Mmus!TypeOK /\ Heap!TypeOK => TypesOK
  BY DEF TypesOK
<1> QED
  BY <1>1, <1>2, <1>3, <1>4, PTL
=============================================================================
