--------------------------- MODULE LibraryProofs ---------------------------
(***************************************************************************)
(* Proofs about the page list, the semaphore and the barrier, the helpers  *)
(* for strings and memory, the command lines, and the association list,    *)
(* which implements a dictionary.  They hold for every number of pages,    *)
(* harts, units, processes, keys and values, for strings and memories of   *)
(* every length, and for every width of an int and of a long.              *)
(***************************************************************************)
EXTENDS Library, Functions, FiniteSetTheorems, SequenceTheorems, WellFoundedInduction, TLAPS

\* Where a hart is inside the lock.
Inside == {"alloc_read", "alloc_shift", "free_link", "free_head", "hung"}

LockHeldInside ==
  \A h \in Harts :
    /\ pc[h] \in Inside => lock = h
    /\ pc[h] = "alloc_shift" => page[h] = head
    /\ pc[h] \in {"free_link", "free_head"} => page[h] \in Pages
    /\ pc[h] = "free_head" => next[page[h]] = head

PcOK == pc \in [Harts -> {"idle", "alloc_lock"} \cup Inside]

\* What nobody has.
Unowned == Pages \ (Held \cup InHand)

\* The free list: from first on, the links lead through all of the set, through each page
\* once, to Null.
Links(n, s, set, first, link) ==
  /\ \A p \in set : \E i \in 1 .. n : s[i] = p
  /\ \A i, j \in 1 .. n : s[i] = s[j] => i = j
  /\ first = IF n = 0 THEN Null ELSE s[1]
  /\ \A i \in 1 .. n : link[s[i]] = IF i = n THEN Null ELSE s[i + 1]

ChainOf(set, first, link) == \E n \in Nat : \E s \in [1 .. n -> set] : Links(n, s, set, first, link)

\* The free list holds the pages that nobody has.
ChainInside == ChainOf(Unowned, head, next)

NcPageInv ==
  /\ TypeOK /\ PcOK
  /\ LockHeldInside
  /\ OwnersApart
  /\ Held \cap InHand = {}
  /\ ChainInside

----------------------------------------------------------------------------
(* Chains *)

LEMMA ChainFirst ==
  ASSUME NEW set, NEW first, NEW link, ChainOf(set, first, link)
  PROVE  first \in set \cup {Null}
<1>0. PICK n \in Nat : \E s \in [1 .. n -> set] : Links(n, s, set, first, link)
  BY DEF ChainOf
<1>1. PICK s \in [1 .. n -> set] : Links(n, s, set, first, link)
  BY <1>0
<1>2. CASE n = 0
  BY <1>1, <1>2 DEF Links
<1>3. CASE n # 0
  <2>1. 1 \in 1 .. n
    BY <1>3
  <2> QED
    BY <1>1, <1>3, <2>1 DEF Links
<1> QED
  BY <1>2, <1>3

\* The first page leaves the chain ...
LEMMA ChainDrop ==
  ASSUME NEW set, NEW first, NEW link, ChainOf(set, first, link), first # Null
  PROVE  ChainOf(set \ {first}, link[first], link)
<1>0. PICK n \in Nat : \E s \in [1 .. n -> set] : Links(n, s, set, first, link)
  BY DEF ChainOf
<1>1. PICK s \in [1 .. n -> set] : Links(n, s, set, first, link)
  BY <1>0
<1>2. n # 0 /\ first = s[1] /\ 1 \in 1 .. n
  BY <1>1 DEF Links
<1>3. PICK m \in Nat : m = n - 1
  BY <1>2
<1> DEFINE t == [i \in 1 .. m |-> s[i + 1]]
<1>4. ASSUME NEW i \in 1 .. m
      PROVE  i + 1 \in 1 .. n /\ t[i] = s[i + 1] /\ s[i + 1] \in set \ {first}
  <2>1. i + 1 \in 1 .. n /\ i + 1 # 1
    BY <1>3
  <2> QED
    BY <1>1, <1>2, <2>1 DEF Links
<1>5. t \in [1 .. m -> set \ {first}]
  BY <1>4
<1>6. ASSUME NEW p \in set \ {first}
      PROVE  \E i \in 1 .. m : t[i] = p
  <2>1. PICK j \in 1 .. n : s[j] = p
    BY <1>1 DEF Links
  <2>2. PICK i \in 1 .. m : j = i + 1
    <3>1. j - 1 \in 1 .. m /\ j = (j - 1) + 1
      BY <1>2, <1>3, <2>1
    <3> QED
      BY <3>1
  <2> QED
    BY <1>4, <2>1, <2>2
<1>7. ASSUME NEW i \in 1 .. m, NEW j \in 1 .. m, t[i] = t[j]
      PROVE  i = j
  <2>1. i + 1 = j + 1
    BY <1>1, <1>4, <1>7 DEF Links
  <2> QED
    BY <2>1
<1>8. link[first] = IF m = 0 THEN Null ELSE t[1]
  <2>1. link[first] = IF 1 = n THEN Null ELSE s[1 + 1]
    BY <1>1, <1>2 DEF Links
  <2>2. CASE m = 0
    BY <1>3, <2>1, <2>2
  <2>3. CASE m # 0
    <3>1. 1 \in 1 .. m /\ n # 1
      BY <1>3, <2>3
    <3> QED
      BY <1>4, <2>1, <2>3, <3>1
  <2> QED
    BY <2>2, <2>3
<1>9. ASSUME NEW i \in 1 .. m
      PROVE  link[t[i]] = IF i = m THEN Null ELSE t[i + 1]
  <2>1. link[s[i + 1]] = IF i + 1 = n THEN Null ELSE s[i + 1 + 1]
    BY <1>1, <1>4 DEF Links
  <2>2. CASE i = m
    BY <1>3, <1>4, <2>1, <2>2
  <2>3. CASE i # m
    <3>1. i + 1 \in 1 .. m /\ i + 1 # n
      BY <1>3, <2>3
    <3>2. t[i + 1] = s[i + 1 + 1]
      BY <3>1
    <3> QED
      BY <1>4, <2>1, <2>3, <3>1, <3>2
  <2> QED
    BY <2>2, <2>3
<1> HIDE DEF t
<1>10. Links(m, t, set \ {first}, link[first], link)
  BY <1>6, <1>7, <1>8, <1>9 DEF Links
<1> QED
  BY <1>5, <1>10 DEF ChainOf

\* ... and another one comes before it.
LEMMA ChainPush ==
  ASSUME NEW set, NEW first, NEW link, ChainOf(set, first, link),
         NEW p, p \notin set, p # Null, link[p] = first
  PROVE  ChainOf(set \cup {p}, p, link)
<1>0. PICK n \in Nat : \E s \in [1 .. n -> set] : Links(n, s, set, first, link)
  BY DEF ChainOf
<1>1. PICK s \in [1 .. n -> set] : Links(n, s, set, first, link)
  BY <1>0
<1>2. PICK m \in Nat : m = n + 1
  OBVIOUS
<1> DEFINE t == [i \in 1 .. m |-> IF i = 1 THEN p ELSE s[i - 1]]
<1>3. ASSUME NEW i \in 1 .. m, i # 1
      PROVE  i - 1 \in 1 .. n /\ t[i] = s[i - 1] /\ t[i] \in set /\ t[i] # p
  <2>1. i - 1 \in 1 .. n
    BY <1>2, <1>3
  <2> QED
    BY <1>3, <2>1
<1>4. 1 \in 1 .. m /\ t[1] = p
  BY <1>2
<1>5. t \in [1 .. m -> set \cup {p}]
  BY <1>3, <1>4
<1>6. ASSUME NEW q \in set \cup {p}
      PROVE  \E i \in 1 .. m : t[i] = q
  <2>1. CASE q = p
    BY <1>4, <2>1
  <2>2. CASE q \in set
    <3>1. PICK j \in 1 .. n : s[j] = q
      BY <1>1, <2>2 DEF Links
    <3>2. PICK i \in 1 .. m : i = j + 1
      BY <1>2
    <3>3. i # 1 /\ i - 1 = j
      BY <3>2
    <3> QED
      BY <1>3, <3>1, <3>3
  <2> QED
    BY <2>1, <2>2
<1>7. ASSUME NEW i \in 1 .. m, NEW j \in 1 .. m, t[i] = t[j]
      PROVE  i = j
  <2>1. CASE i = 1 \/ j = 1
    BY <1>3, <1>4, <1>7, <2>1
  <2>2. CASE i # 1 /\ j # 1
    <3>1. i - 1 = j - 1
      BY <1>1, <1>3, <1>7, <2>2 DEF Links
    <3> QED
      BY <3>1
  <2> QED
    BY <2>1, <2>2
<1>8. ASSUME NEW i \in 1 .. m
      PROVE  link[t[i]] = IF i = m THEN Null ELSE t[i + 1]
  <2>1. CASE i = 1
    <3>1. link[t[i]] = first
      BY <1>4, <2>1
    <3>2. CASE n = 0
      BY <1>1, <1>2, <2>1, <3>1, <3>2 DEF Links
    <3>3. CASE n # 0
      <4>1. first = s[1]
        BY <1>1, <3>3 DEF Links
      <4>2. 2 \in 1 .. m /\ 2 # 1 /\ i # m /\ i + 1 = 2 /\ 2 - 1 = 1
        BY <1>2, <2>1, <3>3
      <4>3. t[2] = s[1]
        BY <1>3, <4>2
      <4> QED
        BY <3>1, <4>1, <4>2, <4>3
    <3> QED
      BY <3>2, <3>3
  <2>2. CASE i # 1
    <3>1. PICK k \in 1 .. n : k = i - 1 /\ t[i] = s[k]
      BY <1>3, <2>2
    <3>2. link[s[k]] = IF k = n THEN Null ELSE s[k + 1]
      BY <1>1 DEF Links
    <3>3. (k = n <=> i = m) /\ k + 1 = i
      BY <1>2, <3>1
    <3>4. i # m => i + 1 \in 1 .. m /\ i + 1 # 1 /\ (i + 1) - 1 = i
      BY <1>2
    <3>5. i # m => t[i + 1] = s[i]
      BY <1>3, <3>4
    <3> QED
      BY <3>1, <3>2, <3>3, <3>5
  <2> QED
    BY <2>1, <2>2
<1>9. m # 0
  BY <1>2
<1> HIDE DEF t
<1>10. Links(m, t, set \cup {p}, p, link)
  BY <1>4, <1>6, <1>7, <1>8, <1>9 DEF Links
<1> QED
  BY <1>5, <1>10 DEF ChainOf

\* Only the links of its pages matter.
LEMMA ChainSame ==
  ASSUME NEW set, NEW first, NEW link, ChainOf(set, first, link),
         NEW other, \A p \in set : other[p] = link[p]
  PROVE  ChainOf(set, first, other)
<1>0. PICK n \in Nat : \E s \in [1 .. n -> set] : Links(n, s, set, first, link)
  BY DEF ChainOf
<1>1. PICK s \in [1 .. n -> set] : Links(n, s, set, first, link)
  BY <1>0
<1>2. \A i \in 1 .. n : other[s[i]] = link[s[i]]
  OBVIOUS
<1>3. Links(n, s, set, first, other)
  BY <1>1, <1>2 DEF Links
<1> QED
  BY <1>3 DEF ChainOf

----------------------------------------------------------------------------
(* The page list *)

LEMMA InitNcPageInv == Init => NcPageInv
<1> SUFFICES ASSUME Init PROVE NcPageInv
  OBVIOUS
<1> USE LibraryAssumption DEF Init
<1>1. TypeOK /\ PcOK /\ LockHeldInside /\ OwnersApart
  BY DEF TypeOK, PcOK, LockHeldInside, OwnersApart, Inside, Pages
<1>2. Held = {} /\ InHand = {} /\ Unowned = Pages
  BY DEF Held, InHand, Unowned
<1>3. ChainInside
  <2>1. PICK s \in [1 .. NumPages -> Pages] : s = [i \in 1 .. NumPages |-> i - 1]
    <3>1. \A i \in 1 .. NumPages : i - 1 \in Pages
      BY DEF Pages
    <3> QED
      BY <3>1
  <2>2. Links(NumPages, s, Pages, head, next)
    <3>1. \A p \in Pages : p + 1 \in 1 .. NumPages /\ s[p + 1] = p
      BY <2>1 DEF Pages
    <3>2. \A i \in 1 .. NumPages : s[i] = i - 1 /\ i - 1 \in Pages
      BY <2>1 DEF Pages
    <3>3. \A i, j \in 1 .. NumPages : s[i] = s[j] => i = j
      BY <3>2
    <3>4. head = IF NumPages = 0 THEN Null ELSE s[1]
      BY <3>2
    <3>5. ASSUME NEW i \in 1 .. NumPages
          PROVE  next[s[i]] = IF i = NumPages THEN Null ELSE s[i + 1]
      <4>1. next[s[i]] = IF i - 1 = NumPages - 1 THEN Null ELSE (i - 1) + 1
        BY <3>2
      <4>2. i # NumPages => i + 1 \in 1 .. NumPages /\ s[i + 1] = i
        BY <3>2
      <4> QED
        BY <4>1, <4>2
    <3> QED
      BY <3>1, <3>3, <3>4, <3>5 DEF Links
  <2> QED
    BY <1>2, <2>1, <2>2 DEF ChainInside, ChainOf
<1> QED
  BY <1>1, <1>2, <1>3 DEF NcPageInv

\* A step that changes neither the list nor who has what.
LEMMA QuietStep ==
  ASSUME NcPageInv, UNCHANGED <<head, next, owned>>, InHand' = InHand
  PROVE  OwnersApart' /\ (Held \cap InHand = {})' /\ ChainInside'
BY DEF NcPageInv, OwnersApart, Held, ChainInside, Unowned

LEMMA AllocTestInv ==
  ASSUME NcPageInv, NEW h \in Harts, AllocTest(h)
  PROVE  NcPageInv'
<1> USE DEF NcPageInv, AllocTest, Goto, TypeOK, PcOK, Inside
<1>1. TypeOK' /\ PcOK' /\ LockHeldInside'
  BY DEF LockHeldInside
<1>2. InHand' = InHand
  BY DEF InHand
<1> QED
  BY <1>1, <1>2, QuietStep

LEMMA AllocLockInv ==
  ASSUME NcPageInv, NEW h \in Harts, AllocLock(h)
  PROVE  NcPageInv'
<1> USE DEF NcPageInv, AllocLock, Lock, Goto, TypeOK, PcOK, Inside
<1>1. TypeOK' /\ PcOK' /\ LockHeldInside'
  BY LibraryAssumption DEF LockHeldInside
<1>2. InHand' = InHand
  BY DEF InHand
<1> QED
  BY <1>1, <1>2, QuietStep

LEMMA AllocReadInv ==
  ASSUME NcPageInv, NEW h \in Harts, AllocRead(h)
  PROVE  NcPageInv'
<1> USE DEF NcPageInv, AllocRead, Goto, TypeOK, PcOK, Inside
<1>1. TypeOK' /\ PcOK' /\ LockHeldInside'
  BY DEF LockHeldInside
<1>2. InHand' = InHand
  BY DEF InHand
<1> QED
  BY <1>1, <1>2, QuietStep

LEMMA AllocShiftInv ==
  ASSUME NcPageInv, NEW h \in Harts, AllocShift(h)
  PROVE  NcPageInv'
<1> USE DEF NcPageInv, AllocShift, Unlock, Goto, TypeOK, PcOK, Inside
<1>1. CASE head = Null
  <2>1. TypeOK' /\ PcOK' /\ LockHeldInside'
    BY <1>1 DEF LockHeldInside
  <2>2. InHand' = InHand
    BY <1>1 DEF InHand
  <2> QED
    BY <1>1, <2>1, <2>2, QuietStep
<1>2. CASE head # Null
  <2>1. pc[h] = "alloc_shift" /\ page[h] = head /\ head \in Pages /\ head \in Unowned
    <3>1. pc[h] = "alloc_shift"
      OBVIOUS
    <3>2. page[h] = head
      BY <3>1 DEF LockHeldInside
    <3>3. head \in Unowned
      BY <1>2, ChainFirst DEF ChainInside
    <3> QED
      BY <1>2, <3>1, <3>2, <3>3
  <2>2. TypeOK' /\ PcOK'
    BY <1>2, <2>1
  <2>3. \A g \in Harts \ {h} : pc[g] \notin Inside
    BY <2>1 DEF LockHeldInside
  <2>4. LockHeldInside'
    BY <1>2, <2>3 DEF LockHeldInside
  <2>5. InHand' = InHand
    BY <1>2 DEF InHand
  <2>6. \A g \in Harts : owned'[g] = IF g = h THEN owned[g] \cup {head} ELSE owned[g]
    BY <1>2, <2>1
  <2>7. Held' = Held \cup {head}
    <3> HIDE DEF NcPageInv, AllocShift, TypeOK, PcOK
    <3>1. \A p : p \in Held' <=> \E g \in Harts : p \in owned'[g]
      BY DEF Held
    <3>2. \A p : p \in Held <=> \E g \in Harts : p \in owned[g]
      BY DEF Held
    <3>3. /\ head \in owned'[h]
          /\ \A g \in Harts : \A p : p \in owned'[g] => p \in owned[g] \/ p = head
          /\ \A g \in Harts : \A p : p \in owned[g] => p \in owned'[g]
      BY <2>6
    <3>4. \A p : p \in Held' <=> p \in Held \/ p = head
      BY <3>1, <3>2, <3>3
    <3> QED
      BY <3>4
  <2>8. OwnersApart'
    BY <2>1, <2>6 DEF OwnersApart, Unowned, Held
  <2>9. Held' \cap InHand' = {}
    BY <2>1, <2>5, <2>7 DEF Unowned
  <2>10. Unowned' = Unowned \ {head} /\ next' = next /\ head' = next[head]
    BY <1>2, <2>5, <2>7 DEF Unowned
  <2>11. ChainInside'
    BY <1>2, <2>10, ChainDrop DEF ChainInside
  <2> QED
    BY <2>2, <2>4, <2>8, <2>9, <2>11
<1> QED
  BY <1>1, <1>2

LEMMA FreeLockInv ==
  ASSUME NcPageInv, NEW h \in Harts, NEW p \in Pages, FreeLock(h, p)
  PROVE  NcPageInv'
<1> USE DEF NcPageInv, FreeLock, Lock, Goto, TypeOK, PcOK, Inside
<1>1. TypeOK' /\ PcOK' /\ LockHeldInside'
  BY LibraryAssumption DEF LockHeldInside
<1>2. \A g \in Harts : pc[g] \notin {"free_link", "free_head"}
  BY LibraryAssumption DEF LockHeldInside
<1>3. InHand = {} /\ InHand' = {p}
  BY <1>2 DEF InHand
<1>4. \A g \in Harts : owned'[g] = IF g = h THEN owned[g] \ {p} ELSE owned[g]
  OBVIOUS
<1>5. \A g \in Harts \ {h} : p \notin owned[g]
  BY DEF OwnersApart
<1>6. Held' = Held \ {p} /\ p \in Held
  BY <1>4, <1>5 DEF Held
<1>7. OwnersApart'
  BY <1>4 DEF OwnersApart
<1>8. Unowned' = Unowned
  BY <1>3, <1>6 DEF Unowned
<1>9. ChainInside'
  BY <1>8 DEF ChainInside
<1> QED
  BY <1>1, <1>3, <1>6, <1>7, <1>9

LEMMA FreeLinkInv ==
  ASSUME NcPageInv, NEW h \in Harts, FreeLink(h)
  PROVE  NcPageInv'
<1> USE DEF NcPageInv, FreeLink, Goto, TypeOK, PcOK, Inside
<1>1. page[h] \in Pages /\ page[h] \in InHand
  BY DEF LockHeldInside, InHand
<1>2. TypeOK' /\ PcOK'
  BY <1>1
<1>3. LockHeldInside'
  BY <1>1 DEF LockHeldInside
<1>4. InHand' = InHand /\ Held' = Held
  BY DEF InHand, Held
<1>5. OwnersApart'
  BY DEF OwnersApart
<1>6. Unowned' = Unowned /\ \A q \in Unowned : next'[q] = next[q]
  BY <1>1, <1>4 DEF Unowned
<1>7. ChainInside'
  BY <1>6, ChainSame DEF ChainInside
<1> QED
  BY <1>2, <1>3, <1>4, <1>5, <1>7

LEMMA FreeHeadInv ==
  ASSUME NcPageInv, NEW h \in Harts, FreeHead(h)
  PROVE  NcPageInv'
<1> USE DEF NcPageInv, FreeHead, Unlock, Goto, TypeOK, PcOK, Inside
<1>1. PICK p \in Pages : p = page[h] /\ next[p] = head
  BY DEF LockHeldInside
<1>2. TypeOK' /\ PcOK'
  BY <1>1
<1>3. \A g \in Harts \ {h} : pc[g] \notin Inside
  BY DEF LockHeldInside
<1>4. LockHeldInside'
  BY <1>3 DEF LockHeldInside
<1>5. InHand = {p} /\ InHand' = {} /\ Held' = Held
  BY <1>1, <1>3 DEF InHand, Held
<1>6. OwnersApart'
  BY DEF OwnersApart
<1>7. Unowned' = Unowned \cup {p} /\ p \notin Unowned /\ head' = p /\ next' = next
  BY <1>1, <1>5 DEF Unowned
<1>8. ChainInside'
  <2>1. p # Null
    BY LibraryAssumption
  <2> QED
    BY <1>1, <1>7, <2>1, ChainPush DEF ChainInside
<1> QED
  BY <1>2, <1>4, <1>5, <1>6, <1>8

LEMMA NextNcPageInv == NcPageInv /\ [Next]_vars => NcPageInv'
<1> SUFFICES ASSUME NcPageInv, [Next]_vars PROVE NcPageInv'
  OBVIOUS
<1>1. ASSUME NEW h \in Harts, Alloc(h)
      PROVE  NcPageInv'
  BY <1>1, AllocTestInv, AllocLockInv, AllocReadInv, AllocShiftInv DEF Alloc
<1>2. ASSUME NEW h \in Harts, Free(h)
      PROVE  NcPageInv'
  BY <1>2, FreeLockInv, FreeLinkInv, FreeHeadInv DEF Free
<1>3. CASE UNCHANGED vars
  BY <1>3, QuietStep DEF vars, NcPageInv, TypeOK, PcOK, LockHeldInside, InHand
<1> QED
  BY <1>1, <1>2, <1>3 DEF Next

LEMMA Least ==
  ASSUME NEW S \in SUBSET Nat, S # {}
  PROVE  \E m \in S : \A k \in S : m <= k
<1>1. IsWellFoundedOn(OpToRel(<, Nat), Nat)
  BY NatLessThanWellFounded
<1>2. PICK m \in S : \A k \in S : <<k, m>> \notin OpToRel(<, Nat)
  BY <1>1, WFMin
<1>3. \A k \in S : ~(k < m)
  BY <1>2 DEF OpToRel
<1>4. \A k \in S : m <= k
  BY <1>3
<1> QED
  BY <1>4

LEMMA PagesCount == IsFiniteSet(Pages) /\ Cardinality(Pages) = NumPages
<1>1. 0 \in Int /\ NumPages - 1 \in Int /\ ~(0 > NumPages - 1)
      /\ NumPages - 1 - 0 + 1 = NumPages
  BY LibraryAssumption
<1> QED
  BY <1>1, FS_Interval DEF Pages

\* The walk of OnList finds the chain: after k links it has seen the first k + 1 pages.
LEMMA WalkFindsChain ==
  ASSUME ChainInside
  PROVE  OnList = Unowned
<1> DEFINE K == Cardinality(Pages)
           reach[n \in 0 .. K] ==
             IF n = 0 THEN {head} \ {Null}
             ELSE reach[n - 1] \cup ({next[p] : p \in reach[n - 1]} \ {Null})
<1>1. OnList = reach[K]
  BY DEF OnList
<1>2. reach = CHOOSE f : f = [n \in 0 .. K |->
                 IF n = 0 THEN {head} \ {Null}
                 ELSE f[n - 1] \cup ({next[p] : p \in f[n - 1]} \ {Null})]
  OBVIOUS
<1> HIDE DEF reach
<1>3. K = NumPages /\ IsFiniteSet(Pages)
  BY PagesCount
<1> HIDE DEF K
<1>4. K \in Nat \ {0} /\ Null \notin Pages
  BY <1>3, LibraryAssumption
<1>5. PICK n \in Nat : \E s \in [1 .. n -> Unowned] : Links(n, s, Unowned, head, next)
  BY DEF ChainInside, ChainOf
<1>6. PICK s \in [1 .. n -> Unowned] : Links(n, s, Unowned, head, next)
  BY <1>5
<1>7. n <= K
  <2>1. s \in Injection(1 .. n, Pages)
    <3>1. s \in [1 .. n -> Pages]
      BY DEF Unowned
    <3>2. \A i, j \in 1 .. n : s[i] = s[j] => i = j
      BY <1>6 DEF Links
    <3> QED
      BY <3>1, <3>2 DEF Injection, IsInjective
  <2>2. Cardinality(1 .. n) <= Cardinality(Pages)
    BY <1>3, <2>1, FS_Injection
  <2>3. Cardinality(1 .. n) = n
    <3>1. 1 \in Int /\ n \in Int /\ (1 > n => n = 0) /\ n - 1 + 1 = n
      OBVIOUS
    <3> QED
      BY <3>1, FS_Interval
  <2> QED
    BY <2>2, <2>3 DEF K
<1> DEFINE Seen(k) == {s[i] : i \in {j \in 1 .. n : j <= k + 1}}
<1>8. Seen(0) = {head} \ {Null}
  <2>1. CASE n = 0
    BY <1>6, <2>1 DEF Links
  <2>2. CASE n # 0
    <3>1. {j \in 1 .. n : j <= 0 + 1} = {1} /\ 1 \in 1 .. n
      BY <2>2
    <3>2. head = s[1] /\ s[1] # Null
      BY <1>4, <1>6, <2>2, <3>1 DEF Links, Unowned
    <3> QED
      BY <3>1, <3>2
  <2> QED
    BY <2>1, <2>2
<1>9. ASSUME NEW k \in Nat, k # 0
      PROVE  Seen(k) = Seen(k - 1) \cup ({next[p] : p \in Seen(k - 1)} \ {Null})
  <2>1. ASSUME NEW q \in Seen(k)
        PROVE  q \in Seen(k - 1) \cup ({next[p] : p \in Seen(k - 1)} \ {Null})
    <3>1. PICK i \in 1 .. n : i <= k + 1 /\ q = s[i]
      OBVIOUS
    <3>2. CASE i <= k
      BY <1>9, <3>1, <3>2
    <3>3. CASE i = k + 1
      <4>1. PICK j \in 1 .. n : j = i - 1 /\ j <= (k - 1) + 1
        BY <1>9, <3>1, <3>3
      <4>2. next[s[j]] = s[i]
        <5>1. j # n /\ j + 1 = i
          BY <4>1
        <5> QED
          BY <1>6, <5>1 DEF Links
      <4>3. s[i] # Null
        BY <1>4 DEF Unowned
      <4>4. s[j] \in Seen(k - 1)
        BY <4>1
      <4> QED
        BY <3>1, <4>2, <4>3, <4>4
    <3> QED
      BY <3>1, <3>2, <3>3
  <2>2. ASSUME NEW q \in Seen(k - 1)
        PROVE  q \in Seen(k)
    <3>1. PICK i \in 1 .. n : i <= (k - 1) + 1 /\ q = s[i]
      OBVIOUS
    <3>2. i <= k + 1
      BY <3>1
    <3> QED
      BY <3>1, <3>2
  <2>3. ASSUME NEW q \in {next[p] : p \in Seen(k - 1)} \ {Null}
        PROVE  q \in Seen(k)
    <3>1. PICK i \in 1 .. n : i <= (k - 1) + 1 /\ q = next[s[i]] /\ q # Null
      OBVIOUS
    <3>2. i # n /\ q = s[i + 1]
      BY <1>6, <3>1 DEF Links
    <3>3. i + 1 \in 1 .. n /\ i + 1 <= k + 1
      BY <3>1, <3>2
    <3> QED
      BY <3>2, <3>3
  <2> HIDE DEF Seen
  <2> QED
    BY <2>1, <2>2, <2>3
<1>10. Seen(K) = Unowned
  <2>1. \A p \in Unowned : \E i \in 1 .. n : s[i] = p
    BY <1>6 DEF Links
  <2>2. {j \in 1 .. n : j <= K + 1} = 1 .. n
    BY <1>4, <1>7
  <2> QED
    BY <2>1, <2>2
<1> DEFINE r == [k \in 0 .. K |-> Seen(k)]
<1> HIDE DEF Seen
<1>11. r = [k \in 0 .. K |->
              IF k = 0 THEN {head} \ {Null}
              ELSE r[k - 1] \cup ({next[p] : p \in r[k - 1]} \ {Null})]
  <2>1. ASSUME NEW k \in 0 .. K
        PROVE  r[k] = IF k = 0 THEN {head} \ {Null}
                      ELSE r[k - 1] \cup ({next[p] : p \in r[k - 1]} \ {Null})
    <3>1. CASE k = 0
      BY <1>8, <3>1
    <3>2. CASE k # 0
      <4>1. k - 1 \in 0 .. K /\ k \in Nat
        BY <1>4, <3>2
      <4>2. r[k] = Seen(k) /\ r[k - 1] = Seen(k - 1)
        BY <4>1
      <4> QED
        BY <1>9, <3>2, <4>1, <4>2
    <3> QED
      BY <3>1, <3>2
  <2> QED
    BY <2>1
<1>12. reach = [k \in 0 .. K |->
                  IF k = 0 THEN {head} \ {Null}
                  ELSE reach[k - 1] \cup ({next[p] : p \in reach[k - 1]} \ {Null})]
  <2> HIDE DEF r
  <2> QED
    BY <1>2, <1>11, Zenon
<1>13. \A k \in 0 .. K : reach[k] = Seen(k)
  <2>1. SUFFICES ASSUME NEW k \in 0 .. K, reach[k] # Seen(k)
                 PROVE  FALSE
    OBVIOUS
  <2> DEFINE Wrong == {j \in 0 .. K : reach[j] # Seen(j)}
  <2>2. Wrong \in SUBSET Nat /\ Wrong # {}
    BY <1>4, <2>1
  <2>3. PICK m \in Wrong : \A j \in Wrong : m <= j
    BY <2>2, Least
  <2>4. CASE m = 0
    BY <1>8, <1>12, <2>3, <2>4
  <2>5. CASE m # 0
    <3>1. m \in Nat /\ m - 1 \in 0 .. K /\ ~(m <= m - 1)
      BY <1>4, <2>3, <2>5
    <3>2. reach[m - 1] = Seen(m - 1)
      BY <2>3, <3>1
    <3>3. reach[m] = reach[m - 1] \cup ({next[p] : p \in reach[m - 1]} \ {Null})
      BY <1>12, <2>5
    <3>4. reach[m] = Seen(m)
      BY <1>9, <2>5, <3>1, <3>2, <3>3
    <3> QED
      BY <3>4
  <2> QED
    BY <2>4, <2>5
<1>14. reach[K] = Seen(K)
  BY <1>4, <1>13
<1> QED
  BY <1>1, <1>10, <1>14

\* Every page is free, in one hand, or one hart's, however many harts allocate and free at
\* once: none gets two owners and none is lost (ncpage.c:33-66).
THEOREM PagesAlwaysOnce == Spec => [](TypeOK /\ EachPageOnce)
<1>1. NcPageInv => TypeOK /\ EachPageOnce
  <2>1. SUFFICES ASSUME NcPageInv PROVE TypeOK /\ EachPageOnce
    OBVIOUS
  <2>2. TypeOK /\ OwnersApart /\ OnList = Unowned
    BY <2>1, WalkFindsChain DEF NcPageInv
  <2>3. Held \subseteq Pages /\ InHand \subseteq Pages
    <3>1. \A h \in Harts : owned[h] \subseteq Pages
      BY <2>2 DEF TypeOK
    <3>2. \A h \in Harts : pc[h] \in {"free_link", "free_head"} => page[h] \in Pages
      BY <2>1 DEF NcPageInv, LockHeldInside
    <3> QED
      BY <3>1, <3>2 DEF Held, InHand
  <2> QED
    BY <2>2, <2>3 DEF EachPageOnce, Unowned
<1> QED
  BY <1>1, InitNcPageInv, NextNcPageInv, PTL DEF Spec

----------------------------------------------------------------------------
(* The semaphore *)

\* The counters of UnitsConserved, with the types that make them numbers.
SemaphoreInv ==
  /\ units \in Int /\ spc \in [Procs -> {"idle", "undo", "down"}]
  /\ Cardinality(Semaphores!At("down")) <= Initial
  /\ units = Initial - Cardinality(Semaphores!At("down")) - Cardinality(Semaphores!At("undo"))

LEMMA UnitsMeans == SemaphoreInv => Semaphores!UnitsConserved
<1>1. \A S : Semaphores!Cardinality(S) = Cardinality(S)
  BY DEF Cardinality, Semaphores!Cardinality
<1> QED
  BY <1>1 DEF SemaphoreInv, Semaphores!UnitsConserved

\* One process more, or one less, at a place.
LEMMA CountAt ==
  ASSUME spc \in [Procs -> {"idle", "undo", "down"}],
         NEW p \in Procs, NEW from, NEW to \in {"idle", "undo", "down"},
         Semaphores!Goto(p, from, to), from # to,
         NEW l \in {"idle", "undo", "down"}
  PROVE  /\ Cardinality(Semaphores!At(l)) \in Nat
         /\ Cardinality(Semaphores!At(l))' = IF l = from THEN Cardinality(Semaphores!At(l)) - 1
                                  ELSE IF l = to THEN Cardinality(Semaphores!At(l)) + 1
                                  ELSE Cardinality(Semaphores!At(l))
<1> USE DEF Semaphores!At, Semaphores!Goto
<1>1. IsFiniteSet(Semaphores!At(l)) /\ Cardinality(Semaphores!At(l)) \in Nat
  BY FS_Subset, FS_CardinalityType, LibraryAssumption
<1>2. CASE l = from
  <2>1. p \in Semaphores!At(l) /\ Semaphores!At(l)' = Semaphores!At(l) \ {p}
    BY <1>2
  <2> QED
    BY <1>1, <1>2, <2>1, FS_RemoveElement
<1>3. CASE l = to
  <2>1. p \notin Semaphores!At(l) /\ Semaphores!At(l)' = Semaphores!At(l) \cup {p}
    BY <1>3
  <2> QED
    BY <1>1, <1>3, <2>1, FS_AddElement
<1>4. CASE l # from /\ l # to
  BY <1>1, <1>4
<1> QED
  BY <1>2, <1>3, <1>4

LEMMA InitSemaphoreInv ==
  Semaphores!Init => SemaphoreInv
<1> SUFFICES ASSUME Semaphores!Init PROVE SemaphoreInv
  OBVIOUS
<1>1. Semaphores!At("down") = {} /\ Semaphores!At("undo") = {}
  BY DEF Semaphores!Init, Semaphores!At
<1> QED
  BY <1>1, FS_EmptySet, LibraryAssumption DEF Semaphores!Init, SemaphoreInv

LEMMA NextSemaphoreInv ==
  SemaphoreInv /\ [Semaphores!Next]_(Semaphores!vars) => SemaphoreInv'
<1> SUFFICES ASSUME SemaphoreInv, [Semaphores!Next]_(Semaphores!vars) PROVE SemaphoreInv'
  OBVIOUS
<1> DEFINE down == Cardinality(Semaphores!At("down"))
           undo == Cardinality(Semaphores!At("undo"))
<1> USE LibraryAssumption DEF SemaphoreInv
<1>1. ASSUME NEW p \in Procs, Semaphores!TryDown(p)
      PROVE  SemaphoreInv'
  <2>1. CASE Semaphores!TakesUnit(units)
    <3>1. Semaphores!Goto(p, "idle", "down") /\ units' = units - 1 /\ units > 0
      BY <1>1, <2>1 DEF Semaphores!TryDown, Semaphores!TakesUnit, Semaphores!Add
    <3>2. down \in Nat /\ undo \in Nat /\ down' = down + 1 /\ undo' = undo
      BY <3>1, CountAt
    <3>3. spc' \in [Procs -> {"idle", "undo", "down"}]
      BY <3>1 DEF Semaphores!Goto
    <3> QED
      BY <3>1, <3>2, <3>3
  <2>2. CASE ~Semaphores!TakesUnit(units)
    <3>1. Semaphores!Goto(p, "idle", "undo") /\ units' = units - 1
      BY <1>1, <2>2 DEF Semaphores!TryDown, Semaphores!Add
    <3>2. down \in Nat /\ undo \in Nat /\ down' = down /\ undo' = undo + 1
      BY <3>1, CountAt
    <3>3. spc' \in [Procs -> {"idle", "undo", "down"}]
      BY <3>1 DEF Semaphores!Goto
    <3> QED
      BY <3>1, <3>2, <3>3
  <2> QED
    BY <2>1, <2>2
<1>2. ASSUME NEW p \in Procs, Semaphores!Undo(p)
      PROVE  SemaphoreInv'
  <2>1. Semaphores!Goto(p, "undo", "idle") /\ units' = units + 1
    BY <1>2 DEF Semaphores!Undo, Semaphores!Add
  <2>2. down \in Nat /\ undo \in Nat /\ down' = down /\ undo' = undo - 1
    BY <2>1, CountAt
  <2>3. spc' \in [Procs -> {"idle", "undo", "down"}]
    BY <2>1 DEF Semaphores!Goto
  <2> QED
    BY <2>1, <2>2, <2>3
<1>3. ASSUME NEW p \in Procs, Semaphores!Up(p)
      PROVE  SemaphoreInv'
  <2>1. Semaphores!Goto(p, "down", "idle") /\ units' = units + 1
    BY <1>3 DEF Semaphores!Up, Semaphores!Add
  <2>2. down \in Nat /\ undo \in Nat /\ down' = down - 1 /\ undo' = undo
    BY <2>1, CountAt
  <2>3. spc' \in [Procs -> {"idle", "undo", "down"}]
    BY <2>1 DEF Semaphores!Goto
  <2> QED
    BY <2>1, <2>2, <2>3
<1>4. CASE UNCHANGED Semaphores!vars
  BY <1>4 DEF Semaphores!vars, Semaphores!At
<1> QED
  BY <1>1, <1>2, <1>3, <1>4 DEF Semaphores!Next

\* However many harts try at once, no more units are out than there were, and the
\* counter accounts for every one and every attempt that failed (lock.c:29-47).
LEMMA UnitsAlwaysConserved == Semaphores!Spec => []Semaphores!UnitsConserved
  BY UnitsMeans, InitSemaphoreInv, NextSemaphoreInv, PTL DEF Semaphores!Spec

----------------------------------------------------------------------------
(* The barrier *)

\* Who is not through the amoadd of barrier_wall.
Left == {p \in Members : bpc[p] \in {"ready", "wall"}}

BarrierTypes ==
  /\ nodes \in Seq(Members)
  /\ state \in [Members -> {"RUNNING", "WAITING"}]
  /\ bpc \in [Members -> {"out", "ready", "wall", "open", "stopped", "passed"}]
  /\ reg \in [{Registrar} -> [at : {"idle", "link", "count", "store"}, node : Seq(Members),
                              seen : Seq(Members), count : Nat]]

AllThere == \A p \in Members : bpc[p] \in {"open", "stopped", "passed"}

\* While processes are added none is waiting, the registrar has one of those that are out,
\* and the value it read is the one it stores back plus one.
AddingInv ==
  /\ \/ \A p \in Members : bpc[p] \in {"out", "ready"}
     \/ \A p \in Members : bpc[p] # "out"
  /\ reg[Registrar].at # "idle" =>
       /\ \A p \in Members : bpc[p] \in {"out", "ready"}
       /\ \E p \in Members : reg[Registrar].node = <<p>> /\ bpc[p] = "out"
  /\ reg[Registrar].at = "store" => reg[Registrar].count = count

\* One process at most opens the barrier, when all are there; until then nobody who is
\* stopped runs.
OpeningInv ==
  /\ \A p \in Members : bpc[p] \in {"open", "passed"} => AllThere
  /\ \A p \in Members : bpc[p] = "wall" => state[p] = "WAITING"
  /\ \A p \in Members : bpc[p] = "stopped" /\ state[p] = "RUNNING" => AllThere
  /\ \A p, q \in Members : bpc[p] = "open" /\ bpc[q] = "open" => p = q
  /\ AllThere => nodes = <<>> \/ \E p \in Members : bpc[p] = "open"

\* The counter is the number of processes that the wall still waits for.
BarrierInv ==
  /\ BarrierTypes /\ AddingInv /\ OpeningInv
  /\ count = Cardinality(Left)

LEMMA LeftCount == IsFiniteSet(Left) /\ Cardinality(Left) \in Nat
  BY FS_Subset, FS_CardinalityType, LibraryAssumption DEF Left

LEMMA InitBarrierInv == Barriers!Init => BarrierInv
<1> SUFFICES ASSUME Barriers!Init PROVE BarrierInv
  OBVIOUS
<1> USE DEF Barriers!Init, Barriers!Idle
<1>1. BarrierTypes
  BY DEF BarrierTypes
<1>2. Left = {}
  BY DEF Left
<1> QED
  BY <1>1, <1>2, FS_EmptySet DEF BarrierInv, AddingInv, OpeningInv, AllThere

\* A registrar takes a process.
LEMMA AddNodeKeeps ==
  ASSUME BarrierInv, NEW p \in Members, Barriers!AddNode(Registrar, p)
  PROVE  BarrierInv'
<1> USE DEF BarrierInv
<1>1. PICK e \in [at : {"idle", "link", "count", "store"}, node : Seq(Members),
                  seen : Seq(Members), count : Nat] : e = reg[Registrar]
  BY DEF BarrierTypes
<1>2. /\ bpc[p] = "out" /\ \A q \in Members : bpc[q] \in {"out", "ready"}
      /\ reg' = [reg EXCEPT ![Registrar] = [e EXCEPT !.at = "link", !.node = <<p>>, !.seen = nodes]]
      /\ UNCHANGED <<nodes, count, state, bpc>>
  BY <1>1 DEF Barriers!AddNode
<1>3. <<p>> \in Seq(Members) /\ nodes \in Seq(Members)
  BY DEF BarrierTypes
<1>4. PICK f \in [at : {"idle", "link", "count", "store"}, node : Seq(Members),
                  seen : Seq(Members), count : Nat] :
        f = [e EXCEPT !.at = "link", !.node = <<p>>, !.seen = nodes]
  BY <1>3
<1>5. f.at = "link" /\ f.node = <<p>>
  BY <1>4
<1>6. BarrierTypes' /\ reg'[Registrar] = f
  BY <1>2, <1>4 DEF BarrierTypes
<1>7. AddingInv' /\ OpeningInv' /\ Left' = Left
  BY <1>2, <1>5, <1>6 DEF AddingInv, OpeningInv, AllThere, Left
<1> QED
  BY <1>2, <1>6, <1>7

\* The three steps after that, of the node in hand.
LEMMA AddLinkKeeps ==
  ASSUME BarrierInv, Barriers!AddLink(Registrar)
  PROVE  BarrierInv'
<1> USE DEF BarrierInv
<1>1. PICK e \in [at : {"idle", "link", "count", "store"}, node : Seq(Members),
                  seen : Seq(Members), count : Nat] : e = reg[Registrar]
  BY DEF BarrierTypes
<1>2. /\ e.at = "link" /\ nodes' = e.node \o e.seen
      /\ reg' = [reg EXCEPT ![Registrar] = [e EXCEPT !.at = "count"]]
      /\ UNCHANGED <<count, state, bpc>>
  BY <1>1 DEF Barriers!AddLink, Barriers!Reg
<1>3. nodes' \in Seq(Members)
  BY <1>2
<1>4. PICK f \in [at : {"idle", "link", "count", "store"}, node : Seq(Members),
                  seen : Seq(Members), count : Nat] : f = [e EXCEPT !.at = "count"]
  OBVIOUS
<1>5. f.at = "count" /\ f.node = e.node
  BY <1>4
<1>6. BarrierTypes' /\ reg'[Registrar] = f
  BY <1>2, <1>3, <1>4 DEF BarrierTypes
<1>7. PICK p \in Members : e.node = <<p>> /\ bpc[p] = "out"
  BY <1>1, <1>2 DEF AddingInv
<1>8. AddingInv'
  BY <1>1, <1>2, <1>5, <1>6, <1>7 DEF AddingInv
<1>9. OpeningInv' /\ Left' = Left
  BY <1>2, <1>7 DEF OpeningInv, AllThere, Left
<1> QED
  BY <1>2, <1>6, <1>8, <1>9

LEMMA AddCountKeeps ==
  ASSUME BarrierInv, Barriers!AddCount(Registrar)
  PROVE  BarrierInv'
<1> USE DEF BarrierInv
<1>1. PICK e \in [at : {"idle", "link", "count", "store"}, node : Seq(Members),
                  seen : Seq(Members), count : Nat] : e = reg[Registrar]
  BY DEF BarrierTypes
<1>2. /\ e.at = "count"
      /\ reg' = [reg EXCEPT ![Registrar] = [e EXCEPT !.at = "store", !.count = count]]
      /\ UNCHANGED <<nodes, count, state, bpc>>
  <2>1. reg' = [reg EXCEPT ![Registrar].at = "store", ![Registrar].count = count]
    BY DEF Barriers!AddCount
  <2>2. reg \in [{Registrar} -> [at : {"idle", "link", "count", "store"}, node : Seq(Members),
                                 seen : Seq(Members), count : Nat]]
    BY DEF BarrierTypes
  <2>3. reg' = [reg EXCEPT ![Registrar] = [e EXCEPT !.at = "store", !.count = count]]
    BY <1>1, <2>1, <2>2
  <2> QED
    BY <1>1, <2>3 DEF Barriers!AddCount, Barriers!Reg
<1>3. count \in Nat
  BY LeftCount
<1>4. PICK f \in [at : {"idle", "link", "count", "store"}, node : Seq(Members),
                  seen : Seq(Members), count : Nat] :
        f = [e EXCEPT !.at = "store", !.count = count]
  BY <1>3
<1>5. f.at = "store" /\ f.node = e.node /\ f.count = count
  BY <1>4
<1>6. BarrierTypes' /\ reg'[Registrar] = f
  BY <1>2, <1>4 DEF BarrierTypes
<1>7. AddingInv'
  BY <1>1, <1>2, <1>5, <1>6 DEF AddingInv
<1>8. OpeningInv' /\ Left' = Left
  BY <1>2 DEF OpeningInv, AllThere, Left
<1> QED
  BY <1>2, <1>6, <1>7, <1>8

LEMMA AddStoreKeeps ==
  ASSUME BarrierInv, Barriers!AddStore(Registrar)
  PROVE  BarrierInv'
<1> USE DEF BarrierInv
<1>1. PICK p \in Members : /\ reg[Registrar].node = <<p>> /\ bpc[p] = "out"
                           /\ \A q \in Members : bpc[q] \in {"out", "ready"}
                           /\ reg[Registrar].count = count
  BY DEF Barriers!AddStore, Barriers!Reg, AddingInv
<1>2. Barriers!ToSet(<<p>>) = {p}
  BY DEF Barriers!ToSet
<1>3. /\ bpc' = [q \in Members |-> IF q = p THEN "ready" ELSE bpc[q]]
      /\ count' = count + 1
      /\ reg' = [reg EXCEPT ![Registrar] = Barriers!Idle]
      /\ UNCHANGED <<nodes, state>>
  BY <1>1, <1>2 DEF Barriers!AddStore
<1>4. /\ Barriers!Idle \in [at : {"idle", "link", "count", "store"}, node : Seq(Members),
                            seen : Seq(Members), count : Nat]
      /\ Barriers!Idle.at = "idle"
  BY DEF Barriers!Idle
<1>5. BarrierTypes' /\ reg'[Registrar] = Barriers!Idle
  BY <1>3, <1>4 DEF BarrierTypes
<1>6. AddingInv' /\ OpeningInv'
  BY <1>1, <1>3, <1>4, <1>5 DEF AddingInv, OpeningInv, AllThere
<1>7. p \notin Left /\ Left' = Left \cup {p}
  BY <1>1, <1>3 DEF Left
<1>8. count' = Cardinality(Left')
  BY <1>3, <1>7, LeftCount, FS_AddElement
<1> QED
  BY <1>5, <1>6, <1>8

\* While somebody is at the wall or through it, the registrar is idle.
LEMMA NobodyOut ==
  ASSUME BarrierInv, \A p \in Members : bpc[p] # "out"
  PROVE  reg[Registrar].at = "idle"
  BY DEF BarrierInv, AddingInv

LEMMA WaitKeeps ==
  ASSUME BarrierInv, NEW p \in Members, Barriers!Wait(p)
  PROVE  BarrierInv'
<1> USE DEF BarrierInv
<1>1. /\ \A q \in Members : bpc[q] # "out"
      /\ bpc[p] = "ready" /\ bpc' = [bpc EXCEPT ![p] = "wall"]
      /\ state' = [state EXCEPT ![p] = "WAITING"]
      /\ UNCHANGED <<nodes, count, reg>>
  BY DEF Barriers!Wait, Barriers!Goto, Barriers!AllAdded
<1>2. BarrierTypes'
  BY <1>1 DEF BarrierTypes
<1>3. AddingInv'
  BY <1>1, NobodyOut DEF AddingInv, BarrierTypes
<1>4. ~AllThere /\ ~AllThere'
  BY <1>1 DEF AllThere, BarrierTypes
<1>5. OpeningInv'
  BY <1>1, <1>4 DEF OpeningInv, BarrierTypes
<1>6. Left' = Left
  BY <1>1 DEF Left, BarrierTypes
<1> QED
  BY <1>1, <1>2, <1>3, <1>5, <1>6

\* The amoadd of barrier_wall: the one that finds 1 is the last.
LEMMA WallKeeps ==
  ASSUME BarrierInv, NEW p \in Members, Barriers!Wall(p)
  PROVE  BarrierInv'
<1> USE DEF BarrierInv
<1>1. /\ bpc[p] = "wall"
      /\ bpc' = [bpc EXCEPT ![p] = IF count <= 1 THEN "open" ELSE "stopped"]
      /\ count' = count - 1
      /\ UNCHANGED <<nodes, state, reg>>
  BY DEF Barriers!Wall, Barriers!Goto, Barriers!LastArrival
<1>2. p \in Left /\ Left' = Left \ {p}
  BY <1>1 DEF Left, BarrierTypes
<1>3. count' = Cardinality(Left')
  BY <1>1, <1>2, LeftCount, FS_RemoveElement
<1>4. BarrierTypes'
  BY <1>1 DEF BarrierTypes
<1>5. \A q \in Members : bpc[q] # "out"
  BY <1>1 DEF AddingInv
<1>6. AddingInv'
  BY <1>1, <1>5, NobodyOut DEF AddingInv, BarrierTypes
<1>7. IsFiniteSet(Left') /\ count \in Nat
  BY <1>2, LeftCount, FS_Subset
<1>8. count <= 1 <=> Left' = {}
  <2>1. CASE Left' = {}
    BY <1>1, <1>3, <1>7, <2>1, FS_EmptySet
  <2>2. CASE Left' # {}
    BY <1>1, <1>3, <1>7, <2>2, FS_EmptySet, FS_CardinalityType
  <2> QED
    BY <2>1, <2>2
<1>9. Left' = {} <=> AllThere'
  BY <1>1, <1>4, <1>5 DEF Left, AllThere, BarrierTypes
<1>10. ~AllThere
  BY <1>1 DEF AllThere
<1>11. \A q \in Members : bpc[q] \notin {"open", "passed"}
  BY <1>10 DEF OpeningInv
<1>12. OpeningInv'
  BY <1>1, <1>8, <1>9, <1>10, <1>11 DEF OpeningInv, BarrierTypes
<1> QED
  BY <1>3, <1>4, <1>6, <1>12

\* The loop that lets them run, and its end.
LEMMA OpenStepKeeps ==
  ASSUME BarrierInv, NEW p \in Members, Barriers!OpenStep(p)
  PROVE  BarrierInv'
<1> USE DEF BarrierInv
<1>1. PICK q : /\ bpc[p] = "open" /\ state' = [state EXCEPT ![q] = "RUNNING"]
               /\ UNCHANGED <<nodes, count, reg, bpc>>
  BY DEF Barriers!OpenStep
<1>2. AllThere /\ AllThere'
  BY <1>1 DEF OpeningInv, AllThere
<1>3. BarrierTypes'
  BY <1>1 DEF BarrierTypes
<1>4. OpeningInv'
  BY <1>1, <1>2 DEF OpeningInv, AllThere
<1> QED
  BY <1>1, <1>3, <1>4 DEF AddingInv, Left

LEMMA OpenDoneKeeps ==
  ASSUME BarrierInv, NEW p \in Members, Barriers!OpenDone(p)
  PROVE  BarrierInv'
<1> USE DEF BarrierInv
<1>1. /\ bpc[p] = "open" /\ bpc' = [bpc EXCEPT ![p] = "stopped"] /\ nodes' = <<>>
      /\ UNCHANGED <<count, state, reg>>
  BY DEF Barriers!OpenDone, Barriers!Goto
<1>2. AllThere /\ AllThere'
  BY <1>1 DEF OpeningInv, AllThere, BarrierTypes
<1>3. BarrierTypes' /\ Left' = Left
  BY <1>1 DEF BarrierTypes, Left
<1>4. OpeningInv'
  BY <1>1, <1>2 DEF OpeningInv, AllThere, BarrierTypes
<1>5. \A q \in Members : bpc[q] # "out"
  BY <1>2 DEF AllThere
<1>6. AddingInv'
  BY <1>1, <1>5, NobodyOut DEF AddingInv, BarrierTypes
<1> QED
  BY <1>1, <1>3, <1>4, <1>6

LEMMA PassKeeps ==
  ASSUME BarrierInv, NEW p \in Members, Barriers!Pass(p)
  PROVE  BarrierInv'
<1> USE DEF BarrierInv
<1>1. /\ bpc[p] = "stopped" /\ state[p] = "RUNNING" /\ bpc' = [bpc EXCEPT ![p] = "passed"]
      /\ UNCHANGED <<nodes, count, state, reg>>
  BY DEF Barriers!Pass, Barriers!Goto
<1>2. AllThere /\ AllThere'
  BY <1>1 DEF OpeningInv, AllThere, BarrierTypes
<1>3. BarrierTypes' /\ Left' = Left
  BY <1>1 DEF BarrierTypes, Left
<1>4. OpeningInv'
  BY <1>1, <1>2 DEF OpeningInv, AllThere, BarrierTypes
<1>5. \A q \in Members : bpc[q] # "out"
  BY <1>2 DEF AllThere
<1>6. AddingInv'
  BY <1>1, <1>5, NobodyOut DEF AddingInv, BarrierTypes
<1> QED
  BY <1>1, <1>3, <1>4, <1>6

\* The next use of the barrier starts where the first one did.
LEMMA NextRoundKeeps ==
  ASSUME BarrierInv, Barriers!NextRound
  PROVE  BarrierInv'
<1> USE DEF BarrierInv
<1>1. /\ \A p \in Members : bpc[p] = "passed"
      /\ bpc' = [p \in Members |-> "out"]
      /\ UNCHANGED <<nodes, count, state, reg>>
  BY DEF Barriers!NextRound
<1>2. AllThere /\ nodes = <<>>
  BY <1>1 DEF AllThere, OpeningInv
<1>3. Left = {} /\ Left' = {}
  BY <1>1 DEF Left
<1>4. BarrierTypes' /\ reg[Registrar].at = "idle"
  BY <1>1, NobodyOut DEF BarrierTypes
<1>5. AddingInv' /\ OpeningInv'
  BY <1>1, <1>2, <1>4 DEF AddingInv, OpeningInv, AllThere
<1> QED
  BY <1>1, <1>3, <1>4, <1>5

LEMMA NextBarrierInv ==
  BarrierInv /\ [Barriers!Next]_(Barriers!vars) => BarrierInv'
<1> SUFFICES ASSUME BarrierInv, [Barriers!Next]_(Barriers!vars) PROVE BarrierInv'
  OBVIOUS
<1>1. ASSUME NEW r \in {Registrar}, Barriers!Register(r)
      PROVE  BarrierInv'
  <2>1. r = Registrar
    OBVIOUS
  <2> QED
    BY <1>1, <2>1, AddNodeKeeps, AddLinkKeeps, AddCountKeeps, AddStoreKeeps DEF Barriers!Register
<1>2. ASSUME NEW p \in Members, Barriers!Meet(p)
      PROVE  BarrierInv'
  BY <1>2, WaitKeeps, WallKeeps, OpenStepKeeps, OpenDoneKeeps, PassKeeps DEF Barriers!Meet
<1>3. CASE UNCHANGED Barriers!vars
  BY <1>3 DEF Barriers!vars, BarrierInv, BarrierTypes, AddingInv, OpeningInv, AllThere, Left
<1> QED
  BY <1>1, <1>2, <1>3, NextRoundKeeps DEF Barriers!Next

LEMMA BarrierAlwaysMeets == Barriers!Spec => []Barriers!BarrierMeets
<1>1. BarrierInv => Barriers!BarrierMeets
  <2>1. SUFFICES ASSUME BarrierInv PROVE Barriers!BarrierMeets
    OBVIOUS
  <2>2. (\A p \in Members : bpc[p] = "passed") => nodes = <<>> /\ count = 0
    <3>1. SUFFICES ASSUME \A p \in Members : bpc[p] = "passed"
                   PROVE  nodes = <<>> /\ count = 0
      OBVIOUS
    <3>2. Left = {} /\ AllThere
      BY <3>1 DEF Left, AllThere
    <3> QED
      BY <2>1, <3>1, <3>2, FS_EmptySet DEF BarrierInv, OpeningInv
  <2> QED
    BY <2>1, <2>2 DEF BarrierInv, OpeningInv, AllThere, Barriers!BarrierMeets, Barriers!Arrived
<1> QED
  BY <1>1, InitBarrierInv, NextBarrierInv, PTL DEF Barriers!Spec

\* However the harts interleave, the semaphore neither makes nor loses a unit (lock.c:29-47),
\* and nobody passes the barrier before all are there, in any round (lock.c:67-70).
THEOREM SynchronisationAlwaysKept ==
  Semaphores!Spec /\ Barriers!Spec => []SynchronisationKept
<1>1. Semaphores!UnitsConserved /\ Barriers!BarrierMeets => SynchronisationKept
  BY DEF SynchronisationKept
<1> QED
  BY <1>1, UnitsAlwaysConserved, BarrierAlwaysMeets, PTL

----------------------------------------------------------------------------
(* The keys of consolev.c *)

ShiftKey(e) == e.type = "KEY" /\ e.code \in Shell!Shifts

Press(e) == e.type = "KEY" /\ ~ShiftKey(e) /\ e.value = 1

\* Whether the shift key is held behind the first n events of g.
ShiftHeld(g, n) == \E j \in 1 .. n : /\ ShiftKey(g[j]) /\ g[j].value # 0
                                /\ \A m \in j + 1 .. n : ~ShiftKey(g[m])

Presses(g, n) == {k \in 1 .. n : Press(g[k])}

Rank(g, n, k) == Cardinality({j \in Presses(g, n) : j <= k})

Characters == {Shell!conv_key(e.code, b) : e \in EventKinds, b \in BOOLEAN}

\* What get_next_key has looked at: n events of all those that came, g.
Handled == Len(given) - (IF atev < Len(events) THEN Len(events) - atev ELSE 0)

TypedRight(n) ==
  /\ Len(typed) = Cardinality(Presses(given, n))
  /\ \A k \in Presses(given, n) :
       typed[Rank(given, n, k)] = Shell!conv_key(given[k].code, ShiftHeld(given, k - 1))

\* The events of the last call are the last of all.
KeysInv ==
  /\ given \in Seq(EventKinds) /\ events \in Seq(EventKinds) /\ typed \in Seq(Characters)
  /\ atev \in Nat /\ Len(events) <= Len(given)
  /\ \A k \in 1 .. Len(events) : events[k] = given[Len(given) - Len(events) + k]
  /\ shift = ShiftHeld(given, Handled)
  /\ TypedRight(Handled)

LEMMA PressesFinite ==
  ASSUME NEW g, NEW n \in Nat
  PROVE  IsFiniteSet(Presses(g, n)) /\ Cardinality(Presses(g, n)) \in Nat
<1>1. IsFiniteSet(1 .. n)
  BY FS_Interval
<1>2. Presses(g, n) \subseteq 1 .. n
  BY DEF Presses
<1>3. IsFiniteSet(Presses(g, n))
  BY <1>1, <1>2, FS_Subset
<1> QED
  BY <1>3, FS_CardinalityType

LEMMA KeysMean == KeysInv => Shell!KeysOnce
<1> SUFFICES ASSUME KeysInv PROVE Shell!KeysOnce
  OBVIOUS
<1> DEFINE handled == Len(given) - (IF atev < Len(events) THEN Len(events) - atev ELSE 0)
           isShift(k) == given[k].type = "KEY" /\ given[k].code \in Shell!Shifts
           isPress(k) == given[k].type = "KEY" /\ ~isShift(k) /\ given[k].value = 1
           held(k) == \E j \in 1 .. k - 1 : /\ isShift(j) /\ given[j].value # 0
                                            /\ \A m \in j + 1 .. k - 1 : ~isShift(m)
           presses == {k \in 1 .. handled : isPress(k)}
           rank(k) == Shell!Cardinality({j \in presses : j <= k})
<1>0. \A S : Shell!Cardinality(S) = Cardinality(S)
  BY DEF Cardinality, Shell!Cardinality
<1>1. handled = Handled
  BY DEF Handled
<1>2. presses = Presses(given, Handled)
  BY <1>1 DEF Presses, Press, ShiftKey
<1>3. ASSUME NEW k PROVE held(k) = ShiftHeld(given, k - 1)
  BY DEF ShiftHeld, ShiftKey
<1>4. ASSUME NEW k PROVE rank(k) = Rank(given, Handled, k)
  BY <1>0, <1>2 DEF Rank
<1> HIDE DEF handled, presses, rank, held
<1>5. Len(typed) = Shell!Cardinality(presses)
  BY <1>0, <1>2 DEF KeysInv, TypedRight
<1>6. \A k \in presses : typed[rank(k)] = Shell!conv_key(given[k].code, held(k))
  BY <1>2, <1>3, <1>4 DEF KeysInv, TypedRight
<1> QED
  BY <1>5, <1>6, Zenon DEF Shell!KeysOnce, handled, presses, rank, held

\* No press more: nothing was typed.
LEMMA QuietPresses ==
  ASSUME NEW n \in Nat, NEW m \in Nat, n <= m, \A k \in n + 1 .. m : ~Press(given[k]),
         TypedRight(n)
  PROVE  TypedRight(m)
<1>1. Presses(given, m) = Presses(given, n)
  <2>1. \A k \in 1 .. m : k \in 1 .. n \/ k \in n + 1 .. m
    OBVIOUS
  <2>2. \A k \in 1 .. n : k \in 1 .. m
    OBVIOUS
  <2> QED
    BY <2>1, <2>2 DEF Presses
<1> QED
  BY <1>1 DEF TypedRight, Rank

\* One press more.
LEMMA OnePress ==
  ASSUME NEW n \in Nat, NEW p \in Nat, n < p, Press(given[p]),
         \A k \in n + 1 .. p - 1 : ~Press(given[k]),
         typed \in Seq(Characters), TypedRight(n),
         NEW c, c = Shell!conv_key(given[p].code, ShiftHeld(given, p - 1)),
         typed' = Append(typed, c), given' = given
  PROVE  TypedRight(p)'
<1>1. Presses(given, p) = Presses(given, n) \cup {p} /\ p \notin Presses(given, n)
  <2>1. \A k \in 1 .. p : k \in 1 .. n \/ k \in n + 1 .. p - 1 \/ k = p
    OBVIOUS
  <2>2. \A k \in 1 .. n : k \in 1 .. p /\ k # p
    OBVIOUS
  <2>3. p \in 1 .. p
    OBVIOUS
  <2> QED
    BY <2>1, <2>2, <2>3 DEF Presses
<1>2. IsFiniteSet(Presses(given, n)) /\ Cardinality(Presses(given, n)) \in Nat
  BY PressesFinite
<1>3. PICK l \in Nat : l = Cardinality(Presses(given, n)) /\ l = Len(typed)
  BY <1>2 DEF TypedRight
<1>4. Cardinality(Presses(given, p)) = l + 1
  <2>1. Cardinality(Presses(given, n) \cup {p}) = Cardinality(Presses(given, n)) + 1
    BY <1>1, <1>2, FS_AddElement
  <2> QED
    BY <1>1, <1>3, <2>1
<1>5. Len(typed') = l + 1 /\ typed'[l + 1] = c /\ \A i \in 1 .. l : typed'[i] = typed[i]
  BY <1>3
<1>6. Rank(given, p, p) = l + 1
  <2>1. {j \in Presses(given, p) : j <= p} = Presses(given, p)
    BY DEF Presses
  <2> QED
    BY <1>4, <2>1 DEF Rank
<1>7. ASSUME NEW k \in Presses(given, n)
      PROVE  Rank(given, p, k) = Rank(given, n, k) /\ Rank(given, n, k) \in 1 .. l
  <2>1. k \in 1 .. n
    BY DEF Presses
  <2>2. {j \in Presses(given, p) : j <= k} = {j \in Presses(given, n) : j <= k}
    BY <1>1, <2>1
  <2>3. {j \in Presses(given, n) : j <= k} \subseteq Presses(given, n)
    OBVIOUS
  <2>4. IsFiniteSet({j \in Presses(given, n) : j <= k})
        /\ Cardinality({j \in Presses(given, n) : j <= k}) <= l
    BY <1>2, <1>3, <2>3, FS_Subset
  <2>5. k \in {j \in Presses(given, n) : j <= k}
    BY <2>1
  <2>6. Cardinality({j \in Presses(given, n) : j <= k}) # 0
    BY <2>4, <2>5, FS_EmptySet
  <2>7. Cardinality({j \in Presses(given, n) : j <= k}) \in Nat
    BY <2>4, FS_CardinalityType
  <2>8. Cardinality({j \in Presses(given, n) : j <= k}) \in 1 .. l
    BY <2>4, <2>6, <2>7
  <2> QED
    BY <2>2, <2>8 DEF Rank
<1>8. ASSUME NEW k \in Presses(given, p)
      PROVE  typed'[Rank(given, p, k)] = Shell!conv_key(given[k].code, ShiftHeld(given, k - 1))
  <2>1. CASE k = p
    BY <1>5, <1>6, <2>1
  <2>2. CASE k \in Presses(given, n)
    BY <1>5, <1>7, <2>2 DEF TypedRight
  <2> QED
    BY <1>1, <2>1, <2>2
<1>9. Len(typed') = Cardinality(Presses(given, p))
  BY <1>4, <1>5
<1> QED
  BY <1>8, <1>9 DEF TypedRight

\* The searches of get_next_key among the events of one call.
LEMMA NextPressIs ==
  ASSUME events \in Seq(EventKinds), NEW i \in 0 .. Len(events)
  PROVE  /\ Shell!NextPress(i) \in i .. Len(events)
         /\ \A k \in i .. Shell!NextPress(i) - 1 : ~Press(events[k + 1])
         /\ Shell!NextPress(i) # Len(events) => Press(events[Shell!NextPress(i) + 1])
<1> DEFINE pressed == {k \in i .. Len(events) - 1 :
                         LET ev == events[k + 1]
                         IN  ev.type = "KEY" /\ ev.code \notin Shell!Shifts /\ ev.value = 1}
           least == CHOOSE k \in pressed : \A j \in pressed : k <= j
<1>1. Len(events) \in Nat
  OBVIOUS
<1>2. Shell!NextPress(i) = IF pressed = {} THEN Len(events) ELSE least
  BY DEF Shell!NextPress
<1>3. \A k \in i .. Len(events) - 1 : k \in pressed <=> Press(events[k + 1])
  BY DEF Press, ShiftKey
<1>4. pressed \subseteq i .. Len(events) - 1
  OBVIOUS
<1>5. pressed # {} => least \in pressed /\ \A j \in pressed : least <= j
  <2> SUFFICES ASSUME pressed # {} PROVE least \in pressed /\ \A j \in pressed : least <= j
    OBVIOUS
  <2>1. pressed \in SUBSET Nat
    BY <1>1, <1>4
  <2>2. \E k \in pressed : \A j \in pressed : k <= j
    BY <2>1, Least
  <2> HIDE DEF pressed
  <2> QED
    BY <2>2
<1> HIDE DEF pressed, least
<1>6. CASE pressed = {}
  BY <1>1, <1>2, <1>3, <1>6
<1>7. CASE pressed # {}
  <2>1. PICK r : r = least /\ r \in pressed /\ r \in i .. Len(events) - 1
                 /\ \A j \in pressed : r <= j
    BY <1>4, <1>5, <1>7
  <2>2. Shell!NextPress(i) = r
    BY <1>2, <1>7, <2>1
  <2>3. \A k \in i .. r - 1 : k \in i .. Len(events) - 1 /\ k \notin pressed
    BY <1>1, <2>1
  <2>4. r \in i .. Len(events) /\ Press(events[r + 1])
    BY <1>1, <1>3, <2>1
  <2>5. \A k \in i .. r - 1 : ~Press(events[k + 1])
    BY <1>3, <2>3
  <2> QED
    BY <2>2, <2>4, <2>5
<1> QED
  BY <1>6, <1>7

LEMMA HeldOn ==
  ASSUME NEW g, NEW n \in Nat, NEW m \in Nat, n <= m, \A k \in n + 1 .. m : ~ShiftKey(g[k])
  PROVE  ShiftHeld(g, m) = ShiftHeld(g, n)
<1>1. ASSUME ShiftHeld(g, n) PROVE ShiftHeld(g, m)
  <2>1. PICK j \in 1 .. n : /\ ShiftKey(g[j]) /\ g[j].value # 0
                            /\ \A k \in j + 1 .. n : ~ShiftKey(g[k])
    BY <1>1 DEF ShiftHeld
  <2>2. \A k \in j + 1 .. m : k \in j + 1 .. n \/ k \in n + 1 .. m
    OBVIOUS
  <2>3. j \in 1 .. m
    OBVIOUS
  <2> QED
    BY <2>1, <2>2, <2>3 DEF ShiftHeld
<1>2. ASSUME ShiftHeld(g, m) PROVE ShiftHeld(g, n)
  <2>1. PICK j \in 1 .. m : /\ ShiftKey(g[j]) /\ g[j].value # 0
                            /\ \A k \in j + 1 .. m : ~ShiftKey(g[k])
    BY <1>2 DEF ShiftHeld
  <2>2. j \in 1 .. n
    BY <2>1
  <2>3. \A k \in j + 1 .. n : k \in j + 1 .. m
    OBVIOUS
  <2> QED
    BY <2>1, <2>2, <2>3 DEF ShiftHeld
<1>3. ShiftHeld(g, n) \in BOOLEAN /\ ShiftHeld(g, m) \in BOOLEAN
  BY DEF ShiftHeld
<1> QED
  BY <1>1, <1>2, <1>3

LEMMA HeldLast ==
  ASSUME NEW g, NEW m \in Nat, NEW j \in 1 .. m, ShiftKey(g[j]),
         \A k \in j + 1 .. m : ~ShiftKey(g[k])
  PROVE  ShiftHeld(g, m) = (g[j].value # 0)
<1>1. ASSUME ShiftHeld(g, m) PROVE g[j].value # 0
  <2>1. PICK i \in 1 .. m : /\ ShiftKey(g[i]) /\ g[i].value # 0
                            /\ \A k \in i + 1 .. m : ~ShiftKey(g[k])
    BY <1>1 DEF ShiftHeld
  <2>2. i = j
    <3>1. i \in Nat /\ j \in Nat
      OBVIOUS
    <3>2. ~(j < i)
      BY <2>1
    <3>3. ~(i < j)
      BY <2>1
    <3> QED
      BY <3>1, <3>2, <3>3
  <2> QED
    BY <2>1, <2>2
<1>2. ASSUME g[j].value # 0 PROVE ShiftHeld(g, m)
  BY <1>2 DEF ShiftHeld
<1>3. ShiftHeld(g, m) \in BOOLEAN
  BY DEF ShiftHeld
<1> QED
  BY <1>1, <1>2, <1>3

LEMMA ShiftAfterIs ==
  ASSUME events \in Seq(EventKinds), given \in Seq(EventKinds), NEW b \in Nat,
         b = Len(given) - Len(events),
         \A k \in 1 .. Len(events) : events[k] = given[b + k],
         NEW i \in Nat, NEW j \in Nat, i <= j, j <= Len(events), shift = ShiftHeld(given, b + i)
  PROVE  Shell!ShiftAfter(i, j) = ShiftHeld(given, b + j)
<1> DEFINE changes == {k \in i .. j - 1 : events[k + 1].type = "KEY"
                                          /\ events[k + 1].code \in Shell!Shifts}
           last == CHOOSE k \in changes : \A m \in changes : m <= k
<1>1. Len(events) \in Nat
  OBVIOUS
<1>2. Shell!ShiftAfter(i, j) = IF changes = {} THEN shift ELSE events[last + 1].value # 0
  BY DEF Shell!ShiftAfter
<1>3. \A k \in i .. j - 1 : events[k + 1] = given[b + (k + 1)]
  BY <1>1
<1>4. \A k \in i .. j - 1 : k \in changes <=> ShiftKey(given[b + (k + 1)])
  BY <1>3 DEF ShiftKey
<1>5. changes \subseteq i .. j - 1
  OBVIOUS
<1>6. changes # {} => last \in changes /\ \A m \in changes : m <= last
  <2> SUFFICES ASSUME changes # {} PROVE last \in changes /\ \A m \in changes : m <= last
    OBVIOUS
  <2> DEFINE below == {d \in Nat : \E k \in changes : k + d = j}
  <2>1. below \in SUBSET Nat /\ below # {}
    <3>1. PICK k : k \in changes
      OBVIOUS
    <3>2. k \in Int /\ j - k \in Nat /\ k + (j - k) = j
      BY <1>5, <3>1
    <3> QED
      BY <3>1, <3>2
  <2>2. PICK d \in below : \A x \in below : d <= x
    BY <2>1, Least
  <2>3. PICK k \in changes : k + d = j
    OBVIOUS
  <2>4. \A m \in changes : m <= k
    <3> SUFFICES ASSUME NEW m \in changes PROVE m <= k
      OBVIOUS
    <3>1. m \in Int /\ j - m \in Nat /\ m + (j - m) = j /\ k \in Int
      BY <1>5
    <3>2. j - m \in below
      BY <3>1
    <3>3. d <= j - m /\ d \in Nat
      BY <2>2, <3>2
    <3> QED
      BY <2>3, <3>1, <3>3
  <2> HIDE DEF changes
  <2> QED
    BY <2>3, <2>4
<1> HIDE DEF changes, last
<1>7. CASE changes = {}
  <2>1. \A k \in b + i + 1 .. b + j : ~ShiftKey(given[k])
    <3> SUFFICES ASSUME NEW k \in b + i + 1 .. b + j PROVE ~ShiftKey(given[k])
      OBVIOUS
    <3>1. k - b - 1 \in i .. j - 1 /\ b + ((k - b - 1) + 1) = k
      OBVIOUS
    <3> QED
      BY <1>4, <1>7, <3>1
  <2>2. b + i \in Nat /\ b + j \in Nat /\ b + i <= b + j
    OBVIOUS
  <2>3. ShiftHeld(given, b + j) = ShiftHeld(given, b + i)
    BY <2>1, <2>2, HeldOn
  <2> QED
    BY <1>2, <1>7, <2>3
<1>8. CASE changes # {}
  <2>1. PICK r : r = last /\ r \in changes /\ r \in i .. j - 1 /\ \A m \in changes : m <= r
    BY <1>5, <1>6, <1>8
  <2>2. PICK p : p = b + (r + 1) /\ p \in 1 .. b + j
    BY <2>1
  <2>3. ShiftKey(given[p]) /\ events[r + 1] = given[p]
    BY <1>3, <1>4, <2>1, <2>2
  <2>4. \A k \in p + 1 .. b + j : ~ShiftKey(given[k])
    <3> SUFFICES ASSUME NEW k \in p + 1 .. b + j PROVE ~ShiftKey(given[k])
      OBVIOUS
    <3>1. k - b - 1 \in i .. j - 1 /\ b + ((k - b - 1) + 1) = k /\ ~(k - b - 1 <= r)
      BY <2>1, <2>2
    <3>2. k - b - 1 \notin changes
      BY <2>1, <3>1
    <3> QED
      BY <1>4, <3>1, <3>2
  <2>5. b + j \in Nat
    OBVIOUS
  <2>6. ShiftHeld(given, b + j) = (given[p].value # 0)
    BY <2>2, <2>3, <2>4, <2>5, HeldLast
  <2> QED
    BY <1>2, <1>8, <2>1, <2>3, <2>6
<1> QED
  BY <1>7, <1>8

LEMMA KeysGetEvents ==
  ASSUME KeysInv, Shell!GetEvents
  PROVE  KeysInv'
<1>1. PICK n, batch : /\ n \in Nat \ {0} /\ batch \in [1 .. n -> EventKinds]
                      /\ events' = batch /\ given' = given \o batch
                      /\ atev' = 0 /\ shift' = shift /\ typed' = typed
                      /\ atev >= Len(events)
  BY DEF Shell!GetEvents
<1>2. /\ given \in Seq(EventKinds) /\ events \in Seq(EventKinds) /\ typed \in Seq(Characters)
      /\ atev \in Nat /\ Len(events) \in Nat
      /\ shift = ShiftHeld(given, Handled) /\ TypedRight(Handled)
  BY DEF KeysInv
<1>3. PICK l \in Nat : l = Len(given)
  BY <1>2
<1>4. Handled = l
  BY <1>1, <1>2, <1>3 DEF Handled
<1>5. batch \in Seq(EventKinds) /\ Len(batch) = n
  BY <1>1
<1>6. /\ given' \in Seq(EventKinds) /\ Len(given') = l + n
      /\ \A k \in 1 .. l : given'[k] = given[k]
      /\ \A k \in 1 .. n : given'[l + k] = batch[k]
  <2>1. given' = given \o batch /\ n \in Nat
    BY <1>1
  <2>2. Len(given') = l + n
    <3>1. Len(given \o batch) = Len(given) + Len(batch)
      BY <1>2, <1>5, ConcatProperties
    <3> QED
      BY <1>3, <1>5, <2>1, <3>1
  <2>3. given' \in Seq(EventKinds)
    BY <1>2, <1>5, <2>1
  <2>4. ASSUME NEW k \in 1 .. l PROVE given'[k] = given[k]
    BY <1>2, <1>3, <1>5, <2>1
  <2>5. ASSUME NEW k \in 1 .. n PROVE given'[l + k] = batch[k]
    BY <1>2, <1>3, <1>5, <2>1
  <2> QED
    BY <2>2, <2>3, <2>4, <2>5
<1>7. Handled' = l
  <2>1. atev' < Len(events') /\ Len(events') - atev' = n /\ n \in Nat
    BY <1>1, <1>5
  <2>2. Len(given') - n = l
    BY <1>3, <1>6, <2>1
  <2> QED
    BY <2>1, <2>2 DEF Handled
<1>8. Presses(given', l) = Presses(given, l)
  BY <1>6 DEF Presses
<1>9. ASSUME NEW k \in 0 .. l
      PROVE  ShiftHeld(given', k) = ShiftHeld(given, k)
  <2>1. \A j \in 1 .. k : given'[j] = given[j]
    BY <1>6
  <2>2. \A j \in 1 .. k : \A m \in j + 1 .. k : m \in 1 .. k
    OBVIOUS
  <2> QED
    BY <2>1, <2>2 DEF ShiftHeld
<1>10. TypedRight(l)'
  <2>1. ASSUME NEW k \in Presses(given, l)
        PROVE  typed'[Rank(given, l, k)'] =
                 Shell!conv_key(given'[k].code, ShiftHeld(given, k - 1)')
    <3>1. k \in 1 .. l /\ k - 1 \in 0 .. l
      BY DEF Presses
    <3>2. ShiftHeld(given', k - 1) = ShiftHeld(given, k - 1)
      BY <1>9, <3>1
    <3>3. Rank(given, l, k)' = Rank(given, l, k)
      BY <1>8 DEF Rank
    <3> QED
      BY <1>1, <1>2, <1>4, <1>6, <3>1, <3>2, <3>3 DEF TypedRight
  <2> QED
    BY <1>1, <1>2, <1>4, <1>8, <2>1 DEF TypedRight
<1>11. shift' = ShiftHeld(given, Handled)'
  BY <1>1, <1>2, <1>4, <1>7, <1>9
<1>12. TypedRight(Handled)'
  BY <1>7, <1>10
<1>13. /\ Len(events') <= Len(given')
       /\ \A k \in 1 .. Len(events') : events'[k] = given'[Len(given') - Len(events') + k]
  <2>1. Len(given') - Len(events') = l
    BY <1>1, <1>5, <1>6
  <2> QED
    BY <1>1, <1>5, <1>6, <2>1
<1> QED
  BY <1>1, <1>2, <1>5, <1>6, <1>11, <1>12, <1>13 DEF KeysInv, Characters

LEMMA KeysGetNextKey ==
  ASSUME KeysInv, Shell!GetNextKey
  PROVE  KeysInv'
<1>1. /\ given \in Seq(EventKinds) /\ events \in Seq(EventKinds) /\ typed \in Seq(Characters)
      /\ atev \in Nat /\ Len(events) <= Len(given)
      /\ \A k \in 1 .. Len(events) : events[k] = given[Len(given) - Len(events) + k]
      /\ shift = ShiftHeld(given, Handled) /\ TypedRight(Handled)
  BY DEF KeysInv
<1>2. PICK i, c : /\ i = Shell!NextPress(atev)
                  /\ c = IF i = Len(events) THEN Shell!Nothing
                         ELSE Shell!conv_key(events[i + 1].code, Shell!ShiftAfter(atev, i))
                  /\ atev' = i + 1 /\ shift' = Shell!ShiftAfter(atev, i)
                  /\ typed' = IF i = Len(events) THEN typed ELSE Append(typed, c)
                  /\ events' = events /\ given' = given /\ atev < Len(events)
  BY DEF Shell!GetNextKey, Shell!AtevBehind
<1>3. PICK b, l \in Nat : l = Len(events) /\ b = Len(given) - Len(events)
  <2>1. Len(events) \in Nat /\ Len(given) - Len(events) \in Nat
    BY <1>1
  <2> QED
    BY <2>1
<1>4. Handled = b + atev /\ atev < l
  BY <1>1, <1>2, <1>3 DEF Handled
<1>5. /\ i \in Nat /\ atev <= i /\ i <= l
      /\ \A k \in atev .. i - 1 : ~Press(events[k + 1])
      /\ i # l => Press(events[i + 1])
  <2>1. atev \in 0 .. Len(events)
    BY <1>1, <1>2, <1>3, <1>4
  <2>2. /\ i \in atev .. Len(events)
        /\ \A k \in atev .. i - 1 : ~Press(events[k + 1])
        /\ i # Len(events) => Press(events[i + 1])
    BY <1>1, <1>2, <2>1, NextPressIs
  <2> QED
    BY <1>1, <1>3, <2>2
<1>6. \A k \in 1 .. l : events[k] = given[b + k]
  BY <1>1, <1>3
<1>7. Shell!ShiftAfter(atev, i) = ShiftHeld(given, b + i)
  BY <1>1, <1>3, <1>4, <1>5, <1>6, ShiftAfterIs
<1>8. \A k \in b + atev + 1 .. b + i : ~Press(given[k])
  <2> SUFFICES ASSUME NEW k \in b + atev + 1 .. b + i PROVE ~Press(given[k])
    OBVIOUS
  <2>1. k - b - 1 \in atev .. i - 1 /\ (k - b - 1) + 1 \in 1 .. l
        /\ b + ((k - b - 1) + 1) = k
    BY <1>1, <1>5
  <2> QED
    BY <1>5, <1>6, <2>1
<1>9. CASE i = l
  <2>1. Handled' = b + l
    <3>1. Handled' = Len(given)
      BY <1>2, <1>3, <1>9 DEF Handled
    <3> QED
      BY <1>1, <1>3, <3>1
  <2>2. TypedRight(b + l)
    <3>1. b + atev \in Nat /\ b + l \in Nat /\ b + atev <= b + l
      BY <1>1, <1>4
    <3> QED
      BY <1>1, <1>4, <1>8, <1>9, <3>1, QuietPresses
  <2>3. TypedRight(Handled)'
    BY <1>2, <1>3, <1>9, <2>1, <2>2 DEF TypedRight
  <2>4. shift' = ShiftHeld(given, Handled)'
    BY <1>2, <1>7, <1>9, <2>1
  <2> QED
    BY <1>1, <1>2, <1>3, <1>5, <1>9, <2>3, <2>4 DEF KeysInv, Characters
<1>10. CASE i # l
  <2>1. PICK p \in Nat : p = b + (i + 1)
    BY <1>5
  <2>2. i + 1 \in 1 .. l /\ events[i + 1] = given[p] /\ Press(given[p])
    BY <1>5, <1>6, <1>10, <2>1
  <2>3. Handled' = p
    <3>1. Handled' = Len(given) - (IF i + 1 < l THEN l - (i + 1) ELSE 0)
      BY <1>2, <1>3 DEF Handled
    <3>2. Len(given) = b + l
      BY <1>1, <1>3
    <3>3. b \in Nat /\ l \in Nat /\ i \in Nat /\ i + 1 <= l
      BY <1>3, <1>5, <2>2
    <3>4. CASE i + 1 < l
      BY <2>1, <3>1, <3>2, <3>3, <3>4
    <3>5. CASE i + 1 = l
      BY <2>1, <3>1, <3>2, <3>3, <3>5
    <3> QED
      BY <3>3, <3>4, <3>5
  <2>4. c = Shell!conv_key(given[p].code, ShiftHeld(given, p - 1)) /\ typed' = Append(typed, c)
    <3>1. p - 1 = b + i
      BY <1>5, <2>1
    <3> QED
      BY <1>2, <1>3, <1>7, <1>10, <2>2, <3>1
  <2>5. c \in Characters
    <3>1. events[i + 1] \in EventKinds
      BY <1>1, <1>3, <2>2
    <3>2. given[p] \in EventKinds
      BY <2>2, <3>1
    <3>3. ShiftHeld(given, p - 1) \in BOOLEAN
      BY DEF ShiftHeld
    <3> QED
      BY <2>4, <3>2, <3>3 DEF Characters
  <2>6. TypedRight(p)'
    <3>1. b + atev \in Nat /\ b + atev < p /\ p - 1 = b + i
      BY <1>1, <1>5, <2>1
    <3>2. \A k \in (b + atev) + 1 .. p - 1 : ~Press(given[k])
      BY <1>8, <3>1
    <3>3. TypedRight(b + atev)
      BY <1>1, <1>4
    <3> QED
      BY <1>1, <1>2, <2>2, <2>4, <3>1, <3>2, <3>3, OnePress
  <2>7. ShiftHeld(given, p) = ShiftHeld(given, b + i)
    <3>1. ~ShiftKey(given[p]) /\ b + i \in Nat /\ b + i <= p
      BY <1>5, <2>1, <2>2 DEF Press
    <3>2. \A k \in b + i + 1 .. p : k = p
      BY <1>5, <2>1
    <3> QED
      BY <3>1, <3>2, HeldOn
  <2>8. shift' = ShiftHeld(given, Handled)'
    BY <1>2, <1>7, <2>3, <2>7
  <2>9. TypedRight(Handled)'
    BY <2>3, <2>6
  <2>10. typed' \in Seq(Characters)
    BY <1>1, <2>4, <2>5
  <2> QED
    BY <1>1, <1>2, <1>3, <1>5, <2>8, <2>9, <2>10 DEF KeysInv, Characters
<1> QED
  BY <1>9, <1>10

LEMMA KeysInit == Shell!Init => KeysInv
<1> SUFFICES ASSUME Shell!Init PROVE KeysInv
  OBVIOUS
<1>1. events = <<>> /\ atev = 0 /\ shift = FALSE /\ given = <<>> /\ typed = <<>>
  BY DEF Shell!Init, Shell!InitWith
<1>2. Handled = 0
  BY <1>1 DEF Handled
<1>3. ShiftHeld(given, 0) = FALSE /\ Presses(given, 0) = {}
  BY DEF ShiftHeld, Presses
<1>4. TypedRight(0)
  BY <1>1, <1>3, FS_EmptySet DEF TypedRight
<1>5. Len(events) = 0 /\ Len(given) = 0
  BY <1>1
<1>6. <<>> \in Seq(EventKinds) /\ <<>> \in Seq(Characters)
  OBVIOUS
<1>7. /\ given \in Seq(EventKinds) /\ events \in Seq(EventKinds) /\ typed \in Seq(Characters)
      /\ atev \in Nat /\ Len(events) <= Len(given)
  BY <1>1, <1>5, <1>6
<1>8. \A k \in 1 .. Len(events) : events[k] = given[Len(given) - Len(events) + k]
  BY <1>5
<1>9. shift = ShiftHeld(given, Handled) /\ TypedRight(Handled)
  BY <1>1, <1>2, <1>3, <1>4
<1> QED
  BY <1>7, <1>8, <1>9 DEF KeysInv

LEMMA KeysNext == KeysInv /\ [Shell!Next]_Shell!vars => KeysInv'
<1> SUFFICES ASSUME KeysInv, [Shell!Next]_Shell!vars PROVE KeysInv'
  OBVIOUS
<1>1. CASE Shell!GetEvents
  BY <1>1, KeysGetEvents
<1>2. CASE Shell!GetNextKey
  BY <1>2, KeysGetNextKey
<1>3. ASSUME UNCHANGED Shell!keyed
      PROVE  KeysInv'
  <2>1. /\ events' = events /\ atev' = atev /\ shift' = shift /\ given' = given
        /\ typed' = typed
    BY <1>3 DEF Shell!keyed
  <2> QED
    BY <2>1 DEF KeysInv, Handled, TypedRight, Characters
<1>4. CASE \/ Shell!GetChar \/ Shell!EscapeFirst \/ Shell!EscapeSecond \/ Shell!HartChanges
           \/ UNCHANGED Shell!vars
  <2>1. UNCHANGED Shell!keyed
    BY <1>4 DEF Shell!GetChar, Shell!EscapeFirst, Shell!EscapeSecond, Shell!HartChanges,
                Shell!vars, Shell!keyed
  <2> QED
    BY <1>3, <2>1
<1>5. CASE \/ Shell!RunKernel \/ Shell!StatLoop \/ Shell!CheckStopped \/ Shell!StartHart
           \/ Shell!RunUser
  <2>1. UNCHANGED Shell!keyed
    BY <1>5 DEF Shell!RunKernel, Shell!StatLoop, Shell!CheckStopped, Shell!StartHart,
                Shell!RunUser, Shell!Goto
  <2> QED
    BY <1>3, <2>1
<1> QED
  BY <1>1, <1>2, <1>4, <1>5 DEF Shell!Next

\* Every press of a key gives its character once and in order, under the shift key as it was
\* then, however the events come (consolev.c:136-180).
THEOREM KeysAlwaysOnce == Shell!Spec => []KeysOnce
<1>1. KeysInv => KeysOnce
  BY KeysMean DEF KeysOnce
<1> QED
  BY <1>1, KeysInit, KeysNext, PTL DEF Shell!Spec

----------------------------------------------------------------------------
(* Loops, as recursive functions of their counters *)

\* One that looks upwards until it stops, and one that goes on from what it has.
Searches(f, n, stop, val) ==
  f = [k \in 0 .. n |-> IF k \in stop THEN val[k] ELSE f[k + 1]]

Recurs(f, n, base, step) ==
  f = [i \in 0 .. n |-> IF i = 0 THEN base ELSE step[<<i, f[i - 1]>>]]

\* A set of stops that holds the last index has a first one from any index on.
LEMMA FirstStop ==
  ASSUME NEW n \in Nat, NEW stop \in SUBSET (0 .. n), n \in stop, NEW i \in 0 .. n
  PROVE  \E j \in stop : i <= j /\ \A k \in i .. j - 1 : k \notin stop
<1> DEFINE above == {j \in stop : i <= j}
<1>1. above \in SUBSET Nat /\ n \in above
  <2>1. \A j \in stop : j \in Nat
    OBVIOUS
  <2>2. n \in above
    OBVIOUS
  <2> QED
    BY <2>1, <2>2
<1>2. PICK j \in above : \A k \in above : j <= k
  BY <1>1, Least
<1>3. \A k \in i .. j - 1 : k \notin above
  BY <1>1, <1>2
<1> QED
  BY <1>1, <1>2, <1>3

\* There is a function that searches upwards.
LEMMA SearchExists ==
  ASSUME NEW n \in Nat, NEW stop \in SUBSET (0 .. n), n \in stop, NEW val
  PROVE  \E w : Searches(w, n, stop, val)
<1> DEFINE above(k) == {j \in stop : k <= j}
           first(k) == CHOOSE j : j \in above(k) /\ \A m \in above(k) : j <= m
           w == [k \in 0 .. n |-> val[first(k)]]
<1>1. ASSUME NEW k \in stop
      PROVE  first(k) = k
  <2>1. k \in Nat /\ k \in above(k) /\ \A m \in above(k) : k <= m
    OBVIOUS
  <2>2. \A j : j \in above(k) /\ (\A m \in above(k) : j <= m) => j = k
    BY <2>1
  <2> HIDE DEF above
  <2> QED
    BY <2>1, <2>2, Zenon
<1>2. ASSUME NEW k \in 0 .. n, k \notin stop
      PROVE  k + 1 \in 0 .. n /\ first(k) = first(k + 1)
  <2>1. k # n
    BY <1>2
  <2>2. above(k) = above(k + 1)
    <3>1. \A j \in stop : k <= j <=> k + 1 <= j
      BY <1>2
    <3> QED
      BY <3>1
  <2> HIDE DEF above
  <2> QED
    BY <2>1, <2>2
<1> HIDE DEF above, first
<1>3. \A k \in 0 .. n : w[k] = IF k \in stop THEN val[k] ELSE w[k + 1]
  BY <1>1, <1>2
<1>4. w = [k \in 0 .. n |-> w[k]]
  OBVIOUS
<1> HIDE DEF w
<1>5. w = [k \in 0 .. n |-> IF k \in stop THEN val[k] ELSE w[k + 1]]
  BY <1>3, <1>4
<1> QED
  BY <1>5 DEF Searches

\* The first stop from i on.
StopsFrom(f, n, stop, val, i, j) ==
  /\ n \in Nat /\ stop \in SUBSET (0 .. n) /\ Searches(f, n, stop, val)
  /\ i \in 0 .. n /\ j \in stop /\ i <= j /\ \A k \in i .. j - 1 : k \notin stop

\* What such a search finds from i on is the value at the first stop.
LEMMA SearchStops ==
  ASSUME NEW f, NEW n, NEW stop, NEW val, NEW i, NEW j, StopsFrom(f, n, stop, val, i, j)
  PROVE  f[i] = val[j]
<1>0. /\ n \in Nat /\ stop \in SUBSET (0 .. n) /\ j \in stop /\ j \in 0 .. n
      /\ i \in 0 .. n /\ i <= j /\ \A k \in i .. j - 1 : k \notin stop
  BY DEF StopsFrom
<1>1. \A k \in 0 .. n : f[k] = IF k \in stop THEN val[k] ELSE f[k + 1]
  BY DEF StopsFrom, Searches
<1> DEFINE bad == {d \in Nat : d <= j - i /\ f[j - d] # val[j]}
<1>2. CASE bad = {}
  <2>1. PICK d \in Nat : d <= j - i /\ j - d = i
    <3>1. j - i \in Nat /\ j - i <= j - i /\ j - (j - i) = i
      BY <1>0
    <3> QED
      BY <3>1
  <2>2. d \notin bad
    BY <1>2
  <2> QED
    BY <2>1, <2>2
<1>3. CASE bad # {}
  <2>1. PICK d \in bad : \A e \in bad : d <= e
    BY <1>3, Least
  <2>2. d # 0
    <3>1. f[j - 0] = val[j]
      <4>1. j \in 0 .. n
        BY <1>0
      <4>2. j - 0 = j
        BY <4>1
      <4> QED
        BY <1>0, <1>1, <4>1, <4>2
    <3> QED
      BY <2>1, <3>1
  <2>3. d - 1 \in Nat /\ d - 1 <= j - i
    BY <1>0, <2>1, <2>2
  <2>4. f[j - (d - 1)] = val[j]
    <3>1. d - 1 \notin bad
      BY <2>1, <2>3
    <3> QED
      BY <2>3, <3>1
  <2>5. j - d \in i .. j - 1 /\ (j - d) + 1 = j - (d - 1) /\ j - d \in 0 .. n
    BY <1>0, <2>1, <2>2
  <2>6. f[j - d] = f[j - (d - 1)]
    BY <1>0, <1>1, <2>5
  <2> QED
    BY <2>4, <2>6
<1> QED
  BY <1>2, <1>3

\* The first stop from 0 on.
StopsAt(f, n, stop, val, j) ==
  /\ n \in Nat /\ stop \in SUBSET (0 .. n) /\ Searches(f, n, stop, val)
  /\ j \in stop /\ \A k \in 0 .. j - 1 : k \notin stop

\* What a search finds from 0 on is the value at the first stop.
LEMMA FirstFound ==
  ASSUME NEW f, NEW n, NEW stop, NEW val, NEW j, StopsAt(f, n, stop, val, j)
  PROVE  f[0] = val[j]
<1>1. /\ n \in Nat /\ stop \in SUBSET (0 .. n) /\ Searches(f, n, stop, val)
      /\ j \in stop /\ \A k \in 0 .. j - 1 : k \notin stop
  BY DEF StopsAt
<1>2. 0 \in 0 .. n /\ 0 <= j
  BY <1>1
<1>3. StopsFrom(f, n, stop, val, 0, j)
  BY <1>1, <1>2 DEF StopsFrom
<1> QED
  BY <1>3, SearchStops

\* There is a function that goes on from what it has.
LEMMA RecursionExists ==
  ASSUME NEW n \in Nat, NEW S, NEW base \in S, NEW step \in [(1 .. n) \X S -> S]
  PROVE  \E w : Recurs(w, n, base, step)
<1> DEFINE To(m, w) == /\ w \in [0 .. m -> S]
                       /\ w[0] = base /\ \A i \in 1 .. m : w[i] = step[<<i, w[i - 1]>>]
           bad == {m \in 0 .. n : ~\E w : To(m, w)}
<1>1. bad = {}
  <2> SUFFICES ASSUME bad # {} PROVE FALSE
    OBVIOUS
  <2>1. bad \in SUBSET Nat
    OBVIOUS
  <2>2. PICK m \in bad : \A k \in bad : m <= k
    BY <2>1, Least
  <2>3. m # 0
    <3>1. To(0, [i \in 0 .. 0 |-> base])
      OBVIOUS
    <3> QED
      BY <3>1
  <2>4. m \in 1 .. n /\ m - 1 \in 0 .. n /\ ~(m <= m - 1)
    BY <2>1, <2>2, <2>3
  <2>5. m - 1 \notin bad
    BY <2>2, <2>4
  <2>6. PICK w : To(m - 1, w)
    BY <2>4, <2>5
  <2> DEFINE v == [i \in 0 .. m |-> IF i = m THEN step[<<m, w[m - 1]>>] ELSE w[i]]
  <2>7. w[m - 1] \in S /\ step[<<m, w[m - 1]>>] \in S
    BY <2>4, <2>6
  <2>8. v \in [0 .. m -> S] /\ v[0] = base
    BY <2>4, <2>6, <2>7
  <2>9. ASSUME NEW i \in 1 .. m PROVE v[i] = step[<<i, v[i - 1]>>]
    <3>1. i - 1 \in 0 .. m /\ i - 1 # m /\ i \in 0 .. m /\ v[i - 1] = w[i - 1]
      BY <2>4
    <3>2. CASE i = m
      BY <3>1, <3>2
    <3>3. CASE i # m
      <4>1. i \in 1 .. m - 1
        BY <2>4, <3>3
      <4> QED
        BY <2>6, <3>1, <3>3, <4>1
    <3> QED
      BY <3>2, <3>3
  <2>10. To(m, v)
    BY <2>8, <2>9
  <2> QED
    BY <2>10
<1>2. PICK w : To(n, w)
  <2>1. n \in 0 .. n
    OBVIOUS
  <2>2. \A m \in 0 .. n : (~\E w : To(m, w)) => m \in bad
    OBVIOUS
  <2> HIDE DEF bad, To
  <2> QED
    BY <1>1, <2>1, <2>2
<1>3. w = [i \in 0 .. n |-> IF i = 0 THEN base ELSE step[<<i, w[i - 1]>>]]
  BY <1>2
<1> QED
  BY <1>3 DEF Recurs

\* It stays in the set that its steps stay in.
LEMMA RecursionTyped ==
  ASSUME NEW n \in Nat, NEW S, NEW base \in S, NEW step \in [(1 .. n) \X S -> S], NEW f,
         Recurs(f, n, base, step)
  PROVE  f \in [0 .. n -> S]
<1>1. \A i \in 0 .. n : f[i] = IF i = 0 THEN base ELSE step[<<i, f[i - 1]>>]
  BY DEF Recurs
<1> DEFINE bad == {i \in 0 .. n : f[i] \notin S}
<1>2. bad = {}
  <2> SUFFICES ASSUME bad # {} PROVE FALSE
    OBVIOUS
  <2>1. bad \in SUBSET Nat
    OBVIOUS
  <2>2. PICK m \in bad : \A k \in bad : m <= k
    BY <2>1, Least
  <2>3. m # 0
    BY <1>1
  <2>4. m \in 1 .. n /\ m - 1 \in 0 .. n /\ ~(m <= m - 1)
    BY <2>1, <2>2, <2>3
  <2>5. m - 1 \notin bad
    BY <2>2, <2>4
  <2>6. f[m - 1] \in S
    BY <2>4, <2>5
  <2>7. f[m] = step[<<m, f[m - 1]>>]
    BY <1>1, <2>3
  <2> QED
    BY <2>4, <2>6, <2>7
<1>3. f = [i \in 0 .. n |-> f[i]]
  BY DEF Recurs
<1> QED
  BY <1>2, <1>3

----------------------------------------------------------------------------
(* Strings *)

\* Bytes other than NUL.
Chars == 1 .. 255

\* The bytes of a string in memory: the NUL is the only one, and behind all others.
LEMMA CStrIs ==
  ASSUME NEW s \in Seq(Chars)
  PROVE  /\ Len(s) \in Nat /\ DOMAIN Strs!CStr(s) = 0 .. Len(s)
         /\ \A k \in 0 .. Len(s) - 1 : Strs!CStr(s)[k] = s[k + 1] /\ s[k + 1] \in Chars
         /\ Strs!CStr(s)[Len(s)] = 0
         /\ \A k \in 0 .. Len(s) : Strs!CStr(s)[k] \in 0 .. 255
         /\ \A k \in 0 .. Len(s) : Strs!CStr(s)[k] = 0 <=> k = Len(s)
<1>1. Len(s) \in Nat /\ DOMAIN Strs!CStr(s) = 0 .. Len(s)
  BY DEF Strs!CStr
<1>2. \A k \in 0 .. Len(s) - 1 : Strs!CStr(s)[k] = s[k + 1] /\ s[k + 1] \in Chars
  BY DEF Strs!CStr
<1>3. Strs!CStr(s)[Len(s)] = 0
  BY <1>1 DEF Strs!CStr, Strs!NUL
<1>4. \A k \in 0 .. Len(s) : k \in 0 .. Len(s) - 1 \/ k = Len(s)
  BY <1>1
<1>5. ASSUME NEW k \in 0 .. Len(s)
      PROVE  /\ Strs!CStr(s)[k] \in 0 .. 255
             /\ Strs!CStr(s)[k] = 0 <=> k = Len(s)
  <2>1. CASE k = Len(s)
    BY <1>3, <2>1
  <2>2. CASE k \in 0 .. Len(s) - 1
    <3>1. PICK c \in 1 .. 255 : c = Strs!CStr(s)[k]
      BY <1>2, <2>2 DEF Chars
    <3>2. k # Len(s)
      BY <1>1, <2>2
    <3>3. c \in 0 .. 255 /\ c # 0
      OBVIOUS
    <3> QED
      BY <3>1, <3>2, <3>3
  <2> QED
    BY <1>4, <2>1, <2>2
<1> QED
  BY <1>1, <1>2, <1>3, <1>5

\* The string that lies k bytes further.
LEMMA BehindIs ==
  ASSUME NEW S, NEW s \in Seq(S), NEW k \in 0 .. Len(s)
  PROVE  /\ Strs!Behind(s, k) \in Seq(S) /\ Len(Strs!Behind(s, k)) = Len(s) - k
         /\ \A j \in 1 .. Len(s) - k : Strs!Behind(s, k)[j] = s[k + j]
<1>1. k + 1 \in 1 .. Len(s) + 1 /\ Len(s) \in Nat
  OBVIOUS
<1>2. Strs!Behind(s, k) = SubSeq(s, k + 1, Len(s))
  BY DEF Strs!Behind
<1>3. Len(SubSeq(s, k + 1, Len(s))) = Len(s) - k
  BY <1>1
<1>4. \A j \in 1 .. Len(s) - k : SubSeq(s, k + 1, Len(s))[j] = s[k + j]
  BY <1>1
<1>5. SubSeq(s, k + 1, Len(s)) \in Seq(S)
  BY <1>1
<1> QED
  BY <1>2, <1>3, <1>4, <1>5

\* Where two strings part.
Parted(l, r, k) ==
  /\ k \in 0 .. Len(l) /\ k <= Len(r) /\ \A j \in 1 .. k : l[j] = r[j]
  /\ k = Len(l) \/ k = Len(r) \/ l[k + 1] # r[k + 1]

\* Any two strings part, where one ends at the latest.
LEMMA SomewhereParted ==
  ASSUME NEW l \in Seq(Chars), NEW r \in Seq(Chars)
  PROVE  \E k : Parted(l, r, k)
<1> DEFINE parting == {k \in 0 .. Len(l) : k = Len(l) \/ k = Len(r) \/ l[k + 1] # r[k + 1]}
<1>1. parting \in SUBSET Nat /\ Len(l) \in parting /\ Len(l) \in Nat /\ Len(r) \in Nat
  OBVIOUS
<1>2. PICK k \in parting : \A j \in parting : k <= j
  BY <1>1, Least
<1>3. ASSUME NEW j \in 1 .. k PROVE l[j] = r[j]
  <2>1. j - 1 \in 0 .. Len(l) /\ ~(k <= j - 1) /\ (j - 1) + 1 = j
    BY <1>1
  <2>2. j - 1 \notin parting
    BY <1>2, <2>1
  <2> QED
    BY <2>1, <2>2
<1>4. k <= Len(r)
  <2>1. ~(Len(r) < k)
    <3> SUFFICES ASSUME Len(r) < k PROVE FALSE
      OBVIOUS
    <3>1. Len(r) \in parting
      BY <1>1
    <3> QED
      BY <1>1, <1>2, <3>1
  <2> QED
    BY <1>1, <2>1
<1> QED
  BY <1>3, <1>4 DEF Parted

\* At that place the loops that compare stop, and not before.
LEMMA PartedBytes ==
  ASSUME NEW l \in Seq(Chars), NEW r \in Seq(Chars), NEW k, Parted(l, r, k)
  PROVE  /\ k \in 0 .. Len(l) /\ k \in 0 .. Len(r)
         /\ Strs!CStr(l)[k] = 0 \/ Strs!CStr(l)[k] # Strs!CStr(r)[k]
         /\ \A j \in 0 .. k - 1 : Strs!CStr(l)[j] # 0 /\ Strs!CStr(l)[j] = Strs!CStr(r)[j]
<1>1. Len(l) \in Nat /\ Len(r) \in Nat /\ k \in 0 .. Len(l) /\ k \in 0 .. Len(r)
  BY DEF Parted
<1>2. Strs!CStr(l)[k] = 0 \/ Strs!CStr(l)[k] # Strs!CStr(r)[k]
  <2>1. CASE k = Len(l)
    BY <2>1, CStrIs
  <2>2. CASE k # Len(l) /\ k = Len(r)
    BY <1>1, <2>2, CStrIs
  <2>3. CASE k # Len(l) /\ k # Len(r)
    <3>1. k \in 0 .. Len(l) - 1 /\ k \in 0 .. Len(r) - 1 /\ l[k + 1] # r[k + 1]
      BY <1>1, <2>3 DEF Parted
    <3> QED
      BY <3>1, CStrIs
  <2> QED
    BY <2>1, <2>2, <2>3
<1>3. ASSUME NEW j \in 0 .. k - 1
      PROVE  Strs!CStr(l)[j] # 0 /\ Strs!CStr(l)[j] = Strs!CStr(r)[j]
  <2>1. j \in 0 .. Len(l) - 1 /\ j \in 0 .. Len(r) - 1 /\ j + 1 \in 1 .. k
    BY <1>1
  <2>2. l[j + 1] = r[j + 1]
    BY <2>1 DEF Parted
  <2>3. Strs!CStr(l)[j] = l[j + 1] /\ Strs!CStr(r)[j] = r[j + 1] /\ l[j + 1] \in Chars
    BY <2>1, CStrIs
  <2>4. PICK c \in 1 .. 255 : c = l[j + 1]
    BY <2>3 DEF Chars
  <2>5. c # 0
    OBVIOUS
  <2> QED
    BY <2>2, <2>3, <2>4, <2>5
<1> QED
  BY <1>1, <1>2, <1>3

\* strcmp returns the difference of the bytes where the strings part.
LEMMA strcmpIs ==
  ASSUME NEW l \in Seq(Chars), NEW r \in Seq(Chars), NEW k, Parted(l, r, k)
  PROVE  Strs!strcmp(l, r) = Strs!CStr(l)[k] - Strs!CStr(r)[k]
<1>1. PICK n \in Nat : n = Len(l)
  OBVIOUS
<1> DEFINE Stops(i) == Strs!CStr(l)[i] = Strs!NUL \/ Strs!CStr(l)[i] # Strs!CStr(r)[i]
           Turn(g, i) == IF Stops(i) THEN Strs!CStr(l)[i] - Strs!CStr(r)[i] ELSE g[i + 1]
           differ[i \in 0 .. Len(l)] == Turn(differ, i)
           stop == {i \in 0 .. n : Stops(i)}
           val == [i \in 0 .. n |-> Strs!CStr(l)[i] - Strs!CStr(r)[i]]
<1>2. Strs!strcmp(l, r) = differ[0]
  BY DEF Strs!strcmp
<1>3. differ = CHOOSE g : g = [i \in 0 .. n |-> Turn(g, i)]
  BY <1>1
<1>4. ASSUME NEW g, NEW i \in 0 .. n
      PROVE  Turn(g, i) = IF i \in stop THEN val[i] ELSE g[i + 1]
  OBVIOUS
<1>5. n \in stop /\ stop \in SUBSET (0 .. n)
  BY <1>1, CStrIs DEF Strs!NUL
<1>6. k \in stop /\ k \in 0 .. n /\ 0 <= k /\ \A j \in 0 .. k - 1 : j \notin stop
  BY <1>1, PartedBytes DEF Strs!NUL
<1>7. val[k] = Strs!CStr(l)[k] - Strs!CStr(r)[k]
  BY <1>6
<1> HIDE DEF differ, Turn, stop, val
<1>8. \E w : Searches(w, n, stop, val)
  BY <1>5, SearchExists
<1>9. \E w : w = [i \in 0 .. n |-> Turn(w, i)]
  BY <1>4, <1>8 DEF Searches
<1>10. differ = [i \in 0 .. n |-> Turn(differ, i)]
  BY <1>3, <1>9, Zenon
<1>11. Searches(differ, n, stop, val)
  BY <1>4, <1>10 DEF Searches
<1>12. differ[0] = val[k]
  <2>1. StopsAt(differ, n, stop, val, k)
    BY <1>1, <1>5, <1>6, <1>11 DEF StopsAt
  <2> QED
    BY <2>1, FirstFound
<1> QED
  BY <1>2, <1>7, <1>12

\* So does strncmp, unless the strings part behind the bytes it looks at.
LEMMA strncmpIs ==
  ASSUME NEW l \in Seq(Chars), NEW r \in Seq(Chars), NEW k, Parted(l, r, k), NEW c \in Nat
  PROVE  Strs!strncmp(l, r, c) = IF c <= k THEN 0 ELSE Strs!CStr(l)[k] - Strs!CStr(r)[k]
<1>1. PICK n \in Nat : n = Len(l)
  OBVIOUS
<1> DEFINE looked == IF c >= 4 THEN 4 * Strs!Rounds(c) + (c % 4) ELSE c
           Parts(i) == Strs!CStr(l)[i] = Strs!NUL \/ Strs!CStr(l)[i] # Strs!CStr(r)[i]
           Turn(g, i) == IF i >= looked THEN 0
                         ELSE IF Parts(i) THEN Strs!CStr(l)[i] - Strs!CStr(r)[i] ELSE g[i + 1]
           differ[i \in 0 .. Len(l)] == Turn(differ, i)
           stop == {i \in 0 .. n : i >= c \/ Parts(i)}
           val == [i \in 0 .. n |-> IF i >= c THEN 0 ELSE Strs!CStr(l)[i] - Strs!CStr(r)[i]]
           end == IF c <= k THEN c ELSE k
<1>2. Strs!strncmp(l, r, c) = differ[0]
  BY DEF Strs!strncmp
<1>3. differ = CHOOSE g : g = [i \in 0 .. n |-> Turn(g, i)]
  BY <1>1
<1>4. looked = c
  BY DEF Strs!Rounds
<1> HIDE DEF looked
<1>5. ASSUME NEW g, NEW i \in 0 .. n
      PROVE  Turn(g, i) = IF i \in stop THEN val[i] ELSE g[i + 1]
  <2>1. Turn(g, i) = IF i >= c \/ Parts(i) THEN val[i] ELSE g[i + 1]
    BY <1>4
  <2> QED
    BY <2>1
<1>6. n \in stop /\ stop \in SUBSET (0 .. n)
  BY <1>1, CStrIs DEF Strs!NUL
<1>7. k \in 0 .. n /\ Parts(k) /\ \A j \in 0 .. k - 1 : ~Parts(j)
  BY <1>1, PartedBytes DEF Strs!NUL
<1>8. end \in stop /\ 0 <= end /\ \A j \in 0 .. end - 1 : j \notin stop
  BY <1>7
<1>9. val[end] = IF c <= k THEN 0 ELSE Strs!CStr(l)[k] - Strs!CStr(r)[k]
  BY <1>7
<1> HIDE DEF differ, Turn, stop, val, end
<1>10. \E w : Searches(w, n, stop, val)
  BY <1>6, SearchExists
<1>11. \E w : w = [i \in 0 .. n |-> Turn(w, i)]
  BY <1>5, <1>10 DEF Searches
<1>12. differ = [i \in 0 .. n |-> Turn(differ, i)]
  BY <1>3, <1>11, Zenon
<1>13. Searches(differ, n, stop, val)
  BY <1>5, <1>12 DEF Searches
<1>14. differ[0] = val[end]
  <2>1. StopsAt(differ, n, stop, val, end)
    BY <1>1, <1>6, <1>8, <1>13 DEF StopsAt
  <2> QED
    BY <2>1, FirstFound
<1> QED
  BY <1>2, <1>9, <1>14

\* Where a byte is first, or the NUL when there is none.
FirstByte(s, c, k) ==
  /\ k \in 0 .. Len(s) /\ \A j \in 0 .. k - 1 : Strs!CStr(s)[j] # c
  /\ k = Len(s) \/ Strs!CStr(s)[k] = c

\* Each byte has a first place, or the string ends.
LEMMA SomewhereFirst ==
  ASSUME NEW s \in Seq(Chars), NEW c
  PROVE  \E k : FirstByte(s, c, k)
<1>1. PICK n \in Nat : n = Len(s)
  OBVIOUS
<1> DEFINE stop == {i \in 0 .. n : i = n \/ Strs!CStr(s)[i] = c}
<1>2. n \in stop /\ stop \in SUBSET (0 .. n)
  OBVIOUS
<1>3. PICK j \in stop : 0 <= j /\ \A k \in 0 .. j - 1 : k \notin stop
  <2>1. 0 \in 0 .. n
    OBVIOUS
  <2> HIDE DEF stop
  <2> QED
    BY <1>2, <2>1, FirstStop
<1>4. \A k \in 0 .. j - 1 : k \in 0 .. n
  BY <1>2
<1> QED
  BY <1>1, <1>3, <1>4 DEF FirstByte

\* strfindchr returns that place, or None.
LEMMA strfindchrIs ==
  ASSUME NEW s \in Seq(Chars), NEW c, NEW k, FirstByte(s, c, k)
  PROVE  Strs!strfindchr(s, c) = IF Strs!CStr(s)[k] = c THEN k ELSE -1
<1>1. PICK n \in Nat : n = Len(s)
  OBVIOUS
<1> DEFINE Turn(g, i) == IF Strs!CStr(s)[i] = c THEN i
                         ELSE IF Strs!CStr(s)[i] = Strs!NUL THEN Strs!None ELSE g[i + 1]
           find[i \in 0 .. Len(s)] == Turn(find, i)
           stop == {i \in 0 .. n : Strs!CStr(s)[i] = c \/ Strs!CStr(s)[i] = 0}
           val == [i \in 0 .. n |-> IF Strs!CStr(s)[i] = c THEN i ELSE -1]
<1>2. Strs!strfindchr(s, c) = find[0]
  BY DEF Strs!strfindchr
<1>3. find = CHOOSE g : g = [i \in 0 .. n |-> Turn(g, i)]
  BY <1>1
<1>4. ASSUME NEW g, NEW i \in 0 .. n
      PROVE  Turn(g, i) = IF i \in stop THEN val[i] ELSE g[i + 1]
  BY DEF Strs!NUL, Strs!None
<1>5. n \in stop /\ stop \in SUBSET (0 .. n)
  BY <1>1, CStrIs
<1>6. k \in stop /\ k \in 0 .. n /\ 0 <= k /\ \A j \in 0 .. k - 1 : j \notin stop
  BY <1>1, CStrIs DEF FirstByte
<1>7. val[k] = IF Strs!CStr(s)[k] = c THEN k ELSE -1
  BY <1>6
<1> HIDE DEF find, Turn, stop, val
<1>8. \E w : Searches(w, n, stop, val)
  BY <1>5, SearchExists
<1>9. \E w : w = [i \in 0 .. n |-> Turn(w, i)]
  BY <1>4, <1>8 DEF Searches
<1>10. find = [i \in 0 .. n |-> Turn(find, i)]
  BY <1>3, <1>9, Zenon
<1>11. Searches(find, n, stop, val)
  BY <1>4, <1>10 DEF Searches
<1>12. find[0] = val[k]
  <2>1. StopsAt(find, n, stop, val, k)
    BY <1>1, <1>5, <1>6, <1>11 DEF StopsAt
  <2> QED
    BY <2>1, FirstFound
<1> QED
  BY <1>2, <1>7, <1>12

\* strlen is the length, and strcpy leaves a string that is its argument.
LEMMA strlenIs ==
  ASSUME NEW s \in Seq(Chars)
  PROVE  Strs!strlen(s) = Len(s) /\ Strs!strcpy(s) = s
<1>1. PICK n \in Nat : n = Len(s)
  OBVIOUS
<1> DEFINE Turn(g, i) == IF Strs!CStr(s)[i] = Strs!NUL THEN i ELSE g[i + 1]
           len[i \in 0 .. Len(s)] == Turn(len, i)
           stop == {n}
           val == [i \in 0 .. n |-> i]
<1>2. Strs!strlen(s) = len[0]
  BY DEF Strs!strlen
<1>3. len = CHOOSE g : g = [i \in 0 .. n |-> Turn(g, i)]
  BY <1>1
<1>4. ASSUME NEW g, NEW i \in 0 .. n
      PROVE  Turn(g, i) = IF i \in stop THEN val[i] ELSE g[i + 1]
  BY <1>1, CStrIs DEF Strs!NUL
<1>5. /\ n \in stop /\ stop \in SUBSET (0 .. n) /\ val[n] = n
      /\ \A j \in 0 .. n - 1 : j \notin stop
  OBVIOUS
<1> HIDE DEF len, Turn, stop, val
<1>6. \E w : Searches(w, n, stop, val)
  BY <1>5, SearchExists
<1>7. \E w : w = [i \in 0 .. n |-> Turn(w, i)]
  BY <1>4, <1>6 DEF Searches
<1>8. len = [i \in 0 .. n |-> Turn(len, i)]
  BY <1>3, <1>7, Zenon
<1>9. Searches(len, n, stop, val)
  BY <1>4, <1>8 DEF Searches
<1>10. StopsAt(len, n, stop, val, n)
  BY <1>1, <1>5, <1>9 DEF StopsAt
<1>11. len[0] = val[n]
  BY <1>10, FirstFound
<1>12. Strs!strlen(s) = Len(s)
  BY <1>1, <1>2, <1>5, <1>11
<1>13. SubSeq(s, 1, Len(s)) = s
  OBVIOUS
<1> QED
  BY <1>12, <1>13 DEF Strs!strcpy

\* strchr finds what strfindchr finds.
LEMMA strchrIs ==
  ASSUME NEW s \in Seq(Chars), NEW c, NEW k, FirstByte(s, c, k)
  PROVE  Strs!strchr(s, c) = IF Strs!CStr(s)[k] = c THEN k ELSE -1
<1>1. Strs!strchr(s, c) = Strs!strfindchr(s, c)
  BY DEF Strs!strchr, Strs!strfindchr
<1> QED
  BY <1>1, strfindchrIs

\* The order of two strings is that of the bytes where they part.
LEMMA OrderIs ==
  ASSUME NEW l \in Seq(Chars), NEW r \in Seq(Chars), NEW k, Parted(l, r, k)
  PROVE  Strs!Sign(Strs!CStr(l)[k] - Strs!CStr(r)[k]) = Strs!Order(l, r)
<1>1. PICK m \in Nat, n \in Nat : m = Len(l) /\ n = Len(r)
  OBVIOUS
<1>2. /\ k \in 0 .. m /\ k \in 0 .. n /\ \A j \in 1 .. k : l[j] = r[j]
      /\ k = m \/ k = n \/ l[k + 1] # r[k + 1]
  BY <1>1 DEF Parted
<1>3. PICK a \in 0 .. 255, b \in 0 .. 255 : a = Strs!CStr(l)[k] /\ b = Strs!CStr(r)[k]
  BY <1>1, <1>2, CStrIs
<1>4. /\ k < m => a = l[k + 1] /\ a # 0
      /\ k < n => b = r[k + 1] /\ b # 0
      /\ k = m => a = 0
      /\ k = n => b = 0
  <2>1. k < m => k \in 0 .. m - 1
    BY <1>2
  <2>2. k < n => k \in 0 .. n - 1
    BY <1>2
  <2>3. /\ k \in 0 .. m - 1 => a = l[k + 1] /\ (a = 0 <=> k = m)
        /\ k = m => a = 0
    BY <1>1, <1>2, <1>3, CStrIs
  <2>4. /\ k \in 0 .. n - 1 => b = r[k + 1] /\ (b = 0 <=> k = n)
        /\ k = n => b = 0
    BY <1>1, <1>2, <1>3, CStrIs
  <2> QED
    BY <1>2, <2>1, <2>2, <2>3, <2>4
<1>5. \A i \in 1 .. m : l[i] \in 1 .. 255
  BY <1>1 DEF Chars
<1>6. ASSUME NEW i \in 1 .. m PROVE l[i] \in Int
  <2>1. PICK x \in 1 .. 255 : x = l[i]
    BY <1>5
  <2> QED
    BY <2>1
<1>7. ASSUME NEW i \in 1 .. m, i <= n, SubSeq(l, 1, i - 1) = SubSeq(r, 1, i - 1), i > k + 1
      PROVE  l[k + 1] = r[k + 1]
  <2>1. i - 1 \in 0 .. m /\ i - 1 \in 0 .. n /\ k + 1 \in 1 .. i - 1
    BY <1>2, <1>7
  <2>2. SubSeq(l, 1, i - 1)[k + 1] = l[k + 1] /\ SubSeq(r, 1, i - 1)[k + 1] = r[k + 1]
    BY <1>1, <2>1
  <2> QED
    BY <1>7, <2>2
<1>8. SubSeq(l, 1, k) = SubSeq(r, 1, k)
  <2>1. k \in 0 .. Len(l) /\ k \in 0 .. Len(r) /\ \A j \in 1 .. k : l[j] = r[j]
    BY <1>1, <1>2
  <2> QED
    BY <2>1
<1>9. CASE k = m /\ k = n
  <2>1. l = r
    <3>1. Len(l) = Len(r) /\ \A j \in 1 .. Len(l) : l[j] = r[j]
      BY <1>1, <1>2, <1>9
    <3> QED
      BY <3>1
  <2>2. \A i \in 1 .. Len(l) : ~(l[i] < r[i])
    BY <1>1, <1>6, <2>1
  <2>3. ~Strs!Before(l, r) /\ ~Strs!Before(r, l)
    BY <2>1, <2>2 DEF Strs!Before
  <2>4. a - b = 0
    BY <1>4, <1>9
  <2> QED
    BY <1>3, <2>3, <2>4 DEF Strs!Sign, Strs!Order
<1>10. CASE k = m /\ k < n
  <2>1. SubSeq(r, 1, m) = l
    <3>1. Len(SubSeq(r, 1, m)) = m /\ \A j \in 1 .. m : SubSeq(r, 1, m)[j] = l[j]
      BY <1>1, <1>2, <1>10
    <3>2. SubSeq(r, 1, m) \in Seq(Chars)
      BY <1>1, <1>2, <1>10
    <3> QED
      BY <1>1, <3>1, <3>2
  <2>2. Strs!Before(l, r)
    BY <1>1, <1>10, <2>1 DEF Strs!Before, Strs!IsPrefix
  <2>3. a - b < 0
    <3>1. a = 0 /\ b # 0
      BY <1>4, <1>10
    <3> QED
      BY <3>1
  <2> QED
    BY <1>3, <2>2, <2>3 DEF Strs!Sign, Strs!Order
<1>11. CASE k < m /\ k = n
  <2>1. SubSeq(l, 1, n) = r
    <3>1. Len(SubSeq(l, 1, n)) = n /\ \A j \in 1 .. n : SubSeq(l, 1, n)[j] = r[j]
      BY <1>1, <1>2, <1>11
    <3>2. SubSeq(l, 1, n) \in Seq(Chars)
      BY <1>1, <1>2, <1>11
    <3> QED
      BY <1>1, <3>1, <3>2
  <2>2. Strs!Before(r, l)
    BY <1>1, <1>11, <2>1 DEF Strs!Before, Strs!IsPrefix
  <2>3. ASSUME NEW i \in 1 .. m, i <= n
        PROVE  ~(l[i] < r[i])
    <3>1. l[i] = r[i] /\ l[i] \in Int
      BY <1>2, <1>6, <1>11, <2>3
    <3> QED
      BY <3>1
  <2>4. ~Strs!Before(l, r)
    BY <1>1, <1>11, <2>3 DEF Strs!Before, Strs!IsPrefix
  <2>5. a - b > 0
    <3>1. a # 0 /\ b = 0
      BY <1>4, <1>11
    <3> QED
      BY <3>1
  <2> QED
    BY <1>3, <2>2, <2>4, <2>5 DEF Strs!Sign, Strs!Order
<1>12. CASE k < m /\ k < n
  <2>1. a = l[k + 1] /\ b = r[k + 1] /\ a # b /\ k + 1 \in 1 .. m /\ k + 1 \in 1 .. n
        /\ (k + 1) - 1 = k
    BY <1>2, <1>4, <1>12
  <2>2. CASE a < b
    <3>1. Strs!Before(l, r)
      BY <1>1, <1>8, <2>1, <2>2 DEF Strs!Before
    <3> QED
      BY <1>3, <2>2, <3>1 DEF Strs!Sign, Strs!Order
  <2>3. CASE b < a
    <3>1. Strs!Before(r, l)
      BY <1>1, <1>8, <2>1, <2>3 DEF Strs!Before
    <3>2. ASSUME NEW i \in 1 .. m, i <= n, l[i] < r[i],
                 SubSeq(l, 1, i - 1) = SubSeq(r, 1, i - 1)
          PROVE  FALSE
      <4>1. CASE i \in 1 .. k
        <5>1. l[i] = r[i] /\ l[i] \in Int
          BY <1>2, <1>6, <2>1, <4>1
        <5> QED
          BY <3>2, <5>1
      <4>2. CASE i = k + 1
        BY <2>1, <2>3, <3>2, <4>2
      <4>3. CASE i > k + 1
        BY <1>7, <2>1, <3>2, <4>3
      <4> QED
        BY <1>2, <4>1, <4>2, <4>3
    <3>3. ~Strs!IsPrefix(l, r)
      <4> SUFFICES ASSUME Strs!IsPrefix(l, r) PROVE FALSE
        OBVIOUS
      <4>1. m <= n /\ SubSeq(r, 1, m) = l
        BY <1>1 DEF Strs!IsPrefix
      <4>2. SubSeq(r, 1, m)[k + 1] = r[k + 1]
        BY <1>1, <2>1, <4>1
      <4> QED
        BY <2>1, <4>1, <4>2
    <3>4. ~Strs!Before(l, r)
      BY <1>1, <3>2, <3>3 DEF Strs!Before
    <3>5. a - b > 0
      BY <2>3
    <3> QED
      BY <1>3, <3>1, <3>4, <3>5 DEF Strs!Sign, Strs!Order
  <2> QED
    BY <2>1, <2>2, <2>3
<1> QED
  BY <1>2, <1>9, <1>10, <1>11, <1>12

\* The first c bytes of a string.
LEMMA TruncatedIs ==
  ASSUME NEW s \in Seq(Chars), NEW c \in Nat
  PROVE  /\ Strs!Truncated(s, c) \in Seq(Chars)
         /\ Len(Strs!Truncated(s, c)) = IF c < Len(s) THEN c ELSE Len(s)
         /\ \A j \in 1 .. Len(Strs!Truncated(s, c)) : Strs!Truncated(s, c)[j] = s[j]
<1>1. CASE c < Len(s)
  <2>1. /\ SubSeq(s, 1, c) \in Seq(Chars) /\ Len(SubSeq(s, 1, c)) = c
        /\ \A j \in 1 .. c : SubSeq(s, 1, c)[j] = s[j]
    BY <1>1
  <2> QED
    BY <1>1, <2>1 DEF Strs!Truncated
<1>2. CASE ~(c < Len(s))
  BY <1>2 DEF Strs!Truncated
<1> QED
  BY <1>1, <1>2

\* A comparison looks at the first c bytes only.
LEMMA TruncatedPart ==
  ASSUME NEW l \in Seq(Chars), NEW r \in Seq(Chars), NEW k, Parted(l, r, k), NEW c \in Nat
  PROVE  Strs!Sign(IF c <= k THEN 0 ELSE Strs!CStr(l)[k] - Strs!CStr(r)[k])
         = Strs!Order(Strs!Truncated(l, c), Strs!Truncated(r, c))
<1> DEFINE tl == Strs!Truncated(l, c)
           tr == Strs!Truncated(r, c)
<1>1. PICK m \in Nat, n \in Nat : m = Len(l) /\ n = Len(r)
  OBVIOUS
<1>2. /\ k \in 0 .. m /\ k \in 0 .. n /\ \A j \in 1 .. k : l[j] = r[j]
      /\ k = m \/ k = n \/ l[k + 1] # r[k + 1]
  BY <1>1 DEF Parted
<1>3. /\ tl \in Seq(Chars) /\ tr \in Seq(Chars)
      /\ Len(tl) = (IF c < m THEN c ELSE m) /\ Len(tr) = (IF c < n THEN c ELSE n)
      /\ \A j \in 1 .. Len(tl) : tl[j] = l[j]
      /\ \A j \in 1 .. Len(tr) : tr[j] = r[j]
  BY <1>1, TruncatedIs
<1> HIDE DEF tl, tr
<1>4. CASE c <= k
  <2>1. Len(tl) = c /\ Len(tr) = c
    BY <1>2, <1>3, <1>4
  <2>2. Parted(tl, tr, c)
    BY <1>2, <1>3, <1>4, <2>1 DEF Parted
  <2>3. Strs!CStr(tl)[c] = 0 /\ Strs!CStr(tr)[c] = 0
    BY <1>3, <2>1, CStrIs
  <2>4. Strs!Sign(0 - 0) = Strs!Order(tl, tr)
    BY <1>3, <2>2, <2>3, OrderIs
  <2> QED
    BY <1>4, <2>4 DEF tl, tr
<1>5. CASE k < c
  <2>1. PICK x \in Nat, y \in Nat : x = Len(tl) /\ y = Len(tr)
    BY <1>3
  <2>2. /\ k \in 0 .. x /\ k \in 0 .. y /\ (k = x <=> k = m) /\ (k = y <=> k = n)
    BY <1>2, <1>3, <1>5, <2>1
  <2>3. (k < x => tl[k + 1] = l[k + 1]) /\ (k < y => tr[k + 1] = r[k + 1])
    <3>1. (k < x => k + 1 \in 1 .. x) /\ (k < y => k + 1 \in 1 .. y)
      BY <2>2
    <3> QED
      BY <1>3, <2>1, <3>1
  <2>4. \A j \in 1 .. k : tl[j] = tr[j]
    BY <1>2, <1>3, <2>1, <2>2
  <2>5. Parted(tl, tr, k)
    BY <1>2, <2>1, <2>2, <2>3, <2>4 DEF Parted
  <2>6. Strs!CStr(tl)[k] = Strs!CStr(l)[k]
    <3>1. CASE k = m
      BY <1>1, <1>3, <2>1, <2>2, <3>1, CStrIs
    <3>2. CASE k # m
      <4>1. k \in 0 .. m - 1 /\ k \in 0 .. x - 1 /\ k < x
        BY <1>2, <2>2, <3>2
      <4> QED
        BY <1>1, <1>3, <2>1, <2>3, <4>1, CStrIs
    <3> QED
      BY <3>1, <3>2
  <2>7. Strs!CStr(tr)[k] = Strs!CStr(r)[k]
    <3>1. CASE k = n
      BY <1>1, <1>3, <2>1, <2>2, <3>1, CStrIs
    <3>2. CASE k # n
      <4>1. k \in 0 .. n - 1 /\ k \in 0 .. y - 1 /\ k < y
        BY <1>2, <2>2, <3>2
      <4> QED
        BY <1>1, <1>3, <2>1, <2>3, <4>1, CStrIs
    <3> QED
      BY <3>1, <3>2
  <2>8. Strs!Sign(Strs!CStr(tl)[k] - Strs!CStr(tr)[k]) = Strs!Order(tl, tr)
    BY <1>3, <2>5, OrderIs
  <2>9. ~(c <= k)
    BY <1>2, <1>5
  <2> QED
    BY <2>6, <2>7, <2>8, <2>9 DEF tl, tr
<1> QED
  BY <1>2, <1>4, <1>5

----------------------------------------------------------------------------
(* Numbers *)

\* The width of an int and of a long.
LEMMA HalfType == Half \in Nat \ {0} /\ Word \in Nat \ {0}
BY LibraryAssumption DEF StringConstants

\* Wrap takes a number into the range of an int, by whole turns.
LEMMA WrapIs ==
  ASSUME NEW x \in Int
  PROVE  /\ Strs!Wrap(x) \in -Half .. Half - 1
         /\ \E a \in Int : Strs!Wrap(x) = x + a * (2 * Half)
<1>1. PICK h \in Nat \ {0}, M \in Nat \ {0} : h = Half /\ M = 2 * Half /\ M = 2 * h
  BY HalfType
<1>2. PICK y \in Int : y = x + h
  OBVIOUS
<1>3. y % M \in 0 .. M - 1 /\ y = M * (y \div M) + (y % M) /\ y \div M \in Int
  OBVIOUS
<1>4. PICK q \in Int, r \in 0 .. M - 1 : y = M * q + r /\ r = y % M
  BY <1>3
<1>5. Strs!Wrap(x) = r - h
  BY <1>1, <1>2, <1>4 DEF Strs!Wrap
<1>6. PICK b \in Int : b = M * q
  OBVIOUS
<1>7. (0 - q) * M = 0 - b
  BY <1>6
<1>8. r - h = x + (0 - q) * M
  BY <1>2, <1>4, <1>6, <1>7
<1>9. 0 - q \in Int
  OBVIOUS
<1>10. r - h \in -h .. h - 1
  BY <1>1
<1> QED
  BY <1>1, <1>5, <1>8, <1>9, <1>10

\* Two numbers of that range that are whole turns apart are one.
LEMMA WrapOne ==
  ASSUME NEW x \in -Half .. Half - 1, NEW y \in -Half .. Half - 1, NEW a \in Int,
         x = y + a * (2 * Half)
  PROVE  x = y
<1>1. PICK h \in Nat \ {0}, M \in Nat \ {0} : h = Half /\ M = 2 * Half /\ M = 2 * h
  BY HalfType
<1>2. PICK d \in Int : d = a * M
  OBVIOUS
<1>3. x = y + d /\ x \in Int /\ y \in Int /\ -M < d /\ d < M
  BY <1>1, <1>2
<1>4. CASE a >= 1
  <2>1. a * M >= 1 * M
    BY <1>4
  <2> QED
    BY <1>2, <1>3, <2>1
<1>5. CASE a <= -1
  <2>1. a * M <= (-1) * M
    BY <1>5
  <2> QED
    BY <1>2, <1>3, <2>1
<1>6. CASE a = 0
  BY <1>2, <1>3, <1>6
<1> QED
  BY <1>4, <1>5, <1>6

\* Horner's rule for the first digits, and for the last i the powers and the sum of atoi.
Powers(l, p) == \A i \in 0 .. l : p[i] = IF i = 0 THEN 1 ELSE Strs!Wrap(p[i - 1] * 10)

Sums(l, dig, p, r) ==
  \A i \in 0 .. l : r[i] = IF i = 0 THEN 0 ELSE Strs!Wrap(r[i - 1] + p[i - 1] * dig[l - i])

ValuesFit(l, dig, v) == \A k \in 0 .. l : v[k] = IF k = 0 THEN 0 ELSE 10 * v[k - 1] + dig[k - 1]

SumsUpTo(l, p, r, v, i) ==
  /\ p[i] \in Int /\ r[i] \in -Half .. Half - 1
  /\ \E z \in Int : v[l - i] * p[i] + r[i] = v[l] + z * (2 * Half)

\* The sum stays right, whole turns apart, when the next digit is added.
LEMMA OneDigit ==
  ASSUME NEW l \in Nat, NEW dig \in [0 .. l - 1 -> Int], NEW p, NEW r, NEW v \in [0 .. l -> Int],
         Powers(l, p), Sums(l, dig, p, r), ValuesFit(l, dig, v),
         NEW i \in 0 .. l - 1, SumsUpTo(l, p, r, v, i)
  PROVE  SumsUpTo(l, p, r, v, i + 1)
<1>1. PICK M \in Int : M = 2 * Half
  BY HalfType
<1>2. PICK x \in Int, y \in Int, z \in Int, W \in Int :
        x = p[i] /\ y = r[i] /\ W = v[l] /\ v[l - i] * x + y = W + z * M
  <2>1. p[i] \in Int /\ r[i] \in Int /\ v[l] \in Int
    BY HalfType DEF SumsUpTo
  <2>2. PICK z \in Int : v[l - i] * p[i] + r[i] = v[l] + z * M
    BY <1>1 DEF SumsUpTo
  <2> QED
    BY <2>1, <2>2
<1>3. PICK u \in Int, g \in Int : u = v[l - (i + 1)] /\ g = dig[l - (i + 1)]
  <2>1. l - (i + 1) \in 0 .. l - 1 /\ l - (i + 1) \in 0 .. l
    OBVIOUS
  <2> QED
    BY <2>1
<1>4. v[l - i] = 10 * u + g
  <2>1. l - i \in 0 .. l /\ l - i # 0 /\ (l - i) - 1 = l - (i + 1)
    OBVIOUS
  <2> QED
    BY <1>3, <2>1 DEF ValuesFit
<1>5. PICK a \in Int : p[i + 1] = x * 10 + a * M
  <2>1. p[i + 1] = Strs!Wrap(x * 10)
    <3>1. i + 1 \in 0 .. l /\ i + 1 # 0 /\ (i + 1) - 1 = i
      OBVIOUS
    <3> QED
      BY <1>2, <3>1 DEF Powers
  <2>2. x * 10 \in Int
    OBVIOUS
  <2> QED
    BY <1>1, <2>1, <2>2, WrapIs
<1>6. PICK b \in Int : r[i + 1] = (y + x * g) + b * M /\ r[i + 1] \in -Half .. Half - 1
  <2>1. r[i + 1] = Strs!Wrap(y + x * g)
    <3>1. i + 1 \in 0 .. l /\ i + 1 # 0 /\ (i + 1) - 1 = i
      OBVIOUS
    <3> QED
      BY <1>2, <1>3, <3>1 DEF Sums
  <2>2. y + x * g \in Int
    OBVIOUS
  <2> QED
    BY <1>1, <2>1, <2>2, WrapIs
<1>7. PICK ux \in Int, gx \in Int, uaM \in Int, zM \in Int, bM \in Int :
        /\ ux = u * x /\ gx = x * g /\ uaM = (u * a) * M /\ zM = z * M /\ bM = b * M
  OBVIOUS
<1>8. (10 * u + g) * x = 10 * ux + gx
  BY <1>7
<1>9. u * (x * 10 + a * M) = 10 * ux + uaM
  BY <1>7
<1>10. (z + u * a + b) * M = zM + uaM + bM
  BY <1>7
<1>11. 10 * ux + gx + y = W + zM
  BY <1>2, <1>4, <1>7, <1>8
<1>12. u * p[i + 1] + r[i + 1] = W + (z + u * a + b) * M
  BY <1>5, <1>6, <1>7, <1>9, <1>10, <1>11
<1>13. z + u * a + b \in Int /\ p[i + 1] \in Int
  BY <1>5
<1> QED
  BY <1>1, <1>2, <1>3, <1>6, <1>12, <1>13 DEF SumsUpTo

\* The same number, whole turns apart.
Wrapped(x, y) == x \in -Half .. Half - 1 /\ \E z \in Int : x = y + z * (2 * Half)

\* What the loops of atoi are given, and what they are to sum up to.
Summing(l, dig, p, r, v) ==
  /\ l \in Nat /\ dig \in [0 .. l - 1 -> Int] /\ v \in [0 .. l -> Int]
  /\ Powers(l, p) /\ Sums(l, dig, p, r) /\ ValuesFit(l, dig, v)

\* The digits summed from the last to the first are the number, whole turns apart.
LEMMA DigitsSummed ==
  ASSUME NEW l, NEW dig, NEW p, NEW r, NEW v, Summing(l, dig, p, r, v)
  PROVE  Wrapped(r[l], v[l])
<1> DEFINE bad == {i \in 0 .. l : ~SumsUpTo(l, p, r, v, i)}
<1>1. /\ l \in Nat /\ dig \in [0 .. l - 1 -> Int] /\ v \in [0 .. l -> Int]
      /\ Powers(l, p) /\ Sums(l, dig, p, r) /\ ValuesFit(l, dig, v)
  BY DEF Summing
<1>2. SumsUpTo(l, p, r, v, 0)
  <2>1. p[0] = 1 /\ r[0] = 0 /\ 0 \in 0 .. l /\ l - 0 = l /\ v[l] \in Int
    BY <1>1 DEF Powers, Sums
  <2>2. v[l - 0] * p[0] + r[0] = v[l] + 0 * (2 * Half)
    BY <2>1, HalfType
  <2>3. 0 \in -Half .. Half - 1
    BY HalfType
  <2> QED
    BY <2>1, <2>2, <2>3 DEF SumsUpTo
<1>3. bad = {}
  <2> SUFFICES ASSUME bad # {} PROVE FALSE
    OBVIOUS
  <2>1. bad \in SUBSET Nat
    BY <1>1
  <2>2. PICK m \in bad : \A k \in bad : m <= k
    BY <2>1, Least
  <2>3. m \in 0 .. l /\ m # 0
    BY <1>2
  <2>4. m - 1 \in 0 .. l - 1 /\ m - 1 \in 0 .. l /\ ~(m <= m - 1) /\ (m - 1) + 1 = m
    BY <1>1, <2>3
  <2>5. SumsUpTo(l, p, r, v, m - 1)
    BY <2>2, <2>4
  <2>6. SumsUpTo(l, p, r, v, (m - 1) + 1)
    BY <1>1, <2>4, <2>5, OneDigit
  <2> QED
    BY <2>4, <2>6
<1>4. SumsUpTo(l, p, r, v, l)
  <2>1. l \in 0 .. l
    BY <1>1
  <2> HIDE DEF SumsUpTo
  <2> QED
    BY <1>3, <2>1
<1>5. p[l] \in Int /\ v[0] = 0 /\ l - l = 0 /\ r[l] \in Int
  BY <1>1, <1>4, HalfType DEF SumsUpTo, ValuesFit
<1>6. v[l - l] * p[l] + r[l] = r[l]
  BY <1>5
<1>7. /\ r[l] \in -Half .. Half - 1
      /\ \E z \in Int : r[l] = v[l] + z * (2 * Half)
  BY <1>4, <1>6 DEF SumsUpTo
<1> QED
  BY <1>7 DEF Wrapped

\* The sign, and the digits behind it.
SignOf(s) == IF s # <<>> /\ s[1] = 45 THEN 1 ELSE 0

DigitsOf(s, l) ==
  /\ l \in 0 .. Len(s) - SignOf(s)
  /\ \A j \in 0 .. l - 1 : s[SignOf(s) + j + 1] \in 48 .. 57
  /\ l = Len(s) - SignOf(s) \/ s[SignOf(s) + l + 1] \notin 48 .. 57

\* A string has a sign or not, and a number of digits behind it.
LEMMA SomeDigits ==
  ASSUME NEW s \in Seq(Chars)
  PROVE  SignOf(s) \in {0, 1} /\ SignOf(s) <= Len(s) /\ \E l : DigitsOf(s, l)
<1>1. SignOf(s) \in {0, 1} /\ SignOf(s) <= Len(s) /\ Len(s) \in Nat
  BY DEF SignOf
<1>2. PICK g \in Nat, n \in Nat : g = SignOf(s) /\ n = Len(s) - SignOf(s)
  BY <1>1
<1> DEFINE ends == {j \in 0 .. n : j = n \/ s[g + j + 1] \notin 48 .. 57}
<1>3. ends \in SUBSET (0 .. n) /\ n \in ends /\ 0 \in 0 .. n
  OBVIOUS
<1>4. PICK l \in ends : 0 <= l /\ \A j \in 0 .. l - 1 : j \notin ends
  <2> HIDE DEF ends
  <2> QED
    BY <1>3, FirstStop
<1>5. \A j \in 0 .. l - 1 : s[g + j + 1] \in 48 .. 57
  <2>1. \A j \in 0 .. l - 1 : j \in 0 .. n
    BY <1>3
  <2> QED
    BY <1>4, <2>1
<1>6. DigitsOf(s, l)
  BY <1>2, <1>5 DEF DigitsOf
<1> QED
  BY <1>1, <1>6

\* What Number reads.
LEMMA NumberIs ==
  ASSUME NEW s \in Seq(Chars), NEW l, DigitsOf(s, l)
  PROVE  \E v \in [0 .. l -> Int] :
           /\ ValuesFit(l, [j \in 0 .. l - 1 |-> s[SignOf(s) + j + 1] - 48], v)
           /\ Strs!Number(s) = IF SignOf(s) = 1 THEN -v[l] ELSE v[l]
<1> DEFINE sign == IF s # <<>> /\ s[1] = Strs!Minus THEN 1 ELSE 0
           numeric(k) == \A j \in sign + 1 .. k : s[j] \in Strs!Digits
           end == CHOOSE k \in sign .. Len(s) : numeric(k) /\ ~(k < Len(s) /\ numeric(k + 1))
           Turn(g, k) == IF k = sign THEN 0 ELSE 10 * g[k - 1] + s[k] - 48
           value[k \in sign .. end] == Turn(value, k)
           dig == [j \in 0 .. l - 1 |-> s[SignOf(s) + j + 1] - 48]
<1>1. Strs!Number(s) = IF sign = 1 THEN -value[end] ELSE value[end]
  BY DEF Strs!Number
<1>2. sign = SignOf(s) /\ sign \in {0, 1} /\ sign <= Len(s) /\ Len(s) \in Nat
  BY SomeDigits DEF SignOf, Strs!Minus
<1>3. value = CHOOSE f : f = [k \in sign .. end |-> Turn(f, k)]
  OBVIOUS
<1>4. PICK g \in {0, 1}, n \in Nat : g = sign /\ n = Len(s) /\ g <= n
  BY <1>2
<1>5. /\ l \in 0 .. n - g
      /\ \A j \in 0 .. l - 1 : s[g + j + 1] \in 48 .. 57
      /\ l = n - g \/ s[g + l + 1] \notin 48 .. 57
  BY <1>2, <1>4 DEF DigitsOf
<1>6. \A j \in 1 .. n : s[j] \in Int
  <2> SUFFICES ASSUME NEW j \in 1 .. n PROVE s[j] \in Int
    OBVIOUS
  <2>1. s[j] \in Chars
    BY <1>4
  <2>2. PICK x \in 1 .. 255 : x = s[j]
    BY <2>1 DEF Chars
  <2> QED
    BY <2>2
<1>7. end = g + l
  <2>1. \A j \in g + 1 .. g + l : s[j] \in 48 .. 57
    <3> SUFFICES ASSUME NEW j \in g + 1 .. g + l PROVE s[j] \in 48 .. 57
      OBVIOUS
    <3>1. j - g - 1 \in 0 .. l - 1 /\ g + (j - g - 1) + 1 = j
      BY <1>5
    <3> QED
      BY <1>5, <3>1
  <2>2. \A k \in g .. n : numeric(k) <=> k <= g + l
    <3> SUFFICES ASSUME NEW k \in g .. n PROVE numeric(k) <=> k <= g + l
      OBVIOUS
    <3>1. ASSUME k <= g + l PROVE numeric(k)
      BY <1>4, <1>5, <2>1, <3>1 DEF Strs!Digits
    <3>2. ASSUME ~(k <= g + l) PROVE ~numeric(k)
      <4>1. l # n - g /\ g + l + 1 \in g + 1 .. k
        BY <1>5, <3>2
      <4> QED
        BY <1>4, <1>5, <4>1 DEF Strs!Digits
    <3> QED
      BY <3>1, <3>2
  <2> HIDE DEF numeric
  <2>3. end = CHOOSE k \in g .. n : numeric(k) /\ ~(k < n /\ numeric(k + 1))
    BY <1>4
  <2>4. ASSUME NEW k \in g .. n
        PROVE  (numeric(k) /\ ~(k < n /\ numeric(k + 1))) <=> k = g + l
    <3>1. k < n => k + 1 \in g .. n
      OBVIOUS
    <3>2. k < n => (numeric(k + 1) <=> k + 1 <= g + l)
      BY <2>2, <3>1
    <3>3. numeric(k) <=> k <= g + l
      BY <2>2
    <3>4. g + l <= n
      BY <1>5
    <3>5. CASE k < n
      BY <1>5, <3>2, <3>3, <3>5
    <3>6. CASE k = n
      BY <1>5, <3>3, <3>4, <3>6
    <3> QED
      BY <3>5, <3>6
  <2>5. g + l \in g .. n
    BY <1>5
  <2> QED
    BY <2>3, <2>4, <2>5
<1> HIDE DEF end, value, numeric, sign
<1>8. dig \in [0 .. l - 1 -> Int]
  <2> SUFFICES ASSUME NEW j \in 0 .. l - 1 PROVE s[g + j + 1] - 48 \in Int
    BY <1>2, <1>4
  <2>1. g + j + 1 \in 1 .. n
    BY <1>5
  <2> QED
    BY <1>6, <2>1
<1> DEFINE step == [q \in (1 .. l) \X Int |-> 10 * q[2] + dig[q[1] - 1]]
<1> HIDE DEF dig
<1>9. step \in [(1 .. l) \X Int -> Int]
  <2> SUFFICES ASSUME NEW q \in (1 .. l) \X Int PROVE 10 * q[2] + dig[q[1] - 1] \in Int
    OBVIOUS
  <2>1. PICK a \in 1 .. l, b \in Int : q[1] = a /\ q[2] = b
    OBVIOUS
  <2>2. a - 1 \in 0 .. l - 1
    BY <1>5
  <2> QED
    BY <1>8, <2>1, <2>2
<1>10. PICK v : Recurs(v, l, 0, step)
  <2>1. l \in Nat /\ 0 \in Int
    BY <1>5
  <2> HIDE DEF step
  <2> QED
    BY <1>9, <2>1, RecursionExists
<1>11. v \in [0 .. l -> Int]
  <2>1. l \in Nat /\ 0 \in Int
    BY <1>5
  <2> HIDE DEF step
  <2> QED
    BY <1>9, <1>10, <2>1, RecursionTyped
<1>12. ValuesFit(l, dig, v)
  <2> SUFFICES ASSUME NEW k \in 0 .. l
               PROVE  v[k] = IF k = 0 THEN 0 ELSE 10 * v[k - 1] + dig[k - 1]
    BY DEF ValuesFit
  <2>1. v[k] = IF k = 0 THEN 0 ELSE step[<<k, v[k - 1]>>]
    <3> HIDE DEF step
    <3> QED
      BY <1>10 DEF Recurs
  <2>2. k # 0 => <<k, v[k - 1]>> \in (1 .. l) \X Int
    BY <1>5, <1>11
  <2> QED
    BY <2>1, <2>2
<1> DEFINE w == [k \in g .. g + l |-> v[k - g]]
<1>13. ASSUME NEW k \in g .. g + l
       PROVE  w[k] = Turn(w, k)
  <2>1. CASE k = g
    <3>1. k - g = 0 /\ 0 \in 0 .. l
      BY <1>5, <2>1
    <3> QED
      BY <1>4, <1>12, <2>1, <3>1 DEF ValuesFit
  <2>2. CASE k # g
    <3>1. PICK i \in 1 .. l : i = k - g
      BY <1>5, <2>2
    <3>2. v[i] = 10 * v[i - 1] + dig[i - 1]
      BY <1>12, <3>1 DEF ValuesFit
    <3>3. w[k] = v[i] /\ w[k - 1] = v[i - 1]
      <4>1. k - 1 \in g .. g + l /\ (k - 1) - g = i - 1
        BY <1>5, <2>2, <3>1
      <4> QED
        BY <3>1, <4>1
    <3>4. dig[i - 1] = s[k] - 48
      <4>1. i - 1 \in 0 .. l - 1 /\ g + (i - 1) + 1 = k
        BY <1>5, <3>1
      <4> QED
        BY <1>2, <1>4, <4>1 DEF dig
    <3>5. v[i - 1] \in Int /\ s[k] \in Int
      <4>1. i - 1 \in 0 .. l /\ k \in 1 .. n
        BY <1>5, <3>1
      <4> QED
        BY <1>6, <1>11, <4>1
    <3>6. 10 * w[k - 1] + s[k] - 48 = w[k]
      BY <3>2, <3>3, <3>4, <3>5
    <3> QED
      BY <1>4, <2>2, <3>6
  <2> QED
    BY <2>1, <2>2
<1>14. w = [k \in g .. g + l |-> Turn(w, k)]
  <2>1. w = [k \in g .. g + l |-> w[k]]
    OBVIOUS
  <2> HIDE DEF w, Turn
  <2> QED
    BY <1>13, <2>1
<1> HIDE DEF w, Turn
<1>15. value = [k \in g .. g + l |-> Turn(value, k)]
  <2>1. value = CHOOSE f : f = [k \in g .. g + l |-> Turn(f, k)]
    BY <1>3, <1>4, <1>7
  <2> QED
    BY <1>14, <2>1, Zenon
<1> DEFINE u == [k \in 0 .. l |-> value[g + k]]
<1>16. ASSUME NEW k \in 0 .. l
       PROVE  u[k] = IF k = 0 THEN 0 ELSE 10 * u[k - 1] + s[g + k] - 48
  <2>1. g + k \in g .. g + l /\ (k = 0 <=> g + k = g)
    BY <1>5
  <2>2. value[g + k] = Turn(value, g + k)
    BY <1>15, <2>1
  <2>3. value[g + k] = IF k = 0 THEN 0 ELSE 10 * value[g + k - 1] + s[g + k] - 48
    BY <1>4, <2>1, <2>2 DEF Turn
  <2>4. CASE k = 0
    BY <2>3, <2>4
  <2>5. CASE k # 0
    <3>1. k - 1 \in 0 .. l /\ g + k - 1 = g + (k - 1)
      BY <1>5, <2>5
    <3> QED
      BY <2>3, <2>5, <3>1
  <2> QED
    BY <2>4, <2>5
<1> HIDE DEF u
<1>17. u[l] = v[l]
  <2> DEFINE bad == {k \in 0 .. l : u[k] # v[k]}
  <2>1. bad = {}
    <3> SUFFICES ASSUME bad # {} PROVE FALSE
      OBVIOUS
    <3>1. bad \in SUBSET Nat
      OBVIOUS
    <3>2. PICK m \in bad : \A k \in bad : m <= k
      BY <3>1, Least
    <3>3. m \in 0 .. l /\ u[m] # v[m]
      OBVIOUS
    <3>4. m # 0
      BY <1>12, <1>16, <3>3 DEF ValuesFit
    <3>5. m - 1 \in 0 .. l /\ ~(m <= m - 1) /\ m - 1 \in 0 .. l - 1 /\ g + (m - 1) + 1 = g + m
      BY <1>5, <3>3, <3>4
    <3>6. u[m - 1] = v[m - 1]
      BY <3>2, <3>5
    <3>7. dig[m - 1] = s[g + m] - 48
      BY <1>2, <1>4, <3>5 DEF dig
    <3>8. v[m - 1] \in Int /\ s[g + m] \in Int
      <4>1. g + m \in 1 .. n
        BY <1>5, <3>3, <3>4
      <4> QED
        BY <1>6, <1>11, <3>5, <4>1
    <3>9. v[m] = 10 * v[m - 1] + dig[m - 1] /\ u[m] = 10 * u[m - 1] + s[g + m] - 48
      BY <1>12, <1>16, <3>3, <3>4 DEF ValuesFit
    <3> QED
      BY <3>3, <3>6, <3>7, <3>8, <3>9
  <2>2. l \in 0 .. l
    BY <1>5
  <2> QED
    BY <2>1, <2>2
<1>18. value[end] = v[l]
  <2>1. l \in 0 .. l
    BY <1>5
  <2> QED
    BY <1>7, <1>17, <2>1 DEF u
<1>19. Strs!Number(s) = IF SignOf(s) = 1 THEN -v[l] ELSE v[l]
  BY <1>1, <1>2, <1>18
<1> QED
  BY <1>11, <1>12, <1>19 DEF dig

\* The loops of atoi are those of DigitsSummed.
LEMMA atoiIs ==
  ASSUME NEW s \in Seq(Chars)
  PROVE  /\ Strs!atoi(s) \in Int
         /\ Strs!Fits(Strs!Number(s)) => Strs!atoi(s) = Strs!Number(s)
<1> DEFINE n == Strs!CStr(s)[0] = Strs!Minus
           t == IF n THEN Tail(s) ELSE s
           d == Strs!CStr(t)
           CountTurn(f, k) == IF d[k] \in Strs!Digits THEN f[k + 1] ELSE k
           counted == CHOOSE f : f = [k \in DOMAIN d |-> CountTurn(f, k)]
           l == counted[0]
           PowerTurn(f, i) == IF i = 0 THEN 1 ELSE Strs!Wrap(f[i - 1] * 10)
           p[i \in 0 .. l] == PowerTurn(p, i)
           SumTurn(f, i) == IF i = 0 THEN 0
                            ELSE Strs!Wrap(f[i - 1] + p[i - 1] * (d[l - i] - 48))
           r[i \in 0 .. l] == SumTurn(r, i)
<1>1. Strs!atoi(s) = IF n THEN Strs!Wrap(-r[l]) ELSE r[l]
  BY DEF Strs!atoi
<1>2. counted = CHOOSE f : f = [k \in DOMAIN d |-> CountTurn(f, k)]
  OBVIOUS
<1>3. p = CHOOSE f : f = [i \in 0 .. l |-> PowerTurn(f, i)]
  OBVIOUS
<1>4. r = CHOOSE f : f = [i \in 0 .. l |-> SumTurn(f, i)]
  OBVIOUS
<1>5. PICK c : DigitsOf(s, c)
  BY SomeDigits
<1>6. PICK m \in Nat, g \in {0, 1} : m = Len(s) /\ g = SignOf(s) /\ g <= m
  BY SomeDigits
<1>7. n <=> g = 1
  <2>1. CASE m = 0
    <3>1. Len(s) = 0
      BY <1>6, <2>1
    <3>2. s = <<>> /\ Len(s) = 0
      BY <3>1
    <3>3. Strs!CStr(s)[Len(s)] = 0
      BY CStrIs
    <3> QED
      BY <1>6, <3>2, <3>3 DEF SignOf, Strs!Minus
  <2>2. CASE m # 0
    <3>1. 0 \in 0 .. Len(s) - 1 /\ 0 + 1 = 1 /\ s # <<>>
      BY <1>6, <2>2
    <3>2. Strs!CStr(s)[0] = s[1]
      BY <3>1, CStrIs
    <3> QED
      BY <1>6, <3>1, <3>2 DEF SignOf, Strs!Minus
  <2> QED
    BY <2>1, <2>2
<1>8. t \in Seq(Chars) /\ Len(t) = m - g /\ \A j \in 1 .. m - g : t[j] = s[g + j]
  <2>1. CASE g = 1
    <3>1. s # <<>> /\ t = Tail(s)
      BY <1>6, <1>7, <2>1
    <3>2. Tail(s) \in Seq(Chars) /\ Len(Tail(s)) = m - 1
      BY <1>6, <3>1
    <3>3. \A j \in 1 .. m - 1 : Tail(s)[j] = s[j + 1]
      BY <1>6, <3>1
    <3> HIDE DEF t
    <3>4. \A j \in 1 .. m - 1 : j + 1 = 1 + j
      OBVIOUS
    <3> QED
      BY <2>1, <3>1, <3>2, <3>3, <3>4
  <2>2. CASE g = 0
    <3>1. t = s
      BY <1>7, <2>2
    <3> HIDE DEF t
    <3>2. m - g = m /\ \A j \in 1 .. m : g + j = j
      BY <2>2
    <3> QED
      BY <1>6, <3>1, <3>2
  <2> QED
    BY <2>1, <2>2
<1> HIDE DEF t, n
<1>9. PICK e \in Nat : e = m - g
  BY <1>6
<1>10. /\ DOMAIN d = 0 .. e /\ d[e] = 0
       /\ \A k \in 0 .. e - 1 : d[k] = s[g + k + 1]
  <2>1. /\ DOMAIN d = 0 .. Len(t) /\ d[Len(t)] = 0
        /\ \A k \in 0 .. Len(t) - 1 : d[k] = t[k + 1]
    BY <1>8, CStrIs
  <2>2. Len(t) = e
    BY <1>8, <1>9
  <2>3. ASSUME NEW k \in 0 .. e - 1 PROVE d[k] = s[g + k + 1]
    <3>1. k + 1 \in 1 .. m - g /\ g + k + 1 = g + (k + 1)
      BY <1>9
    <3>2. d[k] = t[k + 1]
      BY <2>1, <2>2
    <3> QED
      BY <1>8, <3>1, <3>2
  <2> QED
    BY <2>1, <2>2, <2>3
<1>11. /\ c \in 0 .. e /\ \A j \in 0 .. c - 1 : s[g + j + 1] \in 48 .. 57
       /\ c = e \/ s[g + c + 1] \notin 48 .. 57
  BY <1>5, <1>6, <1>9 DEF DigitsOf
<1> HIDE DEF d
<1>12. l = c
  <2> DEFINE stop == {k \in 0 .. e : d[k] \notin 48 .. 57}
             val == [k \in 0 .. e |-> k]
  <2>1. ASSUME NEW f, NEW k \in 0 .. e
        PROVE  CountTurn(f, k) = IF k \in stop THEN val[k] ELSE f[k + 1]
    BY DEF Strs!Digits
  <2>2. stop \in SUBSET (0 .. e) /\ e \in stop
    BY <1>10
  <2>3. c \in stop /\ val[c] = c
    BY <1>10, <1>11
  <2>4. ASSUME NEW j \in 0 .. c - 1 PROVE j \notin stop
    <3>1. j \in 0 .. e - 1
      BY <1>11
    <3> QED
      BY <1>10, <1>11, <3>1
  <2> HIDE DEF stop, val, CountTurn, counted
  <2>5. \E w : Searches(w, e, stop, val)
    BY <1>9, <2>2, SearchExists
  <2>6. \E w : w = [k \in 0 .. e |-> CountTurn(w, k)]
    BY <2>1, <2>5 DEF Searches
  <2>7. counted = [k \in 0 .. e |-> CountTurn(counted, k)]
    <3>1. counted = CHOOSE f : f = [k \in 0 .. e |-> CountTurn(f, k)]
      BY <1>2, <1>10
    <3> QED
      BY <2>6, <3>1, Zenon
  <2>8. Searches(counted, e, stop, val)
    BY <2>1, <2>7 DEF Searches
  <2>9. StopsAt(counted, e, stop, val, c)
    BY <1>9, <2>2, <2>3, <2>4, <2>8 DEF StopsAt
  <2>10. counted[0] = val[c]
    BY <2>9, FirstFound
  <2> QED
    BY <2>3, <2>10
<1> HIDE DEF l, counted, p, r, PowerTurn, SumTurn
<1> DEFINE dig == [j \in 0 .. c - 1 |-> s[SignOf(s) + j + 1] - 48]
<1>13. ASSUME NEW j \in 0 .. c - 1
       PROVE  d[j] \in Int /\ dig[j] = d[j] - 48 /\ dig[j] \in Int
  <2>1. j \in 0 .. e - 1
    BY <1>11
  <2>2. d[j] = s[g + j + 1] /\ dig[j] = s[g + j + 1] - 48
    BY <1>6, <1>10, <2>1
  <2>3. PICK x \in 48 .. 57 : x = s[g + j + 1]
    BY <1>11
  <2> QED
    BY <2>2, <2>3
<1>14. dig \in [0 .. c - 1 -> Int] /\ c \in Nat
  BY <1>11, <1>13
<1> HIDE DEF dig
<1>15. Powers(c, p) /\ \A i \in 0 .. c : p[i] \in Int
  <2> DEFINE step == [q \in (1 .. c) \X Int |-> Strs!Wrap(q[2] * 10)]
  <2>1. step \in [(1 .. c) \X Int -> Int]
    <3> SUFFICES ASSUME NEW q \in (1 .. c) \X Int PROVE Strs!Wrap(q[2] * 10) \in Int
      OBVIOUS
    <3>1. PICK x \in Int : x = q[2] * 10
      OBVIOUS
    <3>2. Strs!Wrap(x) \in -Half .. Half - 1
      BY WrapIs
    <3> QED
      BY <3>1, <3>2, HalfType
  <2>2. PICK w : Recurs(w, c, 1, step) /\ w \in [0 .. c -> Int]
    <3> HIDE DEF step
    <3>1. 1 \in Int
      OBVIOUS
    <3> QED
      BY <1>14, <2>1, <3>1, RecursionExists, RecursionTyped
  <2>3. \A i \in 0 .. c : w[i] = IF i = 0 THEN 1 ELSE step[<<i, w[i - 1]>>]
    <3> HIDE DEF step
    <3> QED
      BY <2>2 DEF Recurs
  <2>4. \A i \in 0 .. c : w[i] = PowerTurn(w, i)
    <3> SUFFICES ASSUME NEW i \in 0 .. c PROVE w[i] = PowerTurn(w, i)
      OBVIOUS
    <3>1. i # 0 => <<i, w[i - 1]>> \in (1 .. c) \X Int
      <4>1. i # 0 => i \in 1 .. c /\ i - 1 \in 0 .. c
        BY <1>14
      <4> QED
        BY <2>2, <4>1
    <3> QED
      BY <2>3, <3>1 DEF PowerTurn
  <2>5. w = [i \in 0 .. c |-> PowerTurn(w, i)]
    <3>1. w = [i \in 0 .. c |-> w[i]]
      BY <2>2
    <3> QED
      BY <2>4, <3>1
  <2>6. p = [i \in 0 .. c |-> PowerTurn(p, i)]
    <3>1. p = CHOOSE f : f = [i \in 0 .. c |-> PowerTurn(f, i)]
      BY <1>3, <1>12
    <3> QED
      BY <2>5, <3>1, Zenon
  <2>7. Powers(c, p)
    BY <2>6 DEF Powers, PowerTurn
  <2>8. Recurs(p, c, 1, step)
    <3> DEFINE bad == {i \in 0 .. c : p[i] # w[i]}
    <3>1. bad = {}
      <4> SUFFICES ASSUME bad # {} PROVE FALSE
        OBVIOUS
      <4>1. bad \in SUBSET Nat
        OBVIOUS
      <4>2. PICK k \in bad : \A i \in bad : k <= i
        BY <4>1, Least
      <4>3. p[k] = PowerTurn(p, k) /\ w[k] = PowerTurn(w, k) /\ p[k] # w[k] /\ k \in 0 .. c
        BY <2>4, <2>6
      <4>4. k # 0 => k - 1 \in 0 .. c /\ ~(k <= k - 1)
        BY <1>14, <4>3
      <4>5. k # 0 => p[k - 1] = w[k - 1]
        BY <4>2, <4>4
      <4> QED
        BY <4>3, <4>5 DEF PowerTurn
    <3>2. \A i \in 0 .. c : p[i] = w[i]
      <4> SUFFICES ASSUME NEW i \in 0 .. c PROVE p[i] = w[i]
        OBVIOUS
      <4> QED
        BY <3>1
    <3>3. p = [i \in 0 .. c |-> p[i]]
      BY <2>6
    <3>4. p = w
      BY <2>2, <3>2, <3>3
    <3> QED
      BY <2>2, <3>4
  <2>9. p \in [0 .. c -> Int]
    <3> HIDE DEF step
    <3>1. 1 \in Int
      OBVIOUS
    <3> QED
      BY <1>14, <2>1, <2>8, <3>1, RecursionTyped
  <2> QED
    BY <2>7, <2>9
<1>16. Sums(c, dig, p, r)
  <2> DEFINE step == [q \in (1 .. c) \X Int |->
                        Strs!Wrap(q[2] + p[q[1] - 1] * (d[c - q[1]] - 48))]
  <2>1. step \in [(1 .. c) \X Int -> Int]
    <3> SUFFICES ASSUME NEW q \in (1 .. c) \X Int
                 PROVE  Strs!Wrap(q[2] + p[q[1] - 1] * (d[c - q[1]] - 48)) \in Int
      OBVIOUS
    <3>1. PICK a \in 1 .. c, b \in Int : q[1] = a /\ q[2] = b
      OBVIOUS
    <3>2. PICK y \in Int, z \in Int : y = p[a - 1] /\ z = d[c - a] - 48
      <4>1. a - 1 \in 0 .. c /\ c - a \in 0 .. c - 1
        BY <1>14
      <4> QED
        BY <1>13, <1>15, <4>1
    <3>3. Strs!Wrap(b + y * z) \in -Half .. Half - 1
      <4>1. b + y * z \in Int
        OBVIOUS
      <4> QED
        BY <4>1, WrapIs
    <3> QED
      BY <3>1, <3>2, <3>3, HalfType
  <2>2. PICK w : Recurs(w, c, 0, step) /\ w \in [0 .. c -> Int]
    <3> HIDE DEF step
    <3>1. 0 \in Int
      OBVIOUS
    <3> QED
      BY <1>14, <2>1, <3>1, RecursionExists, RecursionTyped
  <2>3. \A i \in 0 .. c : w[i] = IF i = 0 THEN 0 ELSE step[<<i, w[i - 1]>>]
    <3> HIDE DEF step
    <3> QED
      BY <2>2 DEF Recurs
  <2>4. \A i \in 0 .. c : w[i] = SumTurn(w, i)
    <3> SUFFICES ASSUME NEW i \in 0 .. c PROVE w[i] = SumTurn(w, i)
      OBVIOUS
    <3>1. i # 0 => <<i, w[i - 1]>> \in (1 .. c) \X Int
      <4>1. i # 0 => i \in 1 .. c /\ i - 1 \in 0 .. c
        BY <1>14
      <4> QED
        BY <2>2, <4>1
    <3> QED
      BY <1>12, <2>3, <3>1 DEF SumTurn
  <2>5. w = [i \in 0 .. c |-> SumTurn(w, i)]
    <3>1. w = [i \in 0 .. c |-> w[i]]
      BY <2>2
    <3> QED
      BY <2>4, <3>1
  <2>6. r = [i \in 0 .. c |-> SumTurn(r, i)]
    <3>1. r = CHOOSE f : f = [i \in 0 .. c |-> SumTurn(f, i)]
      BY <1>4, <1>12
    <3> QED
      BY <2>5, <3>1, Zenon
  <2>7. ASSUME NEW i \in 0 .. c
        PROVE  r[i] = IF i = 0 THEN 0 ELSE Strs!Wrap(r[i - 1] + p[i - 1] * dig[c - i])
    <3>1. r[i] = SumTurn(r, i)
      BY <2>6
    <3>2. i # 0 => dig[c - i] = d[c - i] - 48
      <4>1. i # 0 => c - i \in 0 .. c - 1
        BY <1>14
      <4> QED
        BY <1>13, <4>1
    <3> QED
      BY <1>12, <3>1, <3>2 DEF SumTurn
  <2> QED
    BY <2>7 DEF Sums
<1>17. PICK v \in [0 .. c -> Int] :
         /\ ValuesFit(c, dig, v)
         /\ Strs!Number(s) = IF SignOf(s) = 1 THEN -v[c] ELSE v[c]
  BY <1>5, NumberIs DEF dig
<1>18. PICK x \in Int, y \in Int, z \in Int :
         /\ x = r[c] /\ y = v[c] /\ x \in -Half .. Half - 1 /\ x = y + z * (2 * Half)
  <2>1. Summing(c, dig, p, r, v)
    BY <1>14, <1>15, <1>16, <1>17 DEF Summing
  <2>2. Wrapped(r[c], v[c])
    BY <2>1, DigitsSummed
  <2>3. r[c] \in Int /\ v[c] \in Int
    BY <1>14, <1>17, <2>2, HalfType DEF Wrapped
  <2> QED
    BY <2>2, <2>3 DEF Wrapped
<1>19. CASE g = 0
  <2>1. Strs!atoi(s) = x /\ Strs!Number(s) = y
    BY <1>1, <1>6, <1>7, <1>12, <1>17, <1>18, <1>19
  <2>2. ASSUME Strs!Fits(y) PROVE x = y
    BY <1>18, <2>2, WrapOne DEF Strs!Fits
  <2> QED
    BY <2>1, <2>2
<1>20. CASE g = 1
  <2>1. Strs!atoi(s) = Strs!Wrap(-x) /\ Strs!Number(s) = -y
    BY <1>1, <1>6, <1>7, <1>12, <1>17, <1>18, <1>20
  <2>2. PICK M \in Int : M = 2 * Half
    BY HalfType
  <2>3. PICK a \in Int : Strs!Wrap(-x) = -x + a * M /\ Strs!Wrap(-x) \in -Half .. Half - 1
    <3>1. -x \in Int
      OBVIOUS
    <3> QED
      BY <2>2, <3>1, WrapIs
  <2>4. ASSUME Strs!Fits(-y) PROVE Strs!Wrap(-x) = -y
    <3>1. -x + a * M = -y + (a - z) * M
      <4>1. PICK aM \in Int, zM \in Int : aM = a * M /\ zM = z * M
        OBVIOUS
      <4>2. (a - z) * M = aM - zM
        BY <4>1
      <4>3. x = y + zM
        BY <1>18, <2>2, <4>1
      <4> QED
        BY <4>1, <4>2, <4>3
    <3>2. a - z \in Int /\ -y \in -Half .. Half - 1
      BY <2>4 DEF Strs!Fits
    <3> QED
      BY <2>2, <2>3, <3>1, <3>2, WrapOne
  <2>5. Strs!Wrap(-x) \in Int
    BY <2>3, HalfType
  <2> QED
    BY <2>1, <2>4, <2>5
<1> QED
  BY <1>19, <1>20

----------------------------------------------------------------------------
(* The commands of the three shells. *)

\* The shells use the same helpers.
LEMMA SameHelpers ==
  /\ \A l, r : Shell!strcmp(l, r) = Strs!strcmp(l, r)
  /\ \A l, r, n : Shell!strncmp(l, r, n) = Strs!strncmp(l, r, n)
  /\ \A s, c : Shell!strfindchr(s, c) = Strs!strfindchr(s, c)
  /\ \A s : Shell!atoi(s) = Strs!atoi(s)
  /\ \A s : Shell!Number(s) = Strs!Number(s)
  /\ \A s, k : Shell!Behind(s, k) = Strs!Behind(s, k)
  /\ \A n : Shell!Fits(n) = Strs!Fits(n)
<1> USE DEF Shell!NUL, Strs!NUL, Shell!None, Strs!None, Shell!Minus, Strs!Minus,
            Shell!Digits, Strs!Digits, Shell!CStr, Strs!CStr, Shell!Wrap, Strs!Wrap
<1>1. \A l, r : Shell!strcmp(l, r) = Strs!strcmp(l, r)
  BY DEF Shell!strcmp, Strs!strcmp
<1>2. \A l, r, n : Shell!strncmp(l, r, n) = Strs!strncmp(l, r, n)
  BY DEF Shell!strncmp, Strs!strncmp, Shell!Rounds, Strs!Rounds
<1>3. \A s, c : Shell!strfindchr(s, c) = Strs!strfindchr(s, c)
  BY DEF Shell!strfindchr, Strs!strfindchr
<1>4. \A s : Shell!atoi(s) = Strs!atoi(s)
  BY DEF Shell!atoi, Strs!atoi
<1>5. \A s : Shell!Number(s) = Strs!Number(s)
  BY DEF Shell!Number, Strs!Number
<1>6. \A s, k : Shell!Behind(s, k) = Strs!Behind(s, k)
  BY DEF Shell!Behind, Strs!Behind
<1>7. \A n : Shell!Fits(n) = Strs!Fits(n)
  BY DEF Shell!Fits, Strs!Fits
<1> QED
  BY <1>1, <1>2, <1>3, <1>4, <1>5, <1>6, <1>7

\* Two strings are the same when strcmp finds nothing between them.
LEMMA strcmpEqual ==
  ASSUME NEW l \in Seq(Chars), NEW r \in Seq(Chars)
  PROVE  Shell!strcmp(l, r) = 0 <=> l = r
<1>1. PICK m \in Nat, n \in Nat : m = Len(l) /\ n = Len(r)
  OBVIOUS
<1>2. PICK k : Parted(l, r, k)
  BY SomewhereParted
<1>3. Shell!strcmp(l, r) = Strs!CStr(l)[k] - Strs!CStr(r)[k]
  BY <1>2, SameHelpers, strcmpIs
<1>4. /\ k \in 0 .. m /\ k \in 0 .. n /\ \A j \in 1 .. k : l[j] = r[j]
      /\ k = m \/ k = n \/ l[k + 1] # r[k + 1]
  BY <1>1, <1>2, PartedBytes DEF Parted
<1>5. PICK a \in 0 .. 255, b \in 0 .. 255 :
        /\ a = Strs!CStr(l)[k] /\ b = Strs!CStr(r)[k]
        /\ a = 0 <=> k = m
        /\ b = 0 <=> k = n
        /\ k < m => a = l[k + 1]
        /\ k < n => b = r[k + 1]
  <2>1. /\ Strs!CStr(l)[k] \in 0 .. 255
        /\ Strs!CStr(l)[k] = 0 <=> k = m
        /\ k < m => Strs!CStr(l)[k] = l[k + 1]
    <3>1. k < m => k \in 0 .. Len(l) - 1
      BY <1>1, <1>4
    <3> QED
      BY <1>1, <1>4, <3>1, CStrIs
  <2>2. /\ Strs!CStr(r)[k] \in 0 .. 255
        /\ Strs!CStr(r)[k] = 0 <=> k = n
        /\ k < n => Strs!CStr(r)[k] = r[k + 1]
    <3>1. k < n => k \in 0 .. Len(r) - 1
      BY <1>1, <1>4
    <3> QED
      BY <1>1, <1>4, <3>1, CStrIs
  <2> QED
    BY <2>1, <2>2
<1>6. Shell!strcmp(l, r) = 0 <=> a = b
  BY <1>3, <1>5
<1>7. ASSUME a = b PROVE l = r
  <2>1. k = m /\ k = n
    BY <1>4, <1>5, <1>7
  <2> QED
    BY <1>1, <1>4, <2>1, SeqEqual
<1>8. ASSUME l = r PROVE a = b
  <2>1. m = n
    BY <1>1, <1>8
  <2>2. k = m
    BY <1>4, <1>8, <2>1
  <2> QED
    BY <1>5, <2>1, <2>2
<1> QED
  BY <1>6, <1>7, <1>8

\* Five bytes are looked at for the command that takes an argument.
LEMMA StartIs ==
  ASSUME NEW l \in Seq(Chars)
  PROVE  Shell!strncmp(l, Shell!Start, 5) = 0 <=> Shell!IsPrefix(Shell!Start, l)
<1> DEFINE r == Shell!Start
<1>1. r = <<115, 116, 97, 114, 116>>
  BY DEF Shell!Start
<1>2. r \in Seq(Chars) /\ Len(r) = 5
  BY <1>1 DEF Chars
<1> HIDE DEF r
<1>3. PICK m \in Nat : m = Len(l)
  OBVIOUS
<1>4. PICK k : Parted(l, r, k)
  BY <1>2, SomewhereParted
<1>5. Shell!strncmp(l, r, 5) = IF 5 <= k THEN 0 ELSE Strs!CStr(l)[k] - Strs!CStr(r)[k]
  BY <1>2, <1>4, SameHelpers, strncmpIs
<1>6. /\ k \in 0 .. m /\ k \in 0 .. 5 /\ \A j \in 1 .. k : l[j] = r[j]
      /\ k = m \/ k = 5 \/ l[k + 1] # r[k + 1]
  BY <1>2, <1>3, <1>4, PartedBytes DEF Parted
<1>7. Shell!IsPrefix(r, l) <=> 5 <= k
  <2>1. ASSUME 5 <= k PROVE Shell!IsPrefix(r, l)
    <3>1. k = 5 /\ 5 <= m
      BY <1>6, <2>1
    <3>2. /\ SubSeq(l, 1, 5) \in Seq(Chars) /\ Len(SubSeq(l, 1, 5)) = 5
          /\ \A j \in 1 .. 5 : SubSeq(l, 1, 5)[j] = l[j]
      BY <1>3, <3>1
    <3>3. SubSeq(l, 1, 5) = r
      BY <1>2, <1>6, <3>1, <3>2, SeqEqual
    <3> QED
      BY <1>2, <1>3, <3>1, <3>3 DEF Shell!IsPrefix
  <2>2. ASSUME Shell!IsPrefix(r, l) PROVE 5 <= k
    <3>1. 5 <= m /\ SubSeq(l, 1, 5) = r
      BY <1>2, <1>3, <2>2 DEF Shell!IsPrefix
    <3>2. \A j \in 1 .. 5 : SubSeq(l, 1, 5)[j] = l[j]
      BY <1>3, <3>1
    <3>3. \A j \in 1 .. 5 : r[j] = l[j]
      BY <3>1, <3>2
    <3>4. k < 5 => k + 1 \in 1 .. 5 /\ k # m
      BY <1>6, <3>1
    <3> QED
      BY <1>6, <3>3, <3>4
  <2> QED
    BY <2>1, <2>2
<1>8. ASSUME ~(5 <= k) PROVE Strs!CStr(l)[k] - Strs!CStr(r)[k] # 0
  <2>1. k \in 0 .. Len(r) - 1 /\ k \in 0 .. Len(l)
    BY <1>2, <1>3, <1>6, <1>8
  <2>2. Strs!CStr(r)[k] = r[k + 1] /\ r[k + 1] \in Chars
    BY <1>2, <2>1, CStrIs
  <2>3. PICK b \in 1 .. 255 : b = r[k + 1]
    BY <2>2 DEF Chars
  <2>4. Strs!CStr(l)[k] \in 0 .. 255 /\ (k = m => Strs!CStr(l)[k] = 0)
    BY <1>3, <2>1, CStrIs
  <2>5. k # m => Strs!CStr(l)[k] = l[k + 1] /\ l[k + 1] # r[k + 1]
    <3>1. k # m => k \in 0 .. Len(l) - 1
      BY <1>3, <1>6
    <3>2. k # 5
      BY <1>8
    <3> QED
      BY <1>6, <3>1, <3>2, CStrIs
  <2>6. PICK a \in 0 .. 255 : a = Strs!CStr(l)[k]
    BY <2>4
  <2>7. a # b
    <3>1. CASE k = m
      <4>1. a = 0
        BY <2>4, <2>6, <3>1
      <4>2. b # 0
        OBVIOUS
      <4> QED
        BY <2>3, <4>1, <4>2
    <3>2. CASE k # m
      BY <2>3, <2>5, <2>6, <3>2
    <3> QED
      BY <3>1, <3>2
  <2> QED
    BY <2>2, <2>3, <2>6, <2>7
<1>9. Shell!strncmp(l, r, 5) = 0 <=> 5 <= k
  BY <1>5, <1>8
<1> QED
  BY <1>7, <1>9 DEF r

\* The words of the commands are strings, and no two of them are the same.
LEMMA WordsApart ==
  /\ Shell!Help \in Seq(Chars) /\ Shell!Stat \in Seq(Chars) /\ Shell!Gev \in Seq(Chars)
  /\ Shell!Help # Shell!Stat /\ Shell!Help # Shell!Gev /\ Shell!Stat # Shell!Gev
  /\ Shell!Help # <<>> /\ Shell!Stat # <<>> /\ Shell!Gev # <<>>
  /\ ~Shell!IsPrefix(Shell!Start, Shell!Help) /\ ~Shell!IsPrefix(Shell!Start, Shell!Stat)
  /\ ~Shell!IsPrefix(Shell!Start, Shell!Gev) /\ ~Shell!IsPrefix(Shell!Start, <<>>)
<1>1. /\ Shell!Help \in Seq(Chars) /\ Len(Shell!Help) = 4 /\ Shell!Help[1] = 104
      /\ Shell!Stat \in Seq(Chars) /\ Len(Shell!Stat) = 4 /\ Shell!Stat[1] = 115
      /\ Shell!Gev \in Seq(Chars) /\ Len(Shell!Gev) = 3 /\ Shell!Gev[1] = 103
      /\ Len(Shell!Start) = 5
  BY DEF Shell!Help, Shell!Stat, Shell!Gev, Shell!Start, Chars
<1>2. Len(<<>>) = 0
  OBVIOUS
<1>3. Shell!Help # Shell!Stat
  BY <1>1
<1>4. Shell!Help # Shell!Gev /\ Shell!Stat # Shell!Gev
  BY <1>1
<1>5. \A s : Len(s) \in {3, 4} => s # <<>>
  BY <1>2
<1>6. Shell!Help # <<>> /\ Shell!Stat # <<>> /\ Shell!Gev # <<>>
  BY <1>1, <1>5
<1>7. \A s : Len(s) \in {0, 3, 4} => ~Shell!IsPrefix(Shell!Start, s)
  BY <1>1 DEF Shell!IsPrefix
<1> QED
  BY <1>1, <1>2, <1>3, <1>4, <1>7, <1>6

\* Where the argument begins, and its number.
FirstSpace(s) == LET words == {k \in DOMAIN s : s[k] = Shell!Space}
                 IN  CHOOSE k \in words : \A j \in words : k <= j

\* strfindchr finds the first space, one lower.
LEMMA SpaceFound ==
  ASSUME NEW s \in Seq(Chars)
  PROVE  /\ Shell!strfindchr(s, Shell!Space) = Shell!None
              <=> {k \in DOMAIN s : s[k] = Shell!Space} = {}
         /\ Shell!strfindchr(s, Shell!Space) # Shell!None =>
              /\ Shell!strfindchr(s, Shell!Space) + 1 = FirstSpace(s)
              /\ FirstSpace(s) \in 1 .. Len(s)
<1> DEFINE words == {k \in DOMAIN s : s[k] = Shell!Space}
<1>1. PICK n \in Nat : n = Len(s)
  OBVIOUS
<1>2. DOMAIN s = 1 .. n /\ Shell!Space = 32 /\ Shell!None = -1
  BY <1>1 DEF Shell!Space, Shell!None
<1>3. PICK k : FirstByte(s, 32, k)
  BY SomewhereFirst
<1>4. Shell!strfindchr(s, 32) = IF Strs!CStr(s)[k] = 32 THEN k ELSE -1
  BY <1>3, SameHelpers, strfindchrIs
<1>5. /\ k \in 0 .. n /\ \A j \in 0 .. k - 1 : Strs!CStr(s)[j] # 32
      /\ k = n \/ Strs!CStr(s)[k] = 32
  BY <1>1, <1>3 DEF FirstByte
<1>6. Strs!CStr(s)[n] = 0 /\ \A j \in 0 .. n - 1 : Strs!CStr(s)[j] = s[j + 1]
  BY <1>1, CStrIs
<1>7. \A j \in 1 .. k : s[j] # 32
  <2> SUFFICES ASSUME NEW j \in 1 .. k PROVE s[j] # 32
    OBVIOUS
  <2>1. j - 1 \in 0 .. k - 1 /\ j - 1 \in 0 .. n - 1 /\ (j - 1) + 1 = j
    BY <1>5
  <2> QED
    BY <1>5, <1>6, <2>1
<1>8. CASE k = n
  <2>1. words = {}
    BY <1>2, <1>7, <1>8
  <2>2. Shell!strfindchr(s, Shell!Space) = -1
    BY <1>2, <1>4, <1>6, <1>8
  <2> QED
    BY <1>2, <2>1, <2>2
<1>9. CASE k # n
  <2>1. k \in 0 .. n - 1 /\ k + 1 \in 1 .. n
    BY <1>5, <1>9
  <2>2. Strs!CStr(s)[k] = 32 /\ s[k + 1] = 32
    BY <1>5, <1>6, <1>9, <2>1
  <2>3. k + 1 \in words /\ words \in SUBSET (1 .. n)
    BY <1>2, <2>1, <2>2
  <2>4. \A j \in words : k + 1 <= j
    <3> SUFFICES ASSUME NEW j \in words, ~(k + 1 <= j) PROVE FALSE
      OBVIOUS
    <3>1. j \in 1 .. k /\ s[j] = 32
      BY <1>2, <1>5, <2>3
    <3> QED
      BY <1>7, <3>1
  <2>5. \A m \in words : (\A j \in words : m <= j) => m = k + 1
    <3> SUFFICES ASSUME NEW m \in words, \A j \in words : m <= j PROVE m = k + 1
      OBVIOUS
    <3>1. m <= k + 1 /\ k + 1 <= m /\ m \in Int
      BY <2>3, <2>4
    <3> QED
      BY <2>1, <3>1
  <2>6. FirstSpace(s) = k + 1
    BY <2>3, <2>4, <2>5 DEF FirstSpace
  <2>7. Shell!strfindchr(s, Shell!Space) = k
    BY <1>2, <1>4, <2>2
  <2>8. k # -1 /\ words # {}
    BY <1>5, <2>3
  <2> QED
    BY <1>1, <1>2, <2>1, <2>6, <2>7, <2>8
<1> QED
  BY <1>8, <1>9

Named(s) == Shell!Number(SubSeq(s, FirstSpace(s) + 1, Len(s)))

\* What the command is given is the number behind the first space, if it fits.
LEMMA ArgumentIs ==
  ASSUME line \in Seq(Chars), Shell!strfindchr(line, Shell!Space) # Shell!None
  PROVE  /\ Shell!Argument \in Int
         /\ Shell!Fits(Named(line)) => Shell!Argument = Named(line)
<1>1. PICK k, n \in Nat : n = Len(line) /\ k = FirstSpace(line) /\ k \in 1 .. n
  BY SpaceFound
<1>2. Shell!strfindchr(line, Shell!Space) + 1 = k
  BY <1>1, SpaceFound
<1>3. PICK t : t = SubSeq(line, k + 1, n)
  OBVIOUS
<1>4. Shell!Behind(line, k) = t
  BY <1>1, <1>3 DEF Shell!Behind
<1>5. t \in Seq(Chars)
  <2>1. k \in 0 .. Len(line)
    BY <1>1
  <2> QED
    BY <1>4, <2>1, BehindIs, SameHelpers
<1>6. Shell!Argument = Strs!atoi(t)
  BY <1>2, <1>4, SameHelpers DEF Shell!Argument
<1>7. Named(line) = Strs!Number(t)
  BY <1>1, <1>3, SameHelpers DEF Named
<1> QED
  BY <1>5, <1>6, <1>7, SameHelpers, atoiIs

\* A line that names a hart.
Numbered(l) == editor = "kernel" /\ Shell!IsPrefix(Shell!Start, l)
             /\ {k \in DOMAIN l : l[k] = Shell!Space} # {}

\* What a line without a number is answered with.
LEMMA MeansWord ==
  ASSUME NEW l, NEW w,
         \/ l = Shell!Help /\ w = "help"
         \/ l = Shell!Stat /\ editor = "kernel" /\ w = "stat"
         \/ l = Shell!Gev /\ editor = "user" /\ w = "gev"
         \/ l = <<>> /\ w = "nothing"
         \/ ~Numbered(l) /\ editor = "kernel" /\ Shell!IsPrefix(Shell!Start, l) /\ w = "usage"
         \/ /\ l # Shell!Help /\ ~(l = Shell!Stat /\ editor = "kernel")
            /\ ~(l = Shell!Gev /\ editor = "user") /\ l # <<>>
            /\ ~(editor = "kernel" /\ Shell!IsPrefix(Shell!Start, l))
            /\ w = "unknown"
  PROVE  [what |-> w, hart |-> 0] \in Shell!Means(l)
<1> DEFINE whats == CASE l = Shell!Help -> {"help"}
                      [] l = Shell!Stat /\ editor = "kernel" -> {"stat"}
                      [] l = Shell!Gev /\ editor = "user" -> {"gev"}
                      [] l = <<>> -> {"nothing"}
                      [] editor = "kernel" /\ Shell!IsPrefix(Shell!Start, l) -> {"usage"}
                      [] OTHER -> {"unknown"}
<1>1. ~Numbered(l)
  BY WordsApart DEF Numbered
<1>2. Shell!Means(l) = [hart : {0}, what : whats]
  BY <1>1 DEF Shell!Means, Numbered
<1>3. w \in whats
  <2>1. CASE l = Shell!Help /\ w = "help"
    BY <2>1, WordsApart
  <2>2. CASE l = Shell!Stat /\ editor = "kernel" /\ w = "stat"
    BY <2>2, WordsApart
  <2>3. CASE l = Shell!Gev /\ editor = "user" /\ w = "gev"
    BY <2>3, WordsApart
  <2>4. CASE l = <<>> /\ w = "nothing"
    BY <2>4, WordsApart
  <2>5. CASE ~Numbered(l) /\ editor = "kernel" /\ Shell!IsPrefix(Shell!Start, l) /\ w = "usage"
    BY <2>5, WordsApart
  <2>6. CASE /\ l # Shell!Help /\ ~(l = Shell!Stat /\ editor = "kernel")
             /\ ~(l = Shell!Gev /\ editor = "user") /\ l # <<>>
             /\ ~(editor = "kernel" /\ Shell!IsPrefix(Shell!Start, l))
             /\ w = "unknown"
    BY <2>6
  <2> QED
    BY <2>1, <2>2, <2>3, <2>4, <2>5, <2>6
<1> HIDE DEF whats
<1> QED
  BY <1>2, <1>3

\* What a line with a number is answered with; the number is read as atoi reads it.
LEMMA MeansNumber ==
  ASSUME NEW l, Numbered(l), NEW a \in Int, Shell!Fits(Named(l)) => a = Named(l)
  PROVE  /\ a \notin 0 .. NumHarts - 1 => [what |-> "invalid", hart |-> a] \in Shell!Means(l)
         /\ a \in 0 .. NumHarts - 1 => /\ [what |-> "busy", hart |-> a] \in Shell!Means(l)
                                       /\ [what |-> "started", hart |-> a] \in Shell!Means(l)
<1>1. Shell!Means(l) =
        IF ~Shell!Fits(Named(l)) THEN [what : {"busy", "started", "invalid"}, hart : Int]
        ELSE IF Named(l) \in 0 .. NumHarts - 1 THEN [what : {"busy", "started"}, hart : {Named(l)}]
        ELSE [what : {"invalid"}, hart : {Named(l)}]
  BY DEF Shell!Means, Numbered, Named, FirstSpace
<1>2. CASE Shell!Fits(Named(l))
  <2>1. a = Named(l)
    BY <1>2
  <2>2. CASE a \in 0 .. NumHarts - 1
    <3>1. Shell!Means(l) = [what : {"busy", "started"}, hart : {a}]
      BY <1>1, <1>2, <2>1, <2>2
    <3> QED
      BY <2>2, <3>1
  <2>3. CASE a \notin 0 .. NumHarts - 1
    <3>1. Shell!Means(l) = [what : {"invalid"}, hart : {a}]
      BY <1>1, <1>2, <2>1, <2>3
    <3> QED
      BY <2>3, <3>1
  <2> QED
    BY <2>2, <2>3
<1>3. CASE ~Shell!Fits(Named(l))
  BY <1>1, <1>3
<1> QED
  BY <1>2, <1>3

\* What the kernel answers to a line, or goes on to do, is what the line means.
LEMMA RunKernelMeans ==
  ASSUME Shell!RunKernel, line \in Seq(Chars)
  PROVE  \/ where' \in {"get", "stat"} /\ said' \in Shell!Means(line)
         \/ /\ where' = "check" /\ hart' \in 0 .. NumHarts - 1
            /\ [what |-> "busy", hart |-> hart'] \in Shell!Means(line)
            /\ [what |-> "started", hart |-> hart'] \in Shell!Means(line)
<1> DEFINE s == Shell!strfindchr(line, Shell!Space)
<1>1. editor = "kernel"
  BY DEF Shell!RunKernel
<1>2. /\ Shell!strcmp(line, Shell!Help) = 0 <=> line = Shell!Help
      /\ Shell!strcmp(line, Shell!Stat) = 0 <=> line = Shell!Stat
      /\ Shell!strncmp(line, Shell!Start, 5) = 0 <=> Shell!IsPrefix(Shell!Start, line)
  BY WordsApart, strcmpEqual, StartIs
<1>3. s = Shell!None <=> {k \in DOMAIN line : line[k] = Shell!Space} = {}
  BY SpaceFound
<1>4. s # Shell!None => /\ Shell!Argument \in Int
                        /\ Shell!Fits(Named(line)) => Shell!Argument = Named(line)
  BY ArgumentIs
<1>5. \/ line = Shell!Help /\ where' = "get" /\ said' = [what |-> "help", hart |-> 0]
      \/ line = Shell!Stat /\ where' = "stat" /\ said' = [what |-> "stat", hart |-> 0]
      \/ /\ line # Shell!Help /\ line # Shell!Stat /\ Shell!IsPrefix(Shell!Start, line)
         /\ \/ s = Shell!None /\ where' = "get" /\ said' = [what |-> "usage", hart |-> 0]
            \/ /\ s # Shell!None /\ Shell!Argument \notin 0 .. NumHarts - 1 /\ where' = "get"
               /\ said' = [what |-> "invalid", hart |-> Shell!Argument]
            \/ /\ s # Shell!None /\ Shell!Argument \in 0 .. NumHarts - 1 /\ where' = "check"
               /\ hart' = Shell!Argument
      \/ /\ line # Shell!Help /\ line # Shell!Stat /\ ~Shell!IsPrefix(Shell!Start, line)
         /\ where' = "get"
         /\ said' = [what |-> IF line = <<>> THEN "nothing" ELSE "unknown", hart |-> 0]
  BY <1>2, WordsApart, Zenon DEF Shell!RunKernel, Shell!Goto, Shell!Says, Shell!Unknown
<1> HIDE DEF s
<1>6. CASE line = Shell!Help /\ where' = "get" /\ said' = [what |-> "help", hart |-> 0]
  BY <1>6, MeansWord
<1>7. CASE line = Shell!Stat /\ where' = "stat" /\ said' = [what |-> "stat", hart |-> 0]
  BY <1>1, <1>7, MeansWord
<1>8. CASE /\ Shell!IsPrefix(Shell!Start, line)
           /\ s = Shell!None /\ where' = "get" /\ said' = [what |-> "usage", hart |-> 0]
  <2>1. ~Numbered(line)
    BY <1>3, <1>8 DEF Numbered
  <2> QED
    BY <1>1, <1>8, <2>1, MeansWord
<1>9. ASSUME Shell!IsPrefix(Shell!Start, line), s # Shell!None
      PROVE  Numbered(line)
  BY <1>1, <1>3, <1>9 DEF Numbered
<1>10. CASE /\ Shell!IsPrefix(Shell!Start, line)
           /\ s # Shell!None /\ Shell!Argument \notin 0 .. NumHarts - 1 /\ where' = "get"
           /\ said' = [what |-> "invalid", hart |-> Shell!Argument]
  BY <1>4, <1>9, <1>10, MeansNumber
<1>11. CASE /\ Shell!IsPrefix(Shell!Start, line)
            /\ s # Shell!None /\ Shell!Argument \in 0 .. NumHarts - 1 /\ where' = "check"
            /\ hart' = Shell!Argument
  BY <1>4, <1>9, <1>11, MeansNumber
<1>12. CASE /\ line # Shell!Help /\ line # Shell!Stat /\ ~Shell!IsPrefix(Shell!Start, line)
            /\ where' = "get"
            /\ said' = [what |-> IF line = <<>> THEN "nothing" ELSE "unknown", hart |-> 0]
  BY <1>1, <1>12, MeansWord
<1> QED
  BY <1>5, <1>6, <1>7, <1>8, <1>10, <1>11, <1>12

\* What the two user programs answer to a line is what the line means.
LEMMA RunUserMeans ==
  ASSUME Shell!RunUser, line \in Seq(Chars)
  PROVE  where' = "get" /\ said' \in Shell!Means(line)
<1>1. /\ Shell!user_strcmp(line, Shell!Help) = 0 <=> line = Shell!Help
      /\ Shell!user_strcmp(line, Shell!Gev) = 0 <=> line = Shell!Gev
  BY WordsApart, strcmpEqual DEF Shell!user_strcmp
<1>2. /\ editor # "kernel" /\ where' = "get"
      /\ \/ line = Shell!Help /\ said' = [what |-> "help", hart |-> 0]
         \/ editor = "user" /\ line = Shell!Gev /\ said' = [what |-> "gev", hart |-> 0]
         \/ /\ line # Shell!Help /\ ~(line = Shell!Gev /\ editor = "user")
            /\ said' = [what |-> IF line = <<>> THEN "nothing" ELSE "unknown", hart |-> 0]
  BY <1>1, Zenon DEF Shell!RunUser, Shell!Goto, Shell!Says, Shell!Unknown
<1> QED
  BY <1>2, MeansWord

----------------------------------------------------------------------------
(* The line on the screen *)

\* What the screen shows as it is.
Printables == 32 .. 126

\* The line that ran is the one that was seen, and what was said was an answer to it; a
\* hart that is about to be started is the one that it named.
Answered ==
  seen # Shell!NotPlain =>
    /\ seen \in Seq(Printables)
    /\ where = "run" => line = seen
    /\ where \in {"get", "esc1", "esc2", "stat"} => said \in Shell!Means(seen)
    /\ where \in {"check", "start"} => /\ [what |-> "busy", hart |-> hart] \in Shell!Means(seen)
                                       /\ [what |-> "started", hart |-> hart] \in Shell!Means(seen)

\* What the array and the screen hold.
OnScreen ==
  /\ at \in 0 .. LineSize - 1
  /\ command = [k \in 0 .. LineSize - 1 |-> command[k]]
  /\ plain => /\ screen \in Seq(Printables) /\ Len(screen) = at
              /\ \A k \in 1 .. at : screen[k] = command[k - 1]

ShellInv ==
  /\ OnScreen /\ Answered
  /\ where \in {"get", "run", "esc1", "esc2", "stat", "check", "start"}

\* The invariant implies what the runs check.
LEMMA ScreenMeans == ShellInv => ShownIsRun
<1> SUFFICES ASSUME ShellInv PROVE ShownIsRun
  OBVIOUS
<1>1. PICK a \in 0 .. LineSize - 1 : a = at
  BY DEF ShellInv, OnScreen
<1>2. plain => screen = [k \in 1 .. a |-> command[k - 1]]
  <2> SUFFICES ASSUME plain PROVE screen = [k \in 1 .. a |-> command[k - 1]]
    OBVIOUS
  <2>1. /\ screen \in Seq(Printables) /\ Len(screen) = a
        /\ \A k \in 1 .. a : screen[k] = command[k - 1]
    BY <1>1 DEF ShellInv, OnScreen
  <2>2. DOMAIN screen = 1 .. a /\ screen = [k \in DOMAIN screen |-> screen[k]]
    BY <1>1, <2>1
  <2> QED
    BY <2>1, <2>2
<1>3. Shell!LineShown
  BY <1>1, <1>2 DEF Shell!LineShown
<1>4. Shell!ShownIsRun
  BY DEF Shell!ShownIsRun, ShellInv, Answered
<1> QED
  BY <1>3, <1>4 DEF ShownIsRun

\* It holds at first, with a line that has been typed.
LEMMA ScreenInit == Shell!Init => ShellInv
<1> SUFFICES ASSUME Shell!Init PROVE ShellInv
  OBVIOUS
<1>1. PICK e \in Editors, l \in Lines, s \in {0, 1, 3} : Shell!InitWith(e, l, s)
  BY DEF Shell!Init
<1>2. /\ l \in Seq(Printables) /\ Len(l) < LineSize /\ LineSize \in Nat
  BY LibraryAssumption DEF ShellConstants, Printables
<1>3. PICK n \in Nat : n = Len(l) /\ n \in 0 .. LineSize - 1
  BY <1>2
<1>4. command = [k \in 0 .. LineSize - 1 |-> IF k < n THEN l[k + 1] ELSE Shell!NUL]
      /\ at = n /\ screen = l /\ where = "get" /\ said = Shell!NoShell /\ seen = <<>>
  BY <1>1, <1>3 DEF Shell!InitWith
<1>5. \A k \in 1 .. n : l[k] = command[k - 1]
  <2> SUFFICES ASSUME NEW k \in 1 .. n PROVE l[k] = command[k - 1]
    OBVIOUS
  <2>1. k - 1 \in 0 .. LineSize - 1 /\ k - 1 < n /\ (k - 1) + 1 = k
    BY <1>2, <1>3
  <2> QED
    BY <1>4, <2>1
<1>6. command = [k \in 0 .. LineSize - 1 |-> command[k]]
  BY <1>4
<1>7. OnScreen
  BY <1>2, <1>3, <1>4, <1>5, <1>6 DEF OnScreen
<1>8. Answered
  <2>1. [what |-> "nothing", hart |-> 0] \in Shell!Means(<<>>)
    BY MeansWord
  <2>2. <<>> \in Seq(Printables)
    OBVIOUS
  <2> QED
    BY <1>4, <2>1, <2>2 DEF Answered, Shell!NoShell
<1> QED
  BY <1>4, <1>7, <1>8 DEF ShellInv

\* The string in the array, once it is terminated, is the line on the screen.
LEMMA TextIs ==
  ASSUME OnScreen, plain, NEW c, c = [command EXCEPT ![at] = Shell!NUL]
  PROVE  Shell!Text(c) = screen
<1>1. PICK n \in 0 .. LineSize - 1 : n = at
  BY DEF OnScreen
<1>2. LineSize \in Nat
  BY LibraryAssumption DEF ShellConstants
<1>3. /\ DOMAIN c = 0 .. LineSize - 1 /\ c[n] = 0
      /\ \A k \in 0 .. n - 1 : c[k] = command[k]
  BY <1>1, <1>2 DEF OnScreen, Shell!NUL
<1>4. /\ screen \in Seq(Printables) /\ Len(screen) = n
      /\ \A k \in 1 .. n : screen[k] = command[k - 1]
  BY <1>1 DEF OnScreen
<1>5. \A k \in 0 .. n - 1 : c[k] = screen[k + 1] /\ c[k] # 0
  <2> SUFFICES ASSUME NEW k \in 0 .. n - 1 PROVE c[k] = screen[k + 1] /\ c[k] # 0
    OBVIOUS
  <2>1. k + 1 \in 1 .. n /\ (k + 1) - 1 = k
    BY <1>2
  <2>2. screen[k + 1] = command[k]
    BY <1>4, <2>1
  <2>3. screen[k + 1] \in Printables
    BY <1>4, <2>1
  <2>4. PICK x \in 32 .. 126 : x = screen[k + 1]
    BY <2>3 DEF Printables
  <2>5. c[k] = x
    BY <1>3, <2>2, <2>4
  <2> QED
    BY <2>4, <2>5
<1> DEFINE ends(k) == c[k] = 0 /\ \A j \in 0 .. k - 1 : c[j] # 0
           end == CHOOSE k \in DOMAIN c : ends(k)
<1>6. n \in DOMAIN c /\ ends(n)
  BY <1>3, <1>5
<1>7. ASSUME NEW k \in DOMAIN c, ends(k) PROVE k = n
  <2>1. k \in 0 .. LineSize - 1
    BY <1>3
  <2>2. ~(k < n)
    <3> SUFFICES ASSUME k < n PROVE FALSE
      OBVIOUS
    <3>1. k \in 0 .. n - 1
      BY <1>2, <2>1
    <3> QED
      BY <1>5, <1>7, <3>1
  <2>3. ~(n < k)
    <3> SUFFICES ASSUME n < k PROVE FALSE
      OBVIOUS
    <3>1. n \in 0 .. k - 1
      BY <1>2, <2>1
    <3> QED
      BY <1>3, <1>7, <3>1
  <2> QED
    BY <1>2, <2>1, <2>2, <2>3
<1>8. end \in DOMAIN c /\ ends(end)
  BY <1>6
<1>9. end = n
  BY <1>7, <1>8
<1>10. Shell!Text(c) = [k \in 1 .. n |-> c[k - 1]]
  BY <1>9 DEF Shell!Text, Shell!NUL
<1>11. \A k \in 1 .. n : c[k - 1] = screen[k]
  <2> SUFFICES ASSUME NEW k \in 1 .. n PROVE c[k - 1] = screen[k]
    OBVIOUS
  <2>1. k - 1 \in 0 .. n - 1 /\ (k - 1) + 1 = k
    BY <1>2
  <2> QED
    BY <1>5, <2>1
<1>12. screen = [k \in 1 .. n |-> screen[k]]
  BY <1>2, <1>4
<1> HIDE DEF end, ends
<1> QED
  BY <1>10, <1>11, <1>12

\* It is kept when a character is stored or taken back, and when a line is entered.
LEMMA ScreenEdit ==
  ASSUME ShellInv, where = "get", NEW c, Shell!Edit(c), UNCHANGED <<editor, said>>
  PROVE  ShellInv'
<1>1. PICK n \in 0 .. LineSize - 1 : n = at
  BY DEF ShellInv, OnScreen
<1>2. LineSize \in Nat \ {0}
  BY LibraryAssumption DEF ShellConstants
<1>3. command = [k \in 0 .. LineSize - 1 |-> command[k]]
  BY DEF ShellInv, OnScreen
<1>4. plain => /\ screen \in Seq(Printables) /\ Len(screen) = n
               /\ \A k \in 1 .. n : screen[k] = command[k - 1]
  BY <1>1 DEF ShellInv, OnScreen
<1>5. CASE Shell!Enter(c)
  <2>1. /\ command' = [command EXCEPT ![at] = Shell!NUL] /\ line' = Shell!Text(command')
        /\ seen' = (IF plain THEN screen ELSE Shell!NotPlain)
        /\ at' = 0 /\ screen' = <<>> /\ where' = "run"
    BY <1>5 DEF Shell!Enter
  <2>2. command' = [k \in 0 .. LineSize - 1 |-> command'[k]]
    BY <1>3, <2>1
  <2>3. OnScreen'
    BY <1>2, <2>1, <2>2 DEF OnScreen
  <2>4. seen' # Shell!NotPlain => plain /\ seen' = screen
    BY <2>1
  <2>5. plain => line' = screen
    BY <2>1, TextIs DEF ShellInv
  <2>6. Answered'
    BY <1>4, <2>1, <2>4, <2>5 DEF Answered
  <2> QED
    BY <2>1, <2>3, <2>6 DEF ShellInv
<1>6. ASSUME UNCHANGED <<editor, said, seen>>, where' \in {"get", "esc1"}, OnScreen'
      PROVE  ShellInv'
  <2>1. Answered'
    BY <1>6 DEF ShellInv, Answered, Shell!Means
  <2> QED
    BY <1>6, <2>1 DEF ShellInv
<1>7. CASE Shell!Erase(c)
  <2>1. /\ UNCHANGED <<command, plain, seen>> /\ where' = "get"
        /\ \/ n > 0 /\ at' = n - 1 /\ screen' = SubSeq(screen, 1, Len(screen) - 1)
           \/ UNCHANGED <<at, screen>>
    BY <1>1, <1>7 DEF Shell!Erase
  <2>2. CASE UNCHANGED <<at, screen>>
    <3>1. OnScreen'
      BY <2>1, <2>2 DEF ShellInv, OnScreen
    <3> QED
      BY <1>6, <2>1, <3>1
  <2>3. CASE n > 0 /\ at' = n - 1 /\ screen' = SubSeq(screen, 1, Len(screen) - 1)
    <3>1. n - 1 \in 0 .. LineSize - 1
      BY <1>2, <2>3
    <3>2. plain => /\ screen' \in Seq(Printables) /\ Len(screen') = n - 1
                   /\ \A k \in 1 .. n - 1 : screen'[k] = command[k - 1]
      <4> SUFFICES ASSUME plain
                   PROVE  /\ screen' \in Seq(Printables) /\ Len(screen') = n - 1
                          /\ \A k \in 1 .. n - 1 : screen'[k] = command[k - 1]
        OBVIOUS
      <4>1. screen' = SubSeq(screen, 1, n - 1)
        BY <1>4, <2>3
      <4>2. /\ SubSeq(screen, 1, n - 1) \in Seq(Printables)
            /\ Len(SubSeq(screen, 1, n - 1)) = n - 1
            /\ \A k \in 1 .. n - 1 : SubSeq(screen, 1, n - 1)[k] = screen[k]
        BY <1>2, <1>4, <2>3
      <4>3. \A k \in 1 .. n - 1 : screen[k] = command[k - 1]
        BY <1>2, <1>4
      <4> QED
        BY <4>1, <4>2, <4>3
    <3>3. OnScreen'
      BY <1>3, <2>1, <2>3, <3>1, <3>2 DEF OnScreen
    <3> QED
      BY <1>6, <2>1, <3>3
  <2> QED
    BY <2>1, <2>2, <2>3
<1>8. CASE Shell!StartEscape(c)
  <2>1. UNCHANGED <<command, at, screen, plain, seen>> /\ where' = "esc1"
    BY <1>8 DEF Shell!StartEscape, Shell!edited
  <2>2. OnScreen'
    BY <2>1 DEF ShellInv, OnScreen
  <2> QED
    BY <1>6, <2>1, <2>2
<1>9. CASE Shell!Store(c)
  <2>1. /\ UNCHANGED seen /\ where' = "get"
        /\ \/ UNCHANGED <<command, at, screen, plain>>
           \/ /\ n < LineSize - 1 /\ command' = [command EXCEPT ![n] = c] /\ at' = n + 1
              /\ screen' = Append(screen, c) /\ plain' = (plain /\ Shell!Printable(c))
    BY <1>1, <1>9 DEF Shell!Store, Shell!Room, Shell!edited
  <2>2. CASE UNCHANGED <<command, at, screen, plain>>
    <3>1. OnScreen'
      BY <2>2 DEF ShellInv, OnScreen
    <3> QED
      BY <1>6, <2>1, <3>1
  <2>3. CASE /\ n < LineSize - 1 /\ command' = [command EXCEPT ![n] = c] /\ at' = n + 1
             /\ screen' = Append(screen, c) /\ plain' = (plain /\ Shell!Printable(c))
    <3>1. n + 1 \in 0 .. LineSize - 1
      BY <1>2, <2>3
    <3>2. command' = [k \in 0 .. LineSize - 1 |-> command'[k]]
      BY <1>3, <2>3
    <3>3. ASSUME plain'
          PROVE  /\ screen' \in Seq(Printables) /\ Len(screen') = n + 1
                 /\ \A k \in 1 .. n + 1 : screen'[k] = command'[k - 1]
      <4>1. plain /\ c \in Printables
        BY <2>3, <3>3 DEF Shell!Printable, Printables
      <4>2. /\ screen' \in Seq(Printables) /\ Len(screen') = n + 1
            /\ screen'[n + 1] = c /\ \A k \in 1 .. n : screen'[k] = screen[k]
        BY <1>4, <2>3, <4>1, AppendProperties
      <4>3. command'[n] = c /\ \A k \in 0 .. n - 1 : command'[k] = command[k]
        BY <1>2, <1>3, <2>3
      <4>4. ASSUME NEW k \in 1 .. n + 1 PROVE screen'[k] = command'[k - 1]
        <5>1. CASE k = n + 1
          BY <1>2, <4>2, <4>3, <5>1
        <5>2. CASE k # n + 1
          <6>1. k \in 1 .. n /\ k - 1 \in 0 .. n - 1
            BY <1>2, <5>2
          <6> QED
            BY <1>4, <4>1, <4>2, <4>3, <6>1
        <5> QED
          BY <5>1, <5>2
      <4> QED
        BY <4>2, <4>4
    <3>4. OnScreen'
      BY <2>3, <3>1, <3>2, <3>3 DEF OnScreen
    <3> QED
      BY <1>6, <2>1, <3>4
  <2> QED
    BY <2>1, <2>2, <2>3
<1> QED
  BY <1>5, <1>7, <1>8, <1>9 DEF Shell!Edit

\* It is kept by every step.
LEMMA ScreenNext == ShellInv /\ [Shell!Next]_Shell!vars => ShellInv'
<1> SUFFICES ASSUME ShellInv, [Shell!Next]_Shell!vars PROVE ShellInv'
  OBVIOUS
<1>1. CASE Shell!GetChar
  <2>1. PICK c : Shell!Edit(c)
    BY <1>1 DEF Shell!GetChar
  <2>2. where = "get" /\ UNCHANGED <<editor, said>>
    BY <1>1 DEF Shell!GetChar
  <2> QED
    BY <2>1, <2>2, ScreenEdit
<1>2. ASSUME UNCHANGED <<command, at, screen>>, plain' => plain
      PROVE  OnScreen'
  BY <1>2 DEF ShellInv, OnScreen
<1>3. ASSUME UNCHANGED <<command, at, screen, editor, said, seen>>, plain' => plain,
             where \in {"get", "esc1", "esc2", "stat"}, where' \in {"get", "esc1", "esc2", "stat"}
      PROVE  ShellInv'
  <2>1. Answered'
    BY <1>3 DEF ShellInv, Answered, Shell!Means
  <2> QED
    BY <1>2, <1>3, <2>1 DEF ShellInv
<1>4. CASE Shell!GetNextKey
  <2>1. where = "get" /\ UNCHANGED <<editor, said>>
    BY <1>4 DEF Shell!GetNextKey
  <2>2. \/ \E c : Shell!Edit(c)
        \/ where' = "get" /\ UNCHANGED <<command, at, screen, plain, seen>>
    BY <1>4, Zenon DEF Shell!GetNextKey, Shell!edited
  <2> QED
    BY <1>3, <2>1, <2>2, ScreenEdit
<1>5. CASE Shell!EscapeFirst
  <2>1. /\ UNCHANGED <<command, at, screen, plain, editor, said, seen>>
        /\ where = "esc1" /\ where' = "esc2"
    BY <1>5 DEF Shell!EscapeFirst, Shell!edited, Shell!running
  <2> QED
    BY <1>3, <2>1
<1>6. CASE Shell!EscapeSecond
  <2>1. /\ UNCHANGED <<command, at, screen, editor, said, seen>>
        /\ where = "esc2" /\ where' = "get"
    BY <1>6 DEF Shell!EscapeSecond, Shell!running
  <2>2. plain' => plain
    BY <1>6 DEF Shell!EscapeSecond
  <2> QED
    BY <1>3, <2>1, <2>2, Zenon
<1>7. CASE Shell!GetEvents
  <2>1. /\ UNCHANGED <<command, at, screen, plain, editor, said, seen>>
        /\ where = "get" /\ where' = "get"
    BY <1>7 DEF Shell!GetEvents, Shell!edited, Shell!running
  <2> QED
    BY <1>3, <2>1
<1>8. CASE Shell!StatLoop
  <2>1. /\ UNCHANGED <<command, at, screen, plain, editor, said, seen>>
        /\ where = "stat" /\ where' \in {"get", "stat"}
    BY <1>8 DEF Shell!StatLoop, Shell!Goto, Shell!edited
  <2> QED
    BY <1>3, <2>1
<1>9. ASSUME UNCHANGED <<editor, command, at, screen, plain, line, seen>>,
             where' \in {"get", "stat", "check", "start"}, Answered'
      PROVE  ShellInv'
  BY <1>2, <1>9 DEF ShellInv
<1>10. CASE Shell!RunKernel
  <2>1. UNCHANGED <<editor, command, at, screen, plain, line, seen>> /\ where = "run"
        /\ where' \in {"get", "stat", "check"}
    BY <1>10 DEF Shell!RunKernel, Shell!Goto, Shell!edited
  <2>2. ASSUME seen # Shell!NotPlain
        PROVE  /\ line = seen /\ seen \in Seq(Printables) /\ line \in Seq(Chars)
    BY <2>1, <2>2 DEF ShellInv, Answered, Printables, Chars
  <2>3. \A s : Shell!Means(s)' = Shell!Means(s)
    BY <2>1 DEF Shell!Means
  <2>4. Answered'
    BY <1>10, <2>1, <2>2, <2>3, RunKernelMeans DEF Answered
  <2> QED
    BY <1>9, <2>1, <2>4
<1>11. CASE Shell!RunUser
  <2>1. UNCHANGED <<editor, command, at, screen, plain, line, seen>> /\ where = "run"
        /\ where' = "get"
    BY <1>11 DEF Shell!RunUser, Shell!Goto, Shell!edited
  <2>2. ASSUME seen # Shell!NotPlain
        PROVE  /\ line = seen /\ seen \in Seq(Printables) /\ line \in Seq(Chars)
    BY <2>1, <2>2 DEF ShellInv, Answered, Printables, Chars
  <2>3. Answered'
    BY <1>11, <2>1, <2>2, RunUserMeans DEF Answered, Shell!Means
  <2> QED
    BY <1>9, <2>1, <2>3
<1>12. CASE Shell!CheckStopped
  <2>1. /\ UNCHANGED <<editor, command, at, screen, plain, line, seen, hart>> /\ where = "check"
        /\ \/ where' = "get" /\ said' = [what |-> "busy", hart |-> hart]
           \/ where' = "start" /\ UNCHANGED said
    BY <1>12 DEF Shell!CheckStopped, Shell!Goto, Shell!Says, Shell!edited
  <2>2. Answered'
    BY <2>1 DEF ShellInv, Answered, Shell!Means
  <2> QED
    BY <1>9, <2>1, <2>2
<1>13. CASE Shell!StartHart
  <2>1. /\ UNCHANGED <<editor, command, at, screen, plain, line, seen, hart>> /\ where = "start"
        /\ where' = "get" /\ said' = [what |-> "started", hart |-> hart]
    BY <1>13 DEF Shell!StartHart, Shell!Goto, Shell!Says, Shell!edited
  <2>2. Answered'
    BY <2>1 DEF ShellInv, Answered, Shell!Means
  <2> QED
    BY <1>9, <2>1, <2>2
<1>14. CASE Shell!HartChanges \/ UNCHANGED Shell!vars
  <2>1. UNCHANGED <<editor, command, at, screen, plain, line, seen, hart, said, where>>
    BY <1>14 DEF Shell!HartChanges, Shell!edited, Shell!vars
  <2>2. Answered'
    BY <2>1 DEF ShellInv, Answered, Shell!Means
  <2> QED
    BY <1>2, <2>1, <2>2 DEF ShellInv
<1> QED
  BY <1>1, <1>4, <1>5, <1>8, <1>10, <1>11, <1>12, <1>13, <1>14, <1>6, <1>7 DEF Shell!Next

\* At all times, for an array of any size, any keys and any number of harts: the line on
\* the screen is the one in the array, with room for its terminator, and what runs is what
\* was shown, a hart starting only when the line named it (main.c:174-279,
\* console.c:15-79, consolev.c:37-77).
THEOREM ShownAlwaysRun == Shell!Spec => []ShownIsRun
<1> QED
  BY ScreenInit, ScreenNext, ScreenMeans, PTL DEF Shell!Spec

----------------------------------------------------------------------------
(* What the helpers are for *)

\* A byte is found where it is first, or not at all.
LEMMA FindIs ==
  ASSUME NEW s \in Seq(Chars), NEW c
  PROVE  Strs!FindRight(s, c, {Strs!strfindchr(s, c), Strs!user_strfindchr(s, c), Strs!strchr(s, c)})
<1> DEFINE places == {k \in DOMAIN Strs!CStr(s) : Strs!CStr(s)[k] = c}
<1>1. PICK n \in Nat : n = Len(s)
  OBVIOUS
<1>2. PICK k : FirstByte(s, c, k)
  BY SomewhereFirst
<1>3. /\ k \in 0 .. n /\ \A j \in 0 .. k - 1 : Strs!CStr(s)[j] # c
      /\ k = n \/ Strs!CStr(s)[k] = c
  BY <1>1, <1>2 DEF FirstByte
<1>4. PICK x : x = IF Strs!CStr(s)[k] = c THEN k ELSE -1
  OBVIOUS
<1>5. Strs!strfindchr(s, c) = x /\ Strs!strchr(s, c) = x /\ Strs!user_strfindchr(s, c) = x
  BY <1>2, <1>4, strfindchrIs, strchrIs DEF Strs!user_strfindchr
<1>6. DOMAIN Strs!CStr(s) = 0 .. n
  BY <1>1, CStrIs
<1>7. \A j \in places : k <= j
  <2> SUFFICES ASSUME NEW j \in places, ~(k <= j) PROVE FALSE
    OBVIOUS
  <2>1. j \in 0 .. k - 1 /\ Strs!CStr(s)[j] = c
    BY <1>3, <1>6
  <2> QED
    BY <1>3, <2>1
<1>8. CASE Strs!CStr(s)[k] = c
  <2>1. x = k /\ k \in places
    BY <1>3, <1>4, <1>6, <1>8
  <2> QED
    BY <1>5, <1>7, <2>1 DEF Strs!FindRight
<1>9. CASE Strs!CStr(s)[k] # c
  <2>1. x = Strs!None
    BY <1>4, <1>9 DEF Strs!None
  <2>2. places = {}
    <3> SUFFICES ASSUME NEW j \in places PROVE FALSE
      OBVIOUS
    <3>1. j \in 0 .. n /\ k <= j /\ k = n /\ Strs!CStr(s)[j] = c
      BY <1>3, <1>6, <1>7, <1>9
    <3>2. j = k
      BY <3>1
    <3> QED
      BY <1>9, <3>1, <3>2
  <2> QED
    BY <1>5, <2>1, <2>2 DEF Strs!FindRight
<1> QED
  BY <1>8, <1>9

\* Comparing tells the order of two strings, or of their first bytes.
LEMMA CompareIs ==
  ASSUME NEW l \in Seq(Chars), NEW r \in Seq(Chars), NEW n \in Nat
  PROVE  /\ Strs!Sign(Strs!strcmp(l, r)) = Strs!Order(l, r)
         /\ Strs!Sign(Strs!strncmp(l, r, n)) = Strs!Order(Strs!Truncated(l, n), Strs!Truncated(r, n))
<1>1. PICK k : Parted(l, r, k)
  BY SomewhereParted
<1>2. Strs!strcmp(l, r) = Strs!CStr(l)[k] - Strs!CStr(r)[k]
  BY <1>1, strcmpIs
<1>3. Strs!strncmp(l, r, n) = IF n <= k THEN 0 ELSE Strs!CStr(l)[k] - Strs!CStr(r)[k]
  BY <1>1, strncmpIs
<1> QED
  BY <1>1, <1>2, <1>3, OrderIs, TruncatedPart

\* Each value follows from the one before.
Alike(n, f, w) == \A k \in 0 .. n : k = 0 \/ f[k - 1] = w[k - 1] => f[k] = w[k]

\* Two functions agree when they do at 0 and then at every place if at the one before.
LEMMA Agree ==
  ASSUME NEW n \in Nat, NEW f, NEW w, Alike(n, f, w)
  PROVE  f[n] = w[n]
<1> DEFINE bad == {i \in 0 .. n : f[i] # w[i]}
<1> SUFFICES ASSUME bad # {} PROVE FALSE
  <2>1. n \in 0 .. n
    OBVIOUS
  <2> QED
    BY <2>1
<1>1. bad \in SUBSET Nat
  OBVIOUS
<1>2. PICK k \in bad : \A i \in bad : k <= i
  BY <1>1, Least
<1>3. k \in 0 .. n /\ f[k] # w[k] /\ k # 0
  BY DEF Alike
<1>4. k - 1 \in 0 .. n /\ ~(k <= k - 1)
  BY <1>3
<1>5. f[k - 1] = w[k - 1]
  BY <1>2, <1>4
<1> QED
  BY <1>3, <1>5 DEF Alike

\* m with size cells from dst on replaced by data.
Filled(m, dst, data, size) == [a \in DOMAIN m |-> IF a \in dst .. dst + size - 1 THEN data ELSE m[a]]

\* m with size cells from dst on replaced by those that m has from src on.
Moved(m, dst, src, size) ==
  [a \in DOMAIN m |-> IF a \in dst .. dst + size - 1 THEN m[src + a - dst] ELSE m[a]]

\* memset fills the cells it is given, and no other.
LEMMA memsetIs ==
  ASSUME NEW N \in Nat, NEW m, DOMAIN m = 0 .. N - 1, m = [a \in DOMAIN m |-> m[a]],
         NEW dst \in Nat, NEW data, NEW size \in Nat
  PROVE  Strs!memset(m, dst, data, size) = Filled(m, dst, data, size)
<1> DEFINE Turn(f, i) == IF i = 0 THEN m ELSE [f[i - 1] EXCEPT ![dst + i - 1] = data]
           after[i \in 0 .. size] == Turn(after, i)
           w == [i \in 0 .. size |-> Filled(m, dst, data, i)]
<1>1. Strs!memset(m, dst, data, size) = after[size]
  BY DEF Strs!memset
<1>2. after = CHOOSE f : f = [i \in 0 .. size |-> Turn(f, i)]
  OBVIOUS
<1>3. ASSUME NEW i \in 0 .. size PROVE w[i] = Turn(w, i)
  <2>1. CASE i = 0
    <3>1. dst .. dst + i - 1 = {}
      BY <2>1
    <3> QED
      BY <2>1, <3>1 DEF Filled
  <2>2. CASE i # 0
    <3>1. i - 1 \in 0 .. size /\ dst + i - 1 = dst + (i - 1)
      BY <2>2
    <3>2. w[i - 1] = Filled(m, dst, data, i - 1) /\ w[i] = Filled(m, dst, data, i)
      BY <3>1
    <3>3. ASSUME NEW a \in 0 .. N - 1
          PROVE  Filled(m, dst, data, i)[a]
                 = IF a = dst + i - 1 THEN data ELSE Filled(m, dst, data, i - 1)[a]
      <4>1. a \in dst .. dst + i - 1 <=> a = dst + i - 1 \/ a \in dst .. dst + (i - 1) - 1
        BY <2>2
      <4> QED
        BY <4>1 DEF Filled
    <3>4. [Filled(m, dst, data, i - 1) EXCEPT ![dst + i - 1] = data]
          = [a \in 0 .. N - 1 |-> IF a = dst + i - 1 THEN data ELSE Filled(m, dst, data, i - 1)[a]]
      BY DEF Filled
    <3>5. Filled(m, dst, data, i) = [a \in 0 .. N - 1 |-> Filled(m, dst, data, i)[a]]
      BY DEF Filled
    <3>6. Filled(m, dst, data, i) = [Filled(m, dst, data, i - 1) EXCEPT ![dst + i - 1] = data]
      BY <3>3, <3>4, <3>5
    <3> QED
      BY <2>2, <3>2, <3>6
  <2> QED
    BY <2>1, <2>2
<1>4. w = [i \in 0 .. size |-> Turn(w, i)]
  <2>1. w = [i \in 0 .. size |-> w[i]]
    OBVIOUS
  <2> HIDE DEF w, Turn
  <2> QED
    BY <1>3, <2>1
<1> HIDE DEF after, Turn, w
<1>5. after = [i \in 0 .. size |-> Turn(after, i)]
  BY <1>2, <1>4, Zenon
<1>6. Alike(size, after, w)
  BY <1>3, <1>5 DEF Turn, Alike
<1>7. after[size] = w[size]
  BY <1>6, Agree
<1> QED
  BY <1>1, <1>7 DEF w

\* Nothing that is read has been written before.
Untouched(dst, src, size) == dst <= src \/ dst >= src + size

\* memcpy moves cells as they were, when it does not read what it has written.
LEMMA memcpyIs ==
  ASSUME NEW N \in Nat, NEW m, DOMAIN m = 0 .. N - 1, m = [a \in DOMAIN m |-> m[a]],
         NEW dst \in Nat, NEW src \in Nat, NEW size \in Nat,
         src + size <= N, Untouched(dst, src, size)
  PROVE  Strs!memcpy(m, dst, src, size) = Moved(m, dst, src, size)
<1> DEFINE Turn(f, i) == IF i = 0 THEN m
                         ELSE [f[i - 1] EXCEPT ![dst + i - 1] = f[i - 1][src + i - 1]]
           after[i \in 0 .. size] == Turn(after, i)
           w == [i \in 0 .. size |-> Moved(m, dst, src, i)]
<1>1. Strs!memcpy(m, dst, src, size) = after[size]
  BY DEF Strs!memcpy
<1>2. after = CHOOSE f : f = [i \in 0 .. size |-> Turn(f, i)]
  OBVIOUS
<1>3. ASSUME NEW i \in 0 .. size PROVE w[i] = Turn(w, i)
  <2>1. CASE i = 0
    <3>1. dst .. dst + i - 1 = {}
      BY <2>1
    <3> QED
      BY <2>1, <3>1 DEF Moved
  <2>2. CASE i # 0
    <3>1. i - 1 \in 0 .. size
      BY <2>2
    <3>2. w[i - 1] = Moved(m, dst, src, i - 1) /\ w[i] = Moved(m, dst, src, i)
      BY <3>1
    <3>3. Moved(m, dst, src, i - 1)[src + i - 1] = m[src + i - 1]
      <4>1. src + i - 1 \in 0 .. N - 1 /\ src + i - 1 \notin dst .. dst + (i - 1) - 1
        BY <2>2 DEF Untouched
      <4> QED
        BY <4>1 DEF Moved
    <3>4. ASSUME NEW a \in 0 .. N - 1
          PROVE  Moved(m, dst, src, i)[a]
                 = IF a = dst + i - 1 THEN m[src + i - 1] ELSE Moved(m, dst, src, i - 1)[a]
      <4>1. a \in dst .. dst + i - 1 <=> a = dst + i - 1 \/ a \in dst .. dst + (i - 1) - 1
        BY <2>2
      <4>2. a = dst + i - 1 => src + a - dst = src + i - 1
        OBVIOUS
      <4>3. CASE a = dst + i - 1
        BY <4>1, <4>2, <4>3 DEF Moved
      <4>4. CASE a # dst + i - 1
        BY <4>1, <4>4 DEF Moved
      <4> QED
        BY <4>3, <4>4
    <3>5. [Moved(m, dst, src, i - 1) EXCEPT ![dst + i - 1] = m[src + i - 1]]
          = [a \in 0 .. N - 1 |-> IF a = dst + i - 1 THEN m[src + i - 1]
                                  ELSE Moved(m, dst, src, i - 1)[a]]
      BY DEF Moved
    <3>6. Moved(m, dst, src, i) = [a \in 0 .. N - 1 |-> Moved(m, dst, src, i)[a]]
      BY DEF Moved
    <3>7. Moved(m, dst, src, i) = [Moved(m, dst, src, i - 1) EXCEPT ![dst + i - 1] = m[src + i - 1]]
      BY <3>4, <3>5, <3>6
    <3> QED
      BY <2>2, <3>2, <3>3, <3>7
  <2> QED
    BY <2>1, <2>2
<1>4. w = [i \in 0 .. size |-> Turn(w, i)]
  <2>1. w = [i \in 0 .. size |-> w[i]]
    OBVIOUS
  <2> HIDE DEF w, Turn
  <2> QED
    BY <1>3, <2>1
<1> HIDE DEF after, Turn, w
<1>5. after = [i \in 0 .. size |-> Turn(after, i)]
  BY <1>2, <1>4, Zenon
<1>6. Alike(size, after, w)
  BY <1>3, <1>5 DEF Turn, Alike
<1>7. after[size] = w[size]
  BY <1>6, Agree
<1> QED
  BY <1>1, <1>7 DEF w

\* One word more is moved.
LEMMA OneLong ==
  ASSUME NEW N \in Nat, NEW m, DOMAIN m = 0 .. N - 1,
         NEW dst \in Nat, NEW src \in Nat, NEW all \in Nat,
         src + all <= N, Untouched(dst, src, all), NEW b \in Nat, b + Word <= all
  PROVE  Moved(m, dst, src, b + Word) = Strs!StoreLong(Moved(m, dst, src, b), dst + b, src + b)
<1>1. Word \in Nat \ {0}
  BY HalfType
<1>2. ASSUME NEW a \in 0 .. N - 1
      PROVE  Moved(m, dst, src, b + Word)[a]
             = IF a \in dst + b .. dst + b + Word - 1
               THEN Moved(m, dst, src, b)[src + b + a - (dst + b)]
               ELSE Moved(m, dst, src, b)[a]
  <2>1. CASE a \in dst + b .. dst + b + Word - 1
    <3>1. PICK x \in Int : x = src + b + a - (dst + b) /\ x = src + a - dst
      BY <1>1, <2>1
    <3>2. PICK u \in Nat : u = Word
      BY <1>1
    <3>3. src + all <= N /\ (dst <= src \/ dst >= src + all)
      BY DEF Untouched
    <3>4. src + b <= x /\ x < src + b + u /\ b + u <= all
      BY <2>1, <3>1, <3>2
    <3>5. x \in 0 .. N - 1 /\ x \notin dst .. dst + b - 1
      BY <3>3, <3>4
    <3>6. Moved(m, dst, src, b)[x] = m[x]
      BY <3>5 DEF Moved
    <3>7. a \in dst .. dst + (b + Word) - 1
      BY <1>1, <2>1
    <3>8. Moved(m, dst, src, b + Word)[a] = m[x]
      BY <3>1, <3>7 DEF Moved
    <3> QED
      BY <2>1, <3>1, <3>6, <3>8
  <2>2. CASE a \notin dst + b .. dst + b + Word - 1
    <3>1. PICK u \in Nat : u = Word
      BY <1>1
    <3>2. a \in dst .. dst + (b + u) - 1 <=> a \in dst .. dst + b - 1
      BY <2>2, <3>1
    <3> QED
      BY <2>2, <3>2, <3>1 DEF Moved
  <2> QED
    BY <2>1, <2>2
<1>3. Moved(m, dst, src, b + Word) = [a \in 0 .. N - 1 |-> Moved(m, dst, src, b + Word)[a]]
  BY DEF Moved
<1>4. Strs!StoreLong(Moved(m, dst, src, b), dst + b, src + b)
      = [a \in 0 .. N - 1 |-> IF a \in dst + b .. dst + b + Word - 1
                              THEN Moved(m, dst, src, b)[src + b + a - (dst + b)]
                              ELSE Moved(m, dst, src, b)[a]]
  BY DEF Strs!StoreLong, Moved
<1>5. Moved(m, dst, src, b + Word) = Strs!StoreLong(Moved(m, dst, src, b), dst + b, src + b)
  BY <1>2, <1>3, <1>4
<1> QED
  BY <1>5

\* The loop over whole words moves words * Word cells.
LEMMA LongsMoved ==
  ASSUME NEW N \in Nat, NEW m, DOMAIN m = 0 .. N - 1, m = [a \in DOMAIN m |-> m[a]],
         NEW dst \in Nat, NEW src \in Nat, NEW words \in Nat,
         src + Word * words <= N, Untouched(dst, src, Word * words),
         NEW longs,
         longs = CHOOSE f : f = [i \in 0 .. words |->
                   IF i = 0 THEN m
                   ELSE Strs!StoreLong(f[i - 1], dst + Word * (i - 1), src + Word * (i - 1))]
  PROVE  longs[words] = Moved(m, dst, src, Word * words)
<1> DEFINE Turn(f, i) == IF i = 0 THEN m
                         ELSE Strs!StoreLong(f[i - 1], dst + Word * (i - 1), src + Word * (i - 1))
           w == [i \in 0 .. words |-> Moved(m, dst, src, Word * i)]
<1>1. Word \in Nat \ {0}
  BY HalfType
<1>2. longs = CHOOSE f : f = [i \in 0 .. words |-> Turn(f, i)]
  OBVIOUS
<1>3. PICK all \in Nat : all = Word * words
  BY <1>1
<1>4. ASSUME NEW i \in 0 .. words PROVE w[i] = Turn(w, i)
  <2>1. CASE i = 0
    <3>1. Word * i = 0 /\ dst .. dst + 0 - 1 = {}
      BY <1>1, <2>1
    <3> QED
      BY <2>1, <3>1 DEF Moved
  <2>2. CASE i # 0
    <3>1. i - 1 \in 0 .. words
      BY <2>2
    <3>2. PICK b \in Nat : b = Word * (i - 1)
      BY <1>1, <3>1
    <3>3. Word * i = b + Word
      BY <1>1, <3>2
    <3>4. b + Word <= all
      <4>1. PICK d \in Nat : words = i + d
        <5>1. words - i \in Nat /\ words = i + (words - i)
          OBVIOUS
        <5> QED
          BY <5>1
      <4>2. PICK e \in Nat : e = Word * d
        BY <1>1
      <4>3. Word * words = Word * i + e
        BY <1>1, <4>1, <4>2
      <4> QED
        BY <1>1, <1>3, <3>3, <4>3
    <3>5. w[i - 1] = Moved(m, dst, src, b) /\ w[i] = Moved(m, dst, src, b + Word)
      BY <3>1, <3>2, <3>3
    <3>6. src + all <= N /\ Untouched(dst, src, all)
      BY <1>3
    <3>7. Moved(m, dst, src, b + Word) = Strs!StoreLong(Moved(m, dst, src, b), dst + b, src + b)
      BY <3>4, <3>6, OneLong
    <3> QED
      BY <2>2, <3>2, <3>5, <3>7
  <2> QED
    BY <2>1, <2>2
<1>5. w = [i \in 0 .. words |-> Turn(w, i)]
  <2>1. w = [i \in 0 .. words |-> w[i]]
    OBVIOUS
  <2> HIDE DEF w, Turn
  <2> QED
    BY <1>4, <2>1
<1> HIDE DEF Turn, w
<1>6. longs = [i \in 0 .. words |-> Turn(longs, i)]
  BY <1>2, <1>5, Zenon
<1>7. Alike(words, longs, w)
  BY <1>4, <1>6 DEF Turn, Alike
<1>8. longs[words] = w[words]
  BY <1>7, Agree
<1> QED
  BY <1>8 DEF w

\* A size is a number of whole words and a rest.
LEMMA WordsOf ==
  ASSUME NEW size \in Nat
  PROVE  \E words \in Nat, rest \in Nat, all \in Nat :
           /\ words = size \div Word /\ rest = size % Word
           /\ all = Word * words /\ size = all + rest
<1>1. PICK W \in Nat \ {0} : W = Word
  BY HalfType
<1>2. PICK words \in Nat, rest \in Nat :
        words = size \div W /\ rest = size % W /\ size = W * words + rest
  <2>1. size \div W \in Nat /\ size % W \in Nat /\ size = W * (size \div W) + (size % W)
    OBVIOUS
  <2> QED
    BY <2>1
<1>3. PICK all \in Nat : all = W * words
  <2>1. W * words \in Nat
    OBVIOUS
  <2> QED
    BY <2>1
<1> QED
  BY <1>1, <1>2, <1>3

\* The rest lies behind the words.
LEMMA RestBehind ==
  ASSUME NEW dst \in Nat, NEW all \in Nat, NEW rest \in Nat, NEW a \in Nat
  PROVE  a \in dst .. dst + (all + rest) - 1
         <=> a \in dst .. dst + all - 1 \/ a \in dst + all .. dst + all + rest - 1
OBVIOUS

\* What the rest is read from has not been written with the words.
LEMMA RestUntouched ==
  ASSUME NEW N \in Nat, NEW dst \in Nat, NEW src \in Nat, NEW all \in Nat, NEW rest \in Nat,
         src + (all + rest) <= N, Untouched(dst, src, all + rest),
         NEW a \in dst + all .. dst + all + rest - 1
  PROVE  /\ src + all + a - (dst + all) = src + a - dst
         /\ src + a - dst \in 0 .. N - 1 /\ src + a - dst \notin dst .. dst + all - 1
BY DEF Untouched

\* memset of the user library fills the same cells, words first.
LEMMA user_memsetIs ==
  ASSUME NEW N \in Nat, NEW m, DOMAIN m = 0 .. N - 1, m = [a \in DOMAIN m |-> m[a]],
         NEW dst \in Nat, NEW data, NEW size \in Nat
  PROVE  Strs!user_memset(m, dst, data, size) = Filled(m, dst, data, size)
<1>1. PICK words \in Nat, rest \in Nat, all \in Nat :
        /\ words = size \div Word /\ rest = size % Word
        /\ all = Word * words /\ size = all + rest
  BY WordsOf
<1>2. size = all + rest
  BY <1>1
<1>3. PICK l : l = Filled(m, dst, data, all)
  OBVIOUS
<1>4. Strs!user_memset(m, dst, data, size) = Strs!memset(l, dst + all, data, rest)
  BY <1>1, <1>3 DEF Strs!user_memset, Strs!RestFrom, Filled
<1>5. DOMAIN l = 0 .. N - 1 /\ l = [a \in DOMAIN l |-> l[a]]
  BY <1>3 DEF Filled
<1>6. Strs!memset(l, dst + all, data, rest) = Filled(l, dst + all, data, rest)
  <2>1. PICK d \in Nat : d = dst + all
    OBVIOUS
  <2> QED
    BY <1>5, <2>1, memsetIs
<1>7. Filled(l, dst + all, data, rest) = Filled(m, dst, data, size)
  <2>1. ASSUME NEW a \in 0 .. N - 1
        PROVE  Filled(l, dst + all, data, rest)[a] = Filled(m, dst, data, size)[a]
    <3>1. a \in dst .. dst + size - 1
          <=> a \in dst .. dst + all - 1 \/ a \in dst + all .. dst + all + rest - 1
      BY <1>2
    <3> QED
      BY <1>3, <1>5, <3>1 DEF Filled
  <2>2. Filled(l, dst + all, data, rest) = [a \in 0 .. N - 1 |-> Filled(l, dst + all, data, rest)[a]]
    BY <1>5 DEF Filled
  <2>3. Filled(m, dst, data, size) = [a \in 0 .. N - 1 |-> Filled(m, dst, data, size)[a]]
    BY DEF Filled
  <2> QED
    BY <2>1, <2>2, <2>3
<1> QED
  BY <1>4, <1>6, <1>7

\* memcpy of the user library moves the same cells, words first.
LEMMA user_memcpyIs ==
  ASSUME NEW N \in Nat, NEW m, DOMAIN m = 0 .. N - 1, m = [a \in DOMAIN m |-> m[a]],
         NEW dst \in Nat, NEW src \in Nat, NEW size \in Nat,
         src + size <= N, Untouched(dst, src, size)
  PROVE  Strs!user_memcpy(m, dst, src, size) = Moved(m, dst, src, size)
<1>1. PICK words \in Nat, rest \in Nat, all \in Nat :
        /\ words = size \div Word /\ rest = size % Word
        /\ all = Word * words /\ size = all + rest
  BY WordsOf
<1>2. size = all + rest
  BY <1>1
<1> DEFINE longs == CHOOSE f : f = [i \in 0 .. words |->
                     IF i = 0 THEN m
                     ELSE Strs!StoreLong(f[i - 1], dst + Word * (i - 1), src + Word * (i - 1))]
<1>3. Strs!user_memcpy(m, dst, src, size) = Strs!memcpy(longs[words], dst + all, src + all, rest)
  BY <1>1 DEF Strs!user_memcpy, Strs!RestFrom
<1>4. longs[words] = Moved(m, dst, src, all)
  <2>1. src + all <= N /\ Untouched(dst, src, all)
    BY <1>2 DEF Untouched
  <2> HIDE DEF longs
  <2>2. longs = CHOOSE f : f = [i \in 0 .. words |->
                     IF i = 0 THEN m
                     ELSE Strs!StoreLong(f[i - 1], dst + Word * (i - 1), src + Word * (i - 1))]
    BY DEF longs
  <2>3. src + Word * words <= N /\ Untouched(dst, src, Word * words)
    BY <1>1, <2>1
  <2>4. longs[words] = Moved(m, dst, src, Word * words)
    BY <2>2, <2>3, LongsMoved
  <2> QED
    BY <1>1, <2>4
<1> HIDE DEF longs
<1>5. PICK l : l = Moved(m, dst, src, all)
  OBVIOUS
<1>6. DOMAIN l = 0 .. N - 1 /\ l = [a \in DOMAIN l |-> l[a]]
  BY <1>5 DEF Moved
<1>7. Strs!memcpy(l, dst + all, src + all, rest) = Moved(l, dst + all, src + all, rest)
  <2>1. PICK d \in Nat, e \in Nat : d = dst + all /\ e = src + all
    OBVIOUS
  <2>2. e + rest <= N /\ Untouched(d, e, rest)
    BY <1>2, <2>1 DEF Untouched
  <2> QED
    BY <1>6, <2>1, <2>2, memcpyIs
<1>8. Moved(l, dst + all, src + all, rest) = Moved(m, dst, src, size)
  <2>1. ASSUME NEW a \in 0 .. N - 1
        PROVE  Moved(l, dst + all, src + all, rest)[a] = Moved(m, dst, src, size)[a]
    <3>1. a \in dst .. dst + size - 1
          <=> a \in dst .. dst + all - 1 \/ a \in dst + all .. dst + all + rest - 1
      BY <1>2, RestBehind
    <3>2. CASE a \in dst + all .. dst + all + rest - 1
      <4>1. PICK x \in Int : x = src + all + a - (dst + all) /\ x = src + a - dst
        OBVIOUS
      <4>2. x \in 0 .. N - 1 /\ x \notin dst .. dst + all - 1
        <5>1. src + (all + rest) <= N /\ Untouched(dst, src, all + rest)
          BY <1>2
        <5>2. src + a - dst \in 0 .. N - 1 /\ src + a - dst \notin dst .. dst + all - 1
          BY <3>2, <5>1, RestUntouched
        <5> QED
          BY <4>1, <5>2
      <4>3. l[x] = m[x]
        BY <1>5, <4>2 DEF Moved
      <4>4. Moved(l, dst + all, src + all, rest)[a] = l[x]
        BY <1>6, <3>2, <4>1 DEF Moved
      <4>5. Moved(m, dst, src, size)[a] = m[x]
        BY <3>1, <3>2, <4>1 DEF Moved
      <4> QED
        BY <4>3, <4>4, <4>5
    <3>3. CASE a \notin dst + all .. dst + all + rest - 1
      <4>1. Moved(l, dst + all, src + all, rest)[a] = l[a]
        BY <1>6, <3>3 DEF Moved
      <4>2. l[a] = Moved(m, dst, src, size)[a]
        BY <1>5, <3>1, <3>3 DEF Moved
      <4> QED
        BY <4>1, <4>2
    <3> QED
      BY <3>2, <3>3
  <2>2. Moved(l, dst + all, src + all, rest)
        = [a \in 0 .. N - 1 |-> Moved(l, dst + all, src + all, rest)[a]]
    BY <1>6 DEF Moved
  <2>3. Moved(m, dst, src, size) = [a \in 0 .. N - 1 |-> Moved(m, dst, src, size)[a]]
    BY DEF Moved
  <2> QED
    BY <2>1, <2>2, <2>3
<1> QED
  BY <1>3, <1>4, <1>5, <1>7, <1>8

\* A memory in which every cell is its own address, and two ranges in it.
InMemory(N, m, dst, src, size) ==
  /\ N \in Nat /\ dst \in Nat /\ src \in Nat /\ size \in Nat
  /\ m = [a \in 0 .. N - 1 |-> a] /\ dst + size <= N /\ src + size <= N

\* In a memory where no two cells are the same, only the same places compare equal.
LEMMA memcmpIs ==
  ASSUME NEW N, NEW m, NEW dst, NEW src, NEW size, InMemory(N, m, dst, src, size)
  PROVE  {Strs!memcmp(m, dst, src, size)} = {size = 0 \/ dst = src}
<1> DEFINE Turn(f, i) == IF i = size THEN TRUE
                         ELSE IF m[dst + i] # m[src + i] THEN FALSE ELSE f[i + 1]
           same[i \in 0 .. size] == Turn(same, i)
           stop == {i \in 0 .. size : i = size \/ dst # src}
           val == [i \in 0 .. size |-> IF i = size THEN TRUE ELSE FALSE]
           k == IF dst = src THEN size ELSE 0
<1>1. /\ N \in Nat /\ dst \in Nat /\ src \in Nat /\ size \in Nat
      /\ m = [a \in 0 .. N - 1 |-> a] /\ dst + size <= N /\ src + size <= N
  BY DEF InMemory
<1>2. Strs!memcmp(m, dst, src, size) = same[0]
  BY DEF Strs!memcmp
<1>3. same = CHOOSE f : f = [i \in 0 .. size |-> Turn(f, i)]
  OBVIOUS
<1>4. ASSUME NEW f, NEW i \in 0 .. size
      PROVE  Turn(f, i) = IF i \in stop THEN val[i] ELSE f[i + 1]
  <2>1. CASE i = size
    BY <2>1
  <2>2. CASE i # size
    <3>1. m[dst + i] = dst + i /\ m[src + i] = src + i
      BY <1>1, <2>2
    <3>2. m[dst + i] = m[src + i] <=> dst = src
      BY <1>1, <3>1
    <3> QED
      BY <2>2, <3>2
  <2> QED
    BY <2>1, <2>2
<1>5. stop \in SUBSET (0 .. size) /\ size \in stop
  BY <1>1
<1>6. k \in 0 .. size /\ k \in stop /\ \A j \in 0 .. k - 1 : j \notin stop
  BY <1>1 DEF k
<1>7. /\ size = 0 \/ dst = src => val[k] = TRUE
      /\ ~(size = 0 \/ dst = src) => val[k] = FALSE
  BY <1>1 DEF k
<1> HIDE DEF stop, val, Turn, same, k
<1>8. \E w : Searches(w, size, stop, val)
  BY <1>1, <1>5, SearchExists
<1>9. \E w : w = [i \in 0 .. size |-> Turn(w, i)]
  <2>1. PICK w : Searches(w, size, stop, val)
    BY <1>8
  <2>2. w = [i \in 0 .. size |-> IF i \in stop THEN val[i] ELSE w[i + 1]]
    BY <2>1 DEF Searches
  <2>3. w = [i \in 0 .. size |-> Turn(w, i)]
    BY <1>4, <2>2
  <2> QED
    BY <2>3
<1>10. same = [i \in 0 .. size |-> Turn(same, i)]
  BY <1>3, <1>9, Zenon
<1>11. Searches(same, size, stop, val)
  BY <1>4, <1>10 DEF Searches
<1>12. StopsAt(same, size, stop, val, k)
  BY <1>1, <1>5, <1>6, <1>11 DEF StopsAt
<1>13. same[0] = val[k]
  BY <1>12, FirstFound
<1>14. /\ size = 0 \/ dst = src => Strs!memcmp(m, dst, src, size) = TRUE
       /\ ~(size = 0 \/ dst = src) => Strs!memcmp(m, dst, src, size) = FALSE
  BY <1>2, <1>7, <1>13
<1> QED
  BY <1>14

\* Filling, moving and comparing do what their names say.
LEMMA MoveIs ==
  ASSUME NEW c \in Strs!Moves
  PROVE  Strs!MoveRight(c, [set  |-> {Strs!memset(Strs!Memory, c.dst, Strs!None, c.size),
                                      Strs!user_memset(Strs!Memory, c.dst, Strs!None, c.size)},
                            copy |-> <<Strs!memcpy(Strs!Memory, c.dst, c.src, c.size),
                                       Strs!user_memcpy(Strs!Memory, c.dst, c.src, c.size)>>,
                            same |-> {Strs!memcmp(Strs!Memory, c.dst, c.src, c.size),
                                      Strs!user_memcmp(Strs!Memory, c.dst, c.src, c.size)}])
<1> DEFINE m == Strs!Memory
           there == c.dst .. c.dst + c.size - 1
<1>1. PICK N \in Nat : N = MemSize
  BY LibraryAssumption DEF StringConstants
<1>2. PICK dst \in Nat, src \in Nat, size \in Nat :
        /\ dst = c.dst /\ src = c.src /\ size = c.size
        /\ dst + size <= N /\ src + size <= N
  BY <1>1 DEF Strs!Moves
<1>3. /\ DOMAIN m = 0 .. N - 1 /\ m = [a \in DOMAIN m |-> m[a]]
      /\ m = [a \in 0 .. N - 1 |-> a] /\ \A a \in 0 .. N - 1 : m[a] = a
  BY <1>1 DEF Strs!Memory
<1> HIDE DEF m
<1>4. /\ Strs!memset(m, dst, Strs!None, size) = Filled(m, dst, Strs!None, size)
      /\ Strs!user_memset(m, dst, Strs!None, size) = Filled(m, dst, Strs!None, size)
  BY <1>3, memsetIs, user_memsetIs
<1>5. Filled(m, dst, Strs!None, size)
      = [a \in DOMAIN m |-> IF a \in dst .. dst + size - 1 THEN Strs!None ELSE a]
  BY <1>3 DEF Filled
<1>6. /\ {Strs!memcmp(m, dst, src, size)} = {size = 0 \/ dst = src}
      /\ {Strs!user_memcmp(m, dst, src, size)} = {size = 0 \/ dst = src}
  <2>1. InMemory(N, m, dst, src, size)
    BY <1>2, <1>3 DEF InMemory
  <2>2. {Strs!memcmp(m, dst, src, size)} = {size = 0 \/ dst = src}
    BY <2>1, memcmpIs
  <2>3. {Strs!user_memcmp(m, dst, src, size)} = {Strs!memcmp(m, dst, src, size)}
    BY DEF Strs!user_memcmp
  <2> QED
    BY <2>2, <2>3
<1>7. ASSUME Untouched(dst, src, size)
      PROVE  /\ Strs!memcpy(m, dst, src, size) = Moved(m, dst, src, size)
             /\ Strs!user_memcpy(m, dst, src, size) = Moved(m, dst, src, size)
  BY <1>2, <1>3, <1>7, memcpyIs, user_memcpyIs
<1>8. Moved(m, dst, src, size)
      = [a \in DOMAIN m |-> IF a \in dst .. dst + size - 1 THEN src + a - dst ELSE a]
  <2>1. ASSUME NEW a \in 0 .. N - 1, a \in dst .. dst + size - 1 PROVE m[src + a - dst] = src + a - dst
    <3>1. src + a - dst \in 0 .. N - 1
      BY <1>2, <2>1
    <3> QED
      BY <1>3, <3>1
  <2> QED
    BY <1>3, <2>1 DEF Moved
<1> DEFINE r == [set  |-> {Strs!memset(m, c.dst, Strs!None, c.size),
                           Strs!user_memset(m, c.dst, Strs!None, c.size)},
                 copy |-> <<Strs!memcpy(m, c.dst, c.src, c.size),
                            Strs!user_memcpy(m, c.dst, c.src, c.size)>>,
                 same |-> {Strs!memcmp(m, c.dst, c.src, c.size),
                           Strs!user_memcmp(m, c.dst, c.src, c.size)}]
<1>9. r.set = {[a \in DOMAIN m |-> IF a \in there THEN Strs!None ELSE a]}
  BY <1>2, <1>4, <1>5
<1>10. r.same = {c.size = 0 \/ c.dst = c.src}
  BY <1>2, <1>6
<1>11. ASSUME c.dst <= c.src \/ c.dst >= c.src + c.size, NEW k \in 1 .. 2
       PROVE  r.copy[k] = [a \in DOMAIN m |-> IF a \in there THEN c.src + a - c.dst ELSE a]
  <2>1. Untouched(dst, src, size)
    BY <1>2, <1>11 DEF Untouched
  <2>2. r.copy[1] = Moved(m, dst, src, size) /\ r.copy[2] = Moved(m, dst, src, size)
    BY <1>2, <1>7, <2>1
  <2>3. k = 1 \/ k = 2
    OBVIOUS
  <2> QED
    BY <1>2, <1>8, <2>2, <2>3
<1> HIDE DEF r
<1>12. Strs!MoveRight(c, r)
  BY <1>9, <1>10, <1>11 DEF Strs!MoveRight, m
<1> QED
  BY <1>12 DEF r, m

\* A part begins at a and ends at b.
PartAt(s, a, b) ==
  /\ a \in 1 .. Len(s) + 1 /\ b \in 0 .. Len(s)
  /\ a <= b + 1 /\ \A k \in a .. b : s[k] # 47
  /\ a = 1 \/ s[a - 1] = 47
  /\ b = Len(s) \/ s[b + 1] = 47

\* The parts of a path are those of PartAt.
LEMMA PartsAre ==
  ASSUME NEW s
  PROVE  /\ \A p \in Strs!Parts(s) : p = <<p[1], p[2]>> /\ PartAt(s, p[1], p[2])
         /\ \A a, b : PartAt(s, a, b) => <<a, b>> \in Strs!Parts(s)
BY DEF Strs!Parts, PartAt, Strs!Slash

\* Where a part begins tells where it ends.
LEMMA PartEnds ==
  ASSUME NEW s \in Seq(Chars), NEW a, NEW b, NEW c, PartAt(s, a, b), PartAt(s, a, c)
  PROVE  b = c
<1>1. PICK n \in Nat : n = Len(s)
  OBVIOUS
<1>2. /\ a \in 1 .. n + 1 /\ b \in 0 .. n /\ a <= b + 1 /\ \A k \in a .. b : s[k] # 47
      /\ b = n \/ s[b + 1] = 47
  BY <1>1 DEF PartAt
<1>3. /\ c \in 0 .. n /\ a <= c + 1 /\ \A k \in a .. c : s[k] # 47
      /\ c = n \/ s[c + 1] = 47
  BY <1>1 DEF PartAt
<1>4. ~(b < c)
  <2> SUFFICES ASSUME b < c PROVE FALSE
    OBVIOUS
  <2>1. b + 1 \in a .. c /\ b # n
    BY <1>2, <1>3
  <2> QED
    BY <1>2, <1>3, <2>1
<1>5. ~(c < b)
  <2> SUFFICES ASSUME c < b PROVE FALSE
    OBVIOUS
  <2>1. c + 1 \in a .. b /\ c # n
    BY <1>2, <1>3
  <2> QED
    BY <1>2, <1>3, <2>1
<1> QED
  BY <1>2, <1>3, <1>4, <1>5

\* The part from a place on.
LEMMA PartFromIs ==
  ASSUME NEW s \in Seq(Chars), NEW a, NEW b, PartAt(s, a, b)
  PROVE  Strs!PartFrom(s, a) = SubSeq(s, a, b)
<1> DEFINE p == CHOOSE q \in Strs!Parts(s) : q[1] = a
<1>1. <<a, b>> \in Strs!Parts(s) /\ <<a, b>>[1] = a
  BY PartsAre
<1>2. p \in Strs!Parts(s) /\ p[1] = a
  BY <1>1
<1> HIDE DEF p
<1>3. PartAt(s, a, p[2])
  BY <1>2, PartsAre
<1>4. p[2] = b
  BY <1>3, PartEnds
<1> QED
  BY <1>2, <1>4 DEF Strs!PartFrom, p

\* The text behind a slash, or all of it, up to its first slash, is a part.
LEMMA PartBehind ==
  ASSUME NEW s \in Seq(Chars), NEW i \in 0 .. Len(s), i = 0 \/ s[i] = 47,
         NEW k, FirstByte(Strs!Behind(s, i), 47, k)
  PROVE  PartAt(s, i + 1, i + k) /\ SubSeq(s, i + 1, i + k) = SubSeq(Strs!Behind(s, i), 1, k)
<1> DEFINE t == Strs!Behind(s, i)
<1>1. PICK n \in Nat : n = Len(s)
  OBVIOUS
<1>2. i \in 0 .. n
  BY <1>1
<1>3. t \in Seq(Chars) /\ Len(t) = n - i /\ \A j \in 1 .. n - i : t[j] = s[i + j]
  <2>1. t \in Seq(Chars) /\ Len(t) = Len(s) - i /\ \A j \in 1 .. Len(s) - i : t[j] = s[i + j]
    BY BehindIs
  <2> QED
    BY <1>1, <2>1
<1>4. t = SubSeq(s, i + 1, n)
  BY <1>1 DEF Strs!Behind
<1> HIDE DEF t
<1>5. PICK e \in Nat : e = n - i
  <2>1. n - i \in Nat
    BY <1>2
  <2> QED
    BY <2>1
<1>6. /\ k \in 0 .. e /\ \A j \in 0 .. k - 1 : Strs!CStr(t)[j] # 47
      /\ k = e \/ Strs!CStr(t)[k] = 47
  BY <1>3, <1>5 DEF FirstByte, t
<1>7. Strs!CStr(t)[e] = 0 /\ \A j \in 0 .. e - 1 : Strs!CStr(t)[j] = t[j + 1]
  BY <1>3, <1>5, CStrIs
<1>8. \A j \in 1 .. k : t[j] # 47
  <2> SUFFICES ASSUME NEW j \in 1 .. k PROVE t[j] # 47
    OBVIOUS
  <2>1. PICK x \in 0 .. k - 1 : x = j - 1 /\ x \in 0 .. e - 1 /\ x + 1 = j
    <3>1. j - 1 \in 0 .. k - 1 /\ j - 1 \in 0 .. e - 1 /\ (j - 1) + 1 = j
      BY <1>6
    <3> QED
      BY <3>1
  <2>2. Strs!CStr(t)[x] # 47
    BY <1>6
  <2>3. Strs!CStr(t)[x] = t[x + 1]
    BY <1>7, <2>1
  <2> QED
    BY <2>1, <2>2, <2>3
<1>9. k # e => t[k + 1] = 47
  <2> SUFFICES ASSUME k # e PROVE t[k + 1] = 47
    OBVIOUS
  <2>1. k \in 0 .. e - 1
    BY <1>6
  <2>2. Strs!CStr(t)[k] = t[k + 1] /\ Strs!CStr(t)[k] = 47
    BY <1>6, <1>7, <2>1
  <2> QED
    BY <2>2
<1>10. PartAt(s, i + 1, i + k)
  <2>1. i + 1 \in 1 .. n + 1 /\ i + k \in 0 .. n /\ i + 1 <= (i + k) + 1
    BY <1>1, <1>5, <1>6
  <2>2. ASSUME NEW j \in i + 1 .. i + k PROVE s[j] # 47
    <3>1. j - i \in 1 .. k /\ j - i \in 1 .. n - i /\ i + (j - i) = j
      BY <1>1, <1>5, <1>6
    <3> QED
      BY <1>3, <1>8, <3>1
  <2>3. i + 1 = 1 \/ s[(i + 1) - 1] = 47
    <3>1. (i + 1) - 1 = i
      BY <1>1
    <3> QED
      BY <3>1
  <2>4. i + k = n \/ s[(i + k) + 1] = 47
    <3>1. CASE k = e
      BY <1>1, <1>5, <3>1
    <3>2. CASE k # e
      <4>1. k + 1 \in 1 .. n - i /\ i + (k + 1) = (i + k) + 1
        BY <1>1, <1>5, <1>6, <3>2
      <4> QED
        BY <1>3, <1>9, <3>2, <4>1
    <3> QED
      BY <3>1, <3>2
  <2> QED
    BY <1>1, <2>1, <2>2, <2>3, <2>4 DEF PartAt
<1>11. SubSeq(s, i + 1, i + k) = SubSeq(t, 1, k)
  <2>1. i + 1 \in 1 .. n + 1 /\ i + k \in i .. n
    BY <1>1, <1>5, <1>6
  <2>2. /\ SubSeq(s, i + 1, i + k) \in Seq(Chars) /\ Len(SubSeq(s, i + 1, i + k)) = k
        /\ \A j \in 1 .. k : SubSeq(s, i + 1, i + k)[j] = s[i + j]
    <3>1. /\ SubSeq(s, i + 1, i + k) \in Seq(Chars)
          /\ Len(SubSeq(s, i + 1, i + k)) = IF i + 1 <= i + k THEN (i + k) - (i + 1) + 1 ELSE 0
          /\ \A j \in 1 .. (i + k) - (i + 1) + 1 : SubSeq(s, i + 1, i + k)[j] = s[(i + 1) + j - 1]
      BY <1>1, <2>1, SubSeqProperties
    <3>2. (IF i + 1 <= i + k THEN (i + k) - (i + 1) + 1 ELSE 0) = k /\ (i + k) - (i + 1) + 1 = k
      BY <1>1, <1>6
    <3>3. \A j \in 1 .. k : (i + 1) + j - 1 = i + j
      BY <1>1
    <3> QED
      BY <3>1, <3>2, <3>3
  <2>3. /\ SubSeq(t, 1, k) \in Seq(Chars) /\ Len(SubSeq(t, 1, k)) = k
        /\ \A j \in 1 .. k : SubSeq(t, 1, k)[j] = t[j]
    BY <1>3, <1>5, <1>6
  <2>4. \A j \in 1 .. k : t[j] = s[i + j]
    BY <1>3, <1>5, <1>6
  <2>5. \A j \in 1 .. k : SubSeq(s, i + 1, i + k)[j] = SubSeq(t, 1, k)[j]
    BY <2>2, <2>3, <2>4
  <2> QED
    BY <2>2, <2>3, <2>5, SeqEqual
<1> QED
  BY <1>10, <1>11 DEF t

\* vfs_parse_first returns the part behind the slash that a path may begin with.
LEMMA FirstPart ==
  ASSUME NEW s \in Seq(Chars)
  PROVE  Strs!vfs_parse_first(s) = Strs!PartFrom(s, IF s # <<>> /\ s[1] = Strs!Slash THEN 2 ELSE 1)
<1>1. PICK n \in Nat : n = Len(s)
  OBVIOUS
<1>2. PICK i \in 0 .. 1 : i = IF s # <<>> /\ s[1] = 47 THEN 1 ELSE 0
  OBVIOUS
<1>3. i \in 0 .. Len(s) /\ (i = 0 \/ s[i] = 47)
  <2>1. s # <<>> => 1 <= n
    BY <1>1
  <2> QED
    BY <1>1, <1>2, <2>1
<1> DEFINE t == Strs!Behind(s, i)
<1>4. t \in Seq(Chars)
  BY <1>3, BehindIs
<1>5. (IF Strs!CStr(s)[0] = Strs!Slash THEN Strs!Behind(s, 1) ELSE s) = t
  <2>1. Strs!CStr(s)[0] = 47 <=> s # <<>> /\ s[1] = 47
    <3>1. CASE n = 0
      <4>1. Strs!CStr(s)[Len(s)] = 0 /\ s = <<>>
        BY <1>1, <3>1, CStrIs
      <4> QED
        BY <1>1, <3>1, <4>1
    <3>2. CASE n # 0
      <4>1. 0 \in 0 .. Len(s) - 1 /\ 0 + 1 = 1 /\ s # <<>>
        BY <1>1, <3>2
      <4> QED
        BY <4>1, CStrIs
    <3> QED
      BY <3>1, <3>2
  <2>2. CASE i = 0
    <3>1. t = SubSeq(s, 1, n)
      BY <1>1, <2>2 DEF Strs!Behind
    <3>2. t = s
      BY <1>1, <3>1, SubSeqFull
    <3> QED
      BY <1>2, <2>1, <2>2, <3>2 DEF Strs!Slash
  <2>3. CASE i = 1
    BY <1>2, <2>1, <2>3 DEF Strs!Slash
  <2> QED
    BY <2>2, <2>3
<1> HIDE DEF t
<1>6. Strs!vfs_parse_first(s) = Strs!CutAt(t, Strs!strchr(t, 47))
  BY <1>4, <1>5, strlenIs DEF Strs!vfs_parse_first, Strs!Slash
<1>7. PICK k : FirstByte(t, 47, k)
  BY <1>4, SomewhereFirst
<1>8. Strs!strchr(t, 47) = IF Strs!CStr(t)[k] = 47 THEN k ELSE -1
  BY <1>4, <1>7, strchrIs
<1>9. Strs!CutAt(t, Strs!strchr(t, 47)) = SubSeq(t, 1, k)
  <2>1. PICK e \in Nat : e = Len(t)
    BY <1>4
  <2>2. k \in 0 .. e /\ (k = e \/ Strs!CStr(t)[k] = 47)
    BY <1>7, <2>1 DEF FirstByte
  <2>3. CASE Strs!CStr(t)[k] = 47
    BY <1>8, <2>2, <2>3 DEF Strs!CutAt, Strs!None
  <2>4. CASE Strs!CStr(t)[k] # 47
    <3>1. k = e /\ SubSeq(t, 1, Len(t)) = t
      BY <1>4, <2>2, <2>4, SubSeqFull
    <3> QED
      BY <1>8, <2>1, <2>4, <3>1 DEF Strs!CutAt, Strs!None
  <2> QED
    BY <2>3, <2>4
<1>10. PartAt(s, i + 1, i + k) /\ SubSeq(s, i + 1, i + k) = SubSeq(t, 1, k)
  BY <1>3, <1>7, PartBehind DEF t
<1>11. Strs!PartFrom(s, i + 1) = SubSeq(t, 1, k)
  BY <1>10, PartFromIs
<1>12. i + 1 = IF s # <<>> /\ s[1] = Strs!Slash THEN 2 ELSE 1
  BY <1>2 DEF Strs!Slash
<1> QED
  BY <1>6, <1>9, <1>11, <1>12

\* The last slash, or 0.
LastSlash(s, m) ==
  m \in 0 .. Len(s) /\ (m = 0 \/ s[m] = 47) /\ \A j \in m + 1 .. Len(s) : s[j] # 47

\* There is a last slash, or none.
LEMMA SomeLastSlash ==
  ASSUME NEW s \in Seq(Chars)
  PROVE  \E m : LastSlash(s, m)
<1>1. PICK n \in Nat : n = Len(s)
  OBVIOUS
<1> DEFINE back == {d \in 0 .. n : n - d = 0 \/ s[n - d] = 47}
<1>2. back \in SUBSET Nat /\ n \in back
  OBVIOUS
<1>3. PICK d \in back : \A x \in back : d <= x
  <2>1. back # {}
    BY <1>2
  <2> QED
    BY <1>2, <2>1, Least
<1>4. PICK m \in 0 .. n : m = n - d
  OBVIOUS
<1>5. m = 0 \/ s[m] = 47
  BY <1>4
<1>6. ASSUME NEW j \in m + 1 .. n, s[j] = 47 PROVE FALSE
  <2>1. n - j \in 0 .. n /\ n - (n - j) = j
    BY <1>4
  <2>2. n - j \in back
    BY <1>6, <2>1
  <2>3. d <= n - j /\ d \in 0 .. n
    BY <1>3, <2>2
  <2> QED
    BY <1>4, <2>3
<1> QED
  BY <1>1, <1>4, <1>5, <1>6 DEF LastSlash

\* From k on, the first slash that is found in the rest.
LEMMA NextSlash ==
  ASSUME NEW s \in Seq(Chars), NEW m, LastSlash(s, m), NEW k \in 0 .. Len(s)
  PROVE  IF k < m
         THEN /\ Strs!strchr(Strs!Behind(s, k), 47) \in Nat
              /\ k + Strs!strchr(Strs!Behind(s, k), 47) + 1 <= m
         ELSE Strs!strchr(Strs!Behind(s, k), 47) = Strs!None
<1>1. PICK n \in Nat : n = Len(s)
  OBVIOUS
<1>2. k \in 0 .. n /\ m \in 0 .. n /\ (m = 0 \/ s[m] = 47) /\ \A j \in m + 1 .. n : s[j] # 47
  BY <1>1 DEF LastSlash
<1>3. PICK t : t = Strs!Behind(s, k)
  OBVIOUS
<1>4. PICK e \in Nat : e = n - k
  <2>1. n - k \in Nat
    BY <1>2
  <2> QED
    BY <2>1
<1>5. t \in Seq(Chars) /\ Len(t) = e /\ \A j \in 1 .. e : t[j] = s[k + j]
  <2>1. t \in Seq(Chars) /\ Len(t) = Len(s) - k /\ \A j \in 1 .. Len(s) - k : t[j] = s[k + j]
    BY <1>3, BehindIs
  <2> QED
    BY <1>1, <1>4, <2>1
<1>6. PICK x : FirstByte(t, 47, x)
  BY <1>5, SomewhereFirst
<1>7. Strs!strchr(t, 47) = IF Strs!CStr(t)[x] = 47 THEN x ELSE -1
  BY <1>5, <1>6, strchrIs
<1>8. /\ x \in 0 .. e /\ \A j \in 0 .. x - 1 : Strs!CStr(t)[j] # 47
      /\ x = e \/ Strs!CStr(t)[x] = 47
  BY <1>5, <1>6 DEF FirstByte
<1>9. Strs!CStr(t)[e] = 0 /\ \A j \in 0 .. e - 1 : Strs!CStr(t)[j] = t[j + 1]
  BY <1>5, CStrIs
<1>10. CASE k < m
  <2>1. PICK y \in 0 .. e - 1 : y = m - k - 1 /\ y + 1 \in 1 .. e /\ k + (y + 1) = m
    <3>1. m - k - 1 \in 0 .. e - 1 /\ (m - k - 1) + 1 \in 1 .. e /\ k + ((m - k - 1) + 1) = m
      BY <1>2, <1>4, <1>10
    <3> QED
      BY <3>1
  <2>2. t[y + 1] = s[m] /\ s[m] = 47
    <3>1. t[y + 1] = s[k + (y + 1)]
      BY <1>5, <2>1
    <3> QED
      BY <1>2, <1>10, <2>1, <3>1
  <2>3. Strs!CStr(t)[y] = 47
    BY <1>9, <2>2
  <2>4. x <= y
    <3> SUFFICES ASSUME ~(x <= y) PROVE FALSE
      OBVIOUS
    <3>1. y \in 0 .. x - 1
      BY <1>8
    <3> QED
      BY <1>8, <2>3, <3>1
  <2>5. x # e
    BY <2>1, <2>4
  <2>6. Strs!strchr(t, 47) = x
    BY <1>7, <1>8, <2>5
  <2>7. x \in Nat /\ k + x + 1 <= m
    BY <1>2, <1>8, <2>1, <2>4
  <2> QED
    BY <1>3, <1>10, <2>6, <2>7
<1>11. CASE ~(k < m)
  <2>1. Strs!CStr(t)[x] # 47
    <3>1. CASE x = e
      BY <1>9, <3>1
    <3>2. CASE x # e
      <4>1. x \in 0 .. e - 1 /\ x + 1 \in 1 .. e /\ k + (x + 1) \in m + 1 .. n
        BY <1>2, <1>4, <1>8, <1>11, <3>2
      <4>2. Strs!CStr(t)[x] = t[x + 1]
        BY <1>9, <4>1
      <4>3. t[x + 1] = s[k + (x + 1)]
        BY <1>5, <4>1
      <4> QED
        BY <1>2, <4>1, <4>2, <4>3
    <3> QED
      BY <3>1, <3>2
  <2> QED
    BY <1>3, <1>7, <1>11, <2>1 DEF Strs!None
<1> QED
  BY <1>10, <1>11

\* The loop ends behind the last slash.
LEMMA LastFound ==
  ASSUME NEW s \in Seq(Chars), NEW m, LastSlash(s, m), NEW from,
         from = CHOOSE f : f = [k \in 0 .. Len(s) |->
                  LET n0 == Strs!strchr(Strs!Behind(s, k), 47)
                  IN  IF n0 = Strs!None THEN k ELSE f[k + n0 + 1]]
  PROVE  from[0] = m
<1> DEFINE nx(k) == Strs!strchr(Strs!Behind(s, k), 47)
           Turn(f, k) == IF nx(k) = Strs!None THEN k ELSE f[k + nx(k) + 1]
<1>1. PICK n \in Nat : n = Len(s)
  OBVIOUS
<1> DEFINE w == [k \in 0 .. n |-> IF k <= m THEN m ELSE k]
<1>2. m \in 0 .. n
  BY <1>1 DEF LastSlash
<1>3. from = CHOOSE f : f = [k \in 0 .. n |-> Turn(f, k)]
  BY <1>1
<1>4. \A k \in 0 .. n : IF k < m THEN nx(k) \in Nat /\ k + nx(k) + 1 <= m ELSE nx(k) = Strs!None
  BY <1>1, NextSlash
<1> HIDE DEF nx
<1>5. ASSUME NEW k \in 0 .. n PROVE w[k] = Turn(w, k)
  <2>1. CASE k < m
    <3>1. PICK x \in Nat : x = nx(k) /\ k + x + 1 <= m
      BY <1>4, <2>1
    <3>2. k + x + 1 \in 0 .. n /\ x # Strs!None
      BY <1>2, <3>1 DEF Strs!None
    <3>3. w[k] = m /\ w[k + x + 1] = m
      <4>1. PICK y \in 0 .. n : y = k + x + 1 /\ y <= m
        BY <3>1, <3>2
      <4>2. w[y] = m
        BY <4>1
      <4>3. k <= m
        BY <1>2, <2>1
      <4> QED
        BY <4>1, <4>2, <4>3
    <3> QED
      BY <3>1, <3>2, <3>3
  <2>2. CASE ~(k < m)
    <3>1. nx(k) = Strs!None /\ w[k] = k
      BY <1>2, <1>4, <2>2
    <3> QED
      BY <3>1
  <2> QED
    BY <2>1, <2>2
<1>6. w = [k \in 0 .. n |-> Turn(w, k)]
  <2>1. w = [k \in 0 .. n |-> w[k]]
    OBVIOUS
  <2> HIDE DEF w, Turn
  <2> QED
    BY <1>5, <2>1
<1> HIDE DEF Turn, w
<1>7. from = [k \in 0 .. n |-> Turn(from, k)]
  BY <1>3, <1>6, Zenon
<1> DEFINE bad == {d \in 0 .. m : from[m - d] # m}
<1>8. bad = {}
  <2> SUFFICES ASSUME bad # {} PROVE FALSE
    OBVIOUS
  <2>1. bad \in SUBSET Nat
    BY <1>2
  <2>2. PICK d \in bad : \A x \in bad : d <= x
    BY <2>1, Least
  <2>3. PICK k \in 0 .. m : k = m - d /\ k \in 0 .. n
    <3>1. m - d \in 0 .. m /\ m - d \in 0 .. n
      BY <1>2
    <3> QED
      BY <3>1
  <2>4. from[k] # m /\ from[k] = Turn(from, k)
    BY <1>7, <2>3
  <2>5. CASE k < m
    <3>1. PICK x \in Nat : x = nx(k) /\ k + x + 1 <= m
      BY <1>4, <2>3, <2>5
    <3>2. x # Strs!None /\ from[k] = from[k + x + 1]
      BY <2>4, <3>1 DEF Turn, Strs!None
    <3>3. PICK y \in 0 .. m : y = m - (k + x + 1) /\ m - y = k + x + 1 /\ ~(d <= y)
      <4>1. m - (k + x + 1) \in 0 .. m /\ m - (m - (k + x + 1)) = k + x + 1 /\ ~(d <= m - (k + x + 1))
        BY <1>2, <2>3, <3>1
      <4> QED
        BY <4>1
    <3>4. from[k + x + 1] = m
      BY <2>2, <3>3
    <3> QED
      BY <2>4, <3>2, <3>4
  <2>6. CASE ~(k < m)
    <3>1. nx(k) = Strs!None /\ k = m
      BY <1>2, <1>4, <2>3, <2>6
    <3> QED
      BY <2>4, <3>1 DEF Turn
  <2> QED
    BY <2>5, <2>6
<1>9. m \in 0 .. m /\ m - m = 0
  BY <1>2
<1> QED
  BY <1>8, <1>9

\* vfs_parse_last returns the part that begins last.
LEMMA LastPart ==
  ASSUME NEW s \in Seq(Chars)
  PROVE  Strs!vfs_parse_last(s)
         = Strs!PartFrom(s, CHOOSE i \in {p[1] : p \in Strs!Parts(s)} :
                              \A p \in Strs!Parts(s) : p[1] <= i)
<1>1. PICK n \in Nat : n = Len(s)
  OBVIOUS
<1>2. PICK m : LastSlash(s, m)
  BY SomeLastSlash
<1>3. m \in 0 .. n /\ (m = 0 \/ s[m] = 47) /\ \A j \in m + 1 .. n : s[j] # 47
  BY <1>1, <1>2 DEF LastSlash
<1>4. PICK t : t = Strs!Behind(s, m)
  OBVIOUS
<1>5. t \in Seq(Chars) /\ t = SubSeq(s, m + 1, n)
  BY <1>1, <1>3, <1>4, BehindIs DEF Strs!Behind
<1>6. Strs!vfs_parse_last(s) = t
  <2> DEFINE from == CHOOSE f : f = [k \in 0 .. Len(s) |->
                  LET n0 == Strs!strchr(Strs!Behind(s, k), 47)
                  IN  IF n0 = Strs!None THEN k ELSE f[k + n0 + 1]]
  <2>1. Strs!vfs_parse_last(s) = Strs!strcpy(Strs!Behind(s, from[0]))
    BY DEF Strs!vfs_parse_last, Strs!Slash
  <2>2. from = CHOOSE f : f = [k \in 0 .. Len(s) |->
                  LET n0 == Strs!strchr(Strs!Behind(s, k), 47)
                  IN  IF n0 = Strs!None THEN k ELSE f[k + n0 + 1]]
    OBVIOUS
  <2> HIDE DEF from
  <2>3. from[0] = m
    BY <1>2, <2>2, LastFound
  <2> QED
    BY <1>4, <1>5, <2>1, <2>3, strlenIs
<1>7. PartAt(s, m + 1, n)
  BY <1>1, <1>3 DEF PartAt
<1> DEFINE starts == {p[1] : p \in Strs!Parts(s)}
           last(i) == \A p \in Strs!Parts(s) : p[1] <= i
<1>8. m + 1 \in starts
  <2>1. <<m + 1, n>> \in Strs!Parts(s) /\ <<m + 1, n>>[1] = m + 1
    BY <1>7, PartsAre
  <2> QED
    BY <2>1
<1>9. last(m + 1)
  <2> SUFFICES ASSUME NEW p \in Strs!Parts(s), ~(p[1] <= m + 1) PROVE FALSE
    OBVIOUS
  <2>1. PICK a \in 1 .. n + 1 : a = p[1] /\ (a = 1 \/ s[a - 1] = 47)
    BY <1>1, PartsAre DEF PartAt
  <2>2. a - 1 \in m + 1 .. n /\ a # 1
    BY <1>3, <2>1
  <2> QED
    BY <1>3, <2>1, <2>2
<1>10. ASSUME NEW i \in starts, last(i) PROVE i = m + 1
  <2>1. PICK p \in Strs!Parts(s) : p[1] = i
    OBVIOUS
  <2>2. i \in 1 .. n + 1
    BY <1>1, <2>1, PartsAre DEF PartAt
  <2>3. i <= m + 1
    BY <1>9, <2>1
  <2>4. m + 1 <= i
    BY <1>8, <1>10
  <2> QED
    BY <1>3, <2>2, <2>3, <2>4
<1> HIDE DEF starts, last
<1>11. (CHOOSE i \in starts : last(i)) = m + 1
  BY <1>8, <1>9, <1>10
<1>12. Strs!PartFrom(s, m + 1) = SubSeq(s, m + 1, n)
  BY <1>7, PartFromIs
<1> QED
  BY <1>5, <1>6, <1>11, <1>12 DEF starts, last

\* What the helpers return for a string.
TextResult(s) == [atoi |-> {Strs!atoi(s), Strs!user_atoi(s)}, strcpy |-> Strs!strcpy(s),
                  strlen |-> {Strs!strlen(s), Strs!user_strlen(s)},
                  first |-> Strs!vfs_parse_first(s), last |-> Strs!vfs_parse_last(s)]

\* What is returned for one string.
LEMMA TextIsRight ==
  ASSUME NEW s \in Seq(Chars)
  PROVE  Strs!TextRight(s, TextResult(s))
<1>1. /\ Strs!Fits(Strs!Number(s)) => Strs!atoi(s) = Strs!Number(s)
      /\ Strs!user_atoi(s) = Strs!atoi(s) /\ Strs!user_strlen(s) = Strs!strlen(s)
      /\ Strs!strlen(s) = Len(s) /\ Strs!strcpy(s) = s
  BY atoiIs, strlenIs DEF Strs!user_atoi, Strs!user_strlen
<1>2. /\ TextResult(s).atoi = {Strs!atoi(s), Strs!user_atoi(s)}
      /\ TextResult(s).strlen = {Strs!strlen(s), Strs!user_strlen(s)}
      /\ TextResult(s).strcpy = Strs!strcpy(s)
      /\ TextResult(s).first = Strs!vfs_parse_first(s)
      /\ TextResult(s).last = Strs!vfs_parse_last(s)
  BY DEF TextResult
<1>3. /\ Strs!Fits(Strs!Number(s)) => TextResult(s).atoi = {Strs!Number(s)}
      /\ TextResult(s).strlen = {Len(s)} /\ TextResult(s).strcpy = s
  BY <1>1, <1>2
<1>4. TextResult(s).first
      = Strs!PartFrom(s, IF s # <<>> /\ s[1] = Strs!Slash THEN 2 ELSE 1)
  BY <1>2, FirstPart
<1>5. TextResult(s).last
      = Strs!PartFrom(s, CHOOSE i \in {p[1] : p \in Strs!Parts(s)} :
                           \A p \in Strs!Parts(s) : p[1] <= i)
  BY <1>2, LastPart
<1> QED
  BY <1>3, <1>4, <1>5 DEF Strs!TextRight

HelpersInv == call \in Strs!Calls /\ Strs!HelpersRight

\* Each call returns what it should.
LEMMA HelpersNext == HelpersInv /\ [Strs!Next]_Strs!vars => HelpersInv'
<1> SUFFICES ASSUME HelpersInv, [Strs!Next]_Strs!vars PROVE HelpersInv'
  OBVIOUS
<1>1. Texts \subseteq Seq(Chars) /\ Counts \subseteq Nat
  BY LibraryAssumption DEF StringConstants, Chars
<1>2. call \in Strs!Calls
  BY DEF HelpersInv
<1>3. CASE Strs!Text
  <2>1. call[1] = "text" /\ result' = <<TextResult(call[2])>> /\ UNCHANGED call
    BY <1>3 DEF Strs!Text, Strs!Returns, TextResult
  <2>2. call[2] \in Texts
    BY <1>2, <2>1 DEF Strs!Calls
  <2>3. Strs!TextRight(call[2], TextResult(call[2]))
    BY <1>1, <2>2, TextIsRight
  <2>4. Strs!HelpersRight'
    BY <2>1, <2>3 DEF Strs!HelpersRight
  <2> QED
    BY <1>2, <2>1, <2>4 DEF HelpersInv
<1>4. CASE Strs!Find
  <2>1. PICK r : /\ r = {Strs!strfindchr(call[2], call[3]), Strs!user_strfindchr(call[2], call[3]),
                         Strs!strchr(call[2], call[3])}
                 /\ call[1] = "find" /\ result' = <<r>> /\ UNCHANGED call
    BY <1>4 DEF Strs!Find, Strs!Returns
  <2>2. call[2] \in Texts
    BY <1>2, <2>1 DEF Strs!Calls
  <2>3. Strs!FindRight(call[2], call[3], r)
    BY <1>1, <2>1, <2>2, FindIs
  <2>4. Strs!HelpersRight'
    BY <2>1, <2>3 DEF Strs!HelpersRight
  <2> QED
    BY <1>2, <2>1, <2>4 DEF HelpersInv
<1>5. CASE Strs!Compare
  <2>1. PICK r : /\ r = [whole |-> {Strs!strcmp(call[2], call[3]), Strs!user_strcmp(call[2], call[3])},
                         n |-> {Strs!strncmp(call[2], call[3], call[4]),
                                Strs!user_strncmp(call[2], call[3], call[4])}]
                 /\ call[1] = "compare" /\ result' = <<r>> /\ UNCHANGED call
    BY <1>5 DEF Strs!Compare, Strs!Returns
  <2>2. call[2] \in Seq(Chars) /\ call[3] \in Seq(Chars) /\ call[4] \in Nat
    BY <1>1, <1>2, <2>1 DEF Strs!Calls
  <2>3. \A x \in r.whole : Strs!Sign(x) = Strs!Order(call[2], call[3])
    BY <2>1, <2>2, CompareIs DEF Strs!user_strcmp
  <2>4. \A x \in r.n : Strs!Sign(x) = Strs!Order(Strs!Truncated(call[2], call[4]),
                                                 Strs!Truncated(call[3], call[4]))
    BY <2>1, <2>2, CompareIs DEF Strs!user_strncmp
  <2>5. Strs!HelpersRight'
    BY <2>1, <2>3, <2>4 DEF Strs!HelpersRight
  <2> QED
    BY <1>2, <2>1, <2>5 DEF HelpersInv
<1>6. CASE Strs!Move
  <2>1. PICK r :
          /\ r = [set  |-> {Strs!memset(Strs!Memory, call[2].dst, Strs!None, call[2].size),
                            Strs!user_memset(Strs!Memory, call[2].dst, Strs!None, call[2].size)},
                  copy |-> <<Strs!memcpy(Strs!Memory, call[2].dst, call[2].src, call[2].size),
                             Strs!user_memcpy(Strs!Memory, call[2].dst, call[2].src, call[2].size)>>,
                  same |-> {Strs!memcmp(Strs!Memory, call[2].dst, call[2].src, call[2].size),
                            Strs!user_memcmp(Strs!Memory, call[2].dst, call[2].src, call[2].size)}]
          /\ call[1] = "move" /\ result' = <<r>> /\ UNCHANGED call
    BY <1>6 DEF Strs!Move, Strs!Returns
  <2>2. call[2] \in Strs!Moves
    BY <1>2, <2>1 DEF Strs!Calls
  <2>3. Strs!MoveRight(call[2], r)
    BY <2>1, <2>2, MoveIs
  <2>4. Strs!HelpersRight'
    BY <2>1, <2>3 DEF Strs!HelpersRight
  <2> QED
    BY <1>2, <2>1, <2>4 DEF HelpersInv
<1>7. CASE UNCHANGED Strs!vars
  BY <1>7 DEF HelpersInv, Strs!HelpersRight, Strs!vars
<1> QED
  BY <1>3, <1>4, <1>5, <1>6, <1>7 DEF Strs!Next

\* For strings and memories of any length and an int and a long of any width: each call of
\* a helper, of the kernel and of the user library, returns what its name says, or leaves
\* it in memory (strhelp.c, memhelp.c, string.c, vfs.c:35-70).
THEOREM HelpersAlwaysRight == Strs!Spec => []HelpersRight
<1>1. Strs!Init => HelpersInv
  BY DEF Strs!Init, Strs!InitWith, HelpersInv, Strs!HelpersRight, Strs!NoResult
<1>2. HelpersInv => HelpersRight
  BY DEF HelpersInv, HelpersRight
<1> QED
  BY <1>1, <1>2, HelpersNext, PTL DEF Strs!Spec

----------------------------------------------------------------------------
(* The association list *)

Elements == [key : Keys, value : Values]

\* A list with one element for each key.
KeyedOnce(l) ==
  /\ l \in Seq(Elements)
  /\ \A i, j \in 1 .. Len(l) : i # j => l[i].key # l[j].key

\* Where map_find_elem finds the key, and what map_find answers for every key.
FirstWith(l, k) ==
  LET I == {i \in 1 .. Len(l) : l[i].key = k}
  IN  IF I # {} THEN Maps!Lists!Min(I) ELSE 0

Answers(l) == [k \in {j \in Keys : FirstWith(l, j) # 0} |-> l[FirstWith(l, k)].value]

\* The model looks for keys as these operators do,
LEMMA FoundNow == Maps!Found = Answers(list) /\ \A k : Maps!FindElem(k) = FirstWith(list, k)
BY DEF Maps!Found, Maps!FindElem, Maps!Lists!SelectInSeq, Answers, FirstWith

\* and so it does after a step.
LEMMA FoundThen == Maps!Found' = Answers(list')
BY DEF Maps!Found, Maps!FindElem, Maps!Lists!SelectInSeq, Answers, FirstWith

\* The first element with the key is found, if there is one.
LEMMA FirstWithIs ==
  ASSUME NEW l \in Seq(Elements), NEW k
  PROVE  \/ /\ FirstWith(l, k) \in 1 .. Len(l) /\ l[FirstWith(l, k)].key = k
         \/ /\ FirstWith(l, k) = 0 /\ \A i \in 1 .. Len(l) : l[i].key # k
<1> DEFINE I == {i \in 1 .. Len(l) : l[i].key = k}
<1>1. CASE I = {}
  BY <1>1 DEF FirstWith
<1>2. CASE I # {}
  <2>1. I \in SUBSET Nat
    OBVIOUS
  <2>2. PICK m \in I : \A i \in I : m <= i
    BY <1>2, <2>1, Least
  <2>3. Maps!Lists!Min(I) \in I
    <3> HIDE DEF I
    <3> QED
      BY <2>2, Zenon DEF Maps!Lists!Min
  <2> QED
    BY <1>2, <2>3 DEF FirstWith
<1> QED
  BY <1>1, <1>2

\* What map_find answers, element by element.
AnswersFit(l) ==
  /\ \A k : k \in DOMAIN Answers(l) <=> \E i \in 1 .. Len(l) : k = l[i].key
  /\ \A i \in 1 .. Len(l) : FirstWith(l, l[i].key) = i /\ Answers(l)[l[i].key] = l[i].value

\* They fit any list with one element for each key.
LEMMA AnswersAre ==
  ASSUME NEW l, KeyedOnce(l)
  PROVE  AnswersFit(l)
<1>1. l \in Seq(Elements) /\ \A i \in 1 .. Len(l) : l[i] \in Elements /\ l[i].key \in Keys
  <2>1. l \in Seq(Elements) /\ \A i \in 1 .. Len(l) : l[i] \in Elements
    BY DEF KeyedOnce
  <2> QED
    BY <2>1 DEF Elements
<1>2. \A k : k \in DOMAIN Answers(l) <=> k \in Keys /\ FirstWith(l, k) # 0
  BY DEF Answers
<1>3. \A i \in 1 .. Len(l) : FirstWith(l, l[i].key) = i
  <2> TAKE i \in 1 .. Len(l)
  <2>1. l[i].key = l[i].key
    OBVIOUS
  <2> QED
    BY <1>1, FirstWithIs DEF KeyedOnce
<1>4. \A i \in 1 .. Len(l) : l[i].key \in DOMAIN Answers(l) /\ Answers(l)[l[i].key] = l[i].value
  <2> TAKE i \in 1 .. Len(l)
  <2>1. l[i].key \in Keys /\ FirstWith(l, l[i].key) = i /\ i # 0
    BY <1>1, <1>3
  <2> QED
    BY <2>1 DEF Answers
<1>5. \A k : k \in DOMAIN Answers(l) => \E i \in 1 .. Len(l) : k = l[i].key
  BY <1>1, <1>2, FirstWithIs
<1> QED
  BY <1>3, <1>4, <1>5 DEF AnswersFit

\* What map_add makes of the list l.
HasPut(m, l, k, v) ==
  /\ KeyedOnce(m)
  /\ Answers(m) = [j \in DOMAIN Answers(l) \cup {k} |-> IF j = k THEN v ELSE Answers(l)[j]]

\* It puts: an element more in front,
LEMMA AddedIs ==
  ASSUME NEW l, KeyedOnce(l), NEW k \in Keys, NEW v \in Values, FirstWith(l, k) = 0,
         NEW m, m = <<[key |-> k, value |-> v]>> \o l
  PROVE  HasPut(m, l, k, v)
<1> DEFINE e == [key |-> k, value |-> v]
<1>1. l \in Seq(Elements) /\ e \in Elements /\ Len(l) \in Nat
  BY DEF KeyedOnce, Elements
<1>2. /\ m \in Seq(Elements) /\ Len(m) = Len(l) + 1 /\ m[1] = e
      /\ \A i \in 2 .. Len(m) : m[i] = l[i - 1] /\ i - 1 \in 1 .. Len(l)
      /\ \A i \in 1 .. Len(l) : m[i + 1] = l[i] /\ i + 1 \in 1 .. Len(m)
  <2> HIDE DEF e
  <2> QED
    BY <1>1 DEF e
<1>3. \A i \in 1 .. Len(l) : l[i].key # k
  BY <1>1, FirstWithIs
<1>4. KeyedOnce(m)
  <2> SUFFICES ASSUME NEW i \in 1 .. Len(m), NEW j \in 1 .. Len(m), i < j
               PROVE  m[i].key # m[j].key
    BY <1>1, <1>2 DEF KeyedOnce
  <2>1. j \in 2 .. Len(m) /\ (i = 1 \/ i \in 2 .. Len(m))
    BY <1>1, <1>2
  <2>2. CASE i = 1
    BY <1>2, <1>3, <2>1, <2>2
  <2>3. CASE i \in 2 .. Len(m)
    <3>1. i - 1 \in 1 .. Len(l) /\ j - 1 \in 1 .. Len(l) /\ i - 1 # j - 1
      BY <1>2, <2>1, <2>3
    <3>2. l[i - 1].key # l[j - 1].key
      BY <3>1 DEF KeyedOnce
    <3>3. m[i] = l[i - 1] /\ m[j] = l[j - 1]
      BY <1>2, <2>1, <2>3
    <3> QED
      BY <3>2, <3>3
  <2> QED
    BY <2>1, <2>2, <2>3
<1>5. /\ \A j : j \in DOMAIN Answers(l) <=> \E i \in 1 .. Len(l) : j = l[i].key
      /\ \A i \in 1 .. Len(l) : Answers(l)[l[i].key] = l[i].value
      /\ \A j : j \in DOMAIN Answers(m) <=> \E i \in 1 .. Len(m) : j = m[i].key
      /\ \A i \in 1 .. Len(m) : Answers(m)[m[i].key] = m[i].value
  <2>1. AnswersFit(l) /\ AnswersFit(m)
    BY <1>4, AnswersAre, Zenon
  <2> QED
    BY <2>1, Zenon DEF AnswersFit
<1>6. e.key = k /\ e.value = v /\ 1 \in 1 .. Len(m)
  BY <1>1, <1>2
<1> HIDE DEF e
<1>7. DOMAIN Answers(m) = DOMAIN Answers(l) \cup {k}
  <2>1. \A j : j \in DOMAIN Answers(m) => j \in DOMAIN Answers(l) \cup {k}
    <3> SUFFICES ASSUME NEW i \in 1 .. Len(m) PROVE m[i].key \in DOMAIN Answers(l) \cup {k}
      BY <1>5
    <3>1. i = 1 \/ i \in 2 .. Len(m)
      BY <1>1, <1>2
    <3> QED
      BY <1>2, <1>5, <1>6, <3>1
  <2>2. k \in DOMAIN Answers(m)
    BY <1>2, <1>5, <1>6
  <2>3. \A j \in DOMAIN Answers(l) : j \in DOMAIN Answers(m)
    BY <1>2, <1>5
  <2> QED
    BY <2>1, <2>2, <2>3
<1>8. Answers(m)[k] = v
  BY <1>2, <1>5, <1>6
<1>9. \A j \in DOMAIN Answers(l) : j # k /\ Answers(m)[j] = Answers(l)[j]
  <2> SUFFICES ASSUME NEW i \in 1 .. Len(l)
               PROVE  l[i].key # k /\ Answers(m)[l[i].key] = Answers(l)[l[i].key]
    BY <1>5
  <2>1. m[i + 1] = l[i] /\ i + 1 \in 1 .. Len(m)
    BY <1>2
  <2>2. Answers(m)[m[i + 1].key] = m[i + 1].value
    BY <1>5, <2>1, Zenon
  <2>3. Answers(l)[l[i].key] = l[i].value /\ l[i].key # k
    BY <1>3, <1>5, Zenon
  <2> QED
    BY <2>1, <2>2, <2>3, Zenon
<1>10. Answers(m) = [j \in DOMAIN Answers(m) |-> Answers(m)[j]]
  BY DEF Answers
<1> QED
  BY <1>4, <1>7, <1>8, <1>9, <1>10 DEF HasPut

\* or a new value in the one that is there.
LEMMA ChangedIs ==
  ASSUME NEW l, KeyedOnce(l), NEW k \in Keys, NEW v \in Values, FirstWith(l, k) # 0,
         NEW m, m = [l EXCEPT ![FirstWith(l, k)].value = v]
  PROVE  HasPut(m, l, k, v)
<1>1. l \in Seq(Elements)
  BY DEF KeyedOnce
<1>2. PICK n \in 1 .. Len(l) : n = FirstWith(l, k) /\ l[n].key = k
  BY <1>1, FirstWithIs
<1>3. /\ m \in Seq(Elements) /\ Len(m) = Len(l)
      /\ \A i \in 1 .. Len(l) : m[i].key = l[i].key /\ m[i].value = IF i = n THEN v ELSE l[i].value
  <2>1. m = [i \in 1 .. Len(l) |-> IF i = n THEN [l[n] EXCEPT !.value = v] ELSE l[i]]
    <3>1. DOMAIN l = 1 .. Len(l) /\ l = [i \in DOMAIN l |-> l[i]]
      BY <1>1
    <3>2. m = [l EXCEPT ![n].value = v]
      BY <1>2
    <3> QED
      BY <3>1, <3>2
  <2>2. \A i \in 1 .. Len(l) : l[i] \in Elements
    BY <1>1
  <2>3. [l[n] EXCEPT !.value = v] \in Elements
    BY <2>2 DEF Elements
  <2>4. m \in [1 .. Len(l) -> Elements] /\ Len(l) \in Nat
    <3>1. \A i \in 1 .. Len(l) : (IF i = n THEN [l[n] EXCEPT !.value = v] ELSE l[i]) \in Elements
      BY <2>2, <2>3
    <3>2. Len(l) \in Nat
      BY <1>1
    <3> QED
      BY <2>1, <3>1, <3>2, Zenon
  <2>5. \A i \in 1 .. Len(l) : m[i].key = l[i].key /\ m[i].value = IF i = n THEN v ELSE l[i].value
    BY <2>1, <2>2 DEF Elements
  <2>6. m \in Seq(Elements) /\ Len(m) = Len(l)
    <3>1. \A f, N : N \in Nat /\ f \in [1 .. N -> Elements] => f \in Seq(Elements) /\ Len(f) = N
      OBVIOUS
    <3> QED
      BY <2>4, <3>1, Zenon
  <2> QED
    BY <2>5, <2>6
<1>4. KeyedOnce(m)
  BY <1>3 DEF KeyedOnce
<1>5. /\ \A j : j \in DOMAIN Answers(l) <=> \E i \in 1 .. Len(l) : j = l[i].key
      /\ \A i \in 1 .. Len(l) : Answers(l)[l[i].key] = l[i].value
      /\ \A j : j \in DOMAIN Answers(m) <=> \E i \in 1 .. Len(m) : j = m[i].key
      /\ \A i \in 1 .. Len(m) : Answers(m)[m[i].key] = m[i].value
  <2>1. AnswersFit(l) /\ AnswersFit(m)
    BY <1>4, AnswersAre, Zenon
  <2> QED
    BY <2>1, Zenon DEF AnswersFit
<1>6. DOMAIN Answers(m) = DOMAIN Answers(l) /\ k \in DOMAIN Answers(l)
  <2>1. \A j : j \in DOMAIN Answers(m) <=> j \in DOMAIN Answers(l)
    <3> TAKE j
    <3>1. ASSUME j \in DOMAIN Answers(m) PROVE j \in DOMAIN Answers(l)
      <4>1. PICK i \in 1 .. Len(m) : j = m[i].key
        BY <1>5, <3>1, Zenon
      <4>2. i \in 1 .. Len(l) /\ j = l[i].key
        BY <1>3, <4>1, Zenon
      <4> QED
        BY <1>5, <4>2, Zenon
    <3>2. ASSUME j \in DOMAIN Answers(l) PROVE j \in DOMAIN Answers(m)
      <4>1. PICK i \in 1 .. Len(l) : j = l[i].key
        BY <1>5, <3>2, Zenon
      <4>2. i \in 1 .. Len(m) /\ j = m[i].key
        BY <1>3, <4>1, Zenon
      <4> QED
        BY <1>5, <4>2, Zenon
    <3> QED
      BY <3>1, <3>2
  <2>2. k \in DOMAIN Answers(l)
    BY <1>2, <1>5, Zenon
  <2> QED
    BY <2>1, <2>2
<1>7. \A i \in 1 .. Len(l) : Answers(m)[l[i].key] = IF l[i].key = k THEN v ELSE Answers(l)[l[i].key]
  <2> TAKE i \in 1 .. Len(l)
  <2>1. l[i].key = k <=> i = n
    BY <1>2 DEF KeyedOnce
  <2>2. Answers(m)[m[i].key] = m[i].value /\ Answers(l)[l[i].key] = l[i].value
    BY <1>3, <1>5, Zenon
  <2>3. m[i].key = l[i].key /\ m[i].value = IF i = n THEN v ELSE l[i].value
    BY <1>3, Zenon
  <2> QED
    BY <2>1, <2>2, <2>3, Zenon
<1>8. \A j \in DOMAIN Answers(l) : Answers(m)[j] = IF j = k THEN v ELSE Answers(l)[j]
  <2> SUFFICES ASSUME NEW j \in DOMAIN Answers(l)
               PROVE  Answers(m)[j] = IF j = k THEN v ELSE Answers(l)[j]
    OBVIOUS
  <2>1. PICK i \in 1 .. Len(l) : j = l[i].key
    BY <1>5, Zenon
  <2> QED
    BY <1>7, <2>1, Zenon
<1>9. Answers(m) = [j \in DOMAIN Answers(m) |-> Answers(m)[j]]
  BY DEF Answers
<1> QED
  BY <1>4, <1>6, <1>8, <1>9 DEF HasPut

\* One element is unlinked, the others stay in their order.
LEMMA UnlinkedIs ==
  ASSUME NEW S, NEW l \in Seq(S), NEW n \in 1 .. Len(l),
         NEW m, m = SubSeq(l, 1, n - 1) \o SubSeq(l, n + 1, Len(l))
  PROVE  /\ m \in Seq(S) /\ Len(m) = Len(l) - 1
         /\ \A i \in 1 .. Len(m) : m[i] = IF i < n THEN l[i] ELSE l[i + 1]
<1>1. Len(l) \in Nat /\ n \in Nat /\ \A i \in 1 .. Len(l) : l[i] \in S
  OBVIOUS
<1>2. PICK a, b : a = SubSeq(l, 1, n - 1) /\ b = SubSeq(l, n + 1, Len(l))
  OBVIOUS
<1>3. a \in Seq(S) /\ Len(a) = n - 1 /\ \A i \in 1 .. n - 1 : a[i] = l[i]
  BY <1>1, <1>2
<1>4. b \in Seq(S) /\ Len(b) = Len(l) - n /\ \A i \in 1 .. Len(l) - n : b[i] = l[n + i]
  BY <1>1, <1>2
<1>5. m = a \o b
  BY <1>2
<1>6. PICK c \in Nat, d \in Nat : c = Len(a) /\ d = Len(b) /\ c = n - 1 /\ d = Len(l) - n
  <2>1. n - 1 \in Nat /\ Len(l) - n \in Nat
    BY <1>1
  <2> QED
    BY <1>3, <1>4, <2>1, Zenon
<1>7. /\ m \in Seq(S) /\ Len(m) = c + d
      /\ \A i \in 1 .. c + d : m[i] = IF i <= c THEN a[i] ELSE b[i - c]
  <2>1. \A x, y \in Seq(S) : /\ x \o y \in Seq(S) /\ Len(x \o y) = Len(x) + Len(y)
                             /\ \A i \in 1 .. Len(x) + Len(y) :
                                  (x \o y)[i] = IF i <= Len(x) THEN x[i] ELSE y[i - Len(x)]
    OBVIOUS
  <2>2. /\ a \o b \in Seq(S) /\ Len(a \o b) = Len(a) + Len(b)
        /\ \A i \in 1 .. Len(a) + Len(b) :
             (a \o b)[i] = IF i <= Len(a) THEN a[i] ELSE b[i - Len(a)]
    BY <1>3, <1>4, <2>1, Zenon
  <2>3. m = a \o b /\ Len(a) = c /\ Len(b) = d
    BY <1>5, <1>6
  <2> QED
    BY <2>2, <2>3, Zenon
<1>8. c + d = Len(l) - 1
  BY <1>1, <1>6
<1>9. ASSUME NEW i \in 1 .. Len(l) - 1 PROVE m[i] = IF i < n THEN l[i] ELSE l[i + 1]
  <2>1. CASE i < n
    <3>1. i \in 1 .. n - 1 /\ i <= c /\ i \in 1 .. c + d
      BY <1>1, <1>6, <2>1
    <3>2. m[i] = a[i] /\ a[i] = l[i]
      BY <1>3, <1>7, <3>1, Zenon
    <3> QED
      BY <2>1, <3>2
  <2>2. CASE ~(i < n)
    <3>1. i - c \in 1 .. Len(l) - n /\ ~(i <= c) /\ n + (i - c) = i + 1 /\ i \in 1 .. c + d
      BY <1>1, <1>6, <2>2
    <3>2. m[i] = b[i - c] /\ b[i - c] = l[n + (i - c)]
      BY <1>4, <1>7, <3>1, Zenon
    <3> QED
      BY <2>2, <3>1, <3>2
  <2> QED
    BY <2>1, <2>2
<1> QED
  BY <1>7, <1>8, <1>9

\* map_remove_elem drops its key and no other.
LEMMA RemovedIs ==
  ASSUME NEW l, KeyedOnce(l), NEW n \in 1 .. Len(l), NEW m, m = Maps!Lists!RemoveAt(l, n)
  PROVE  /\ KeyedOnce(m)
         /\ Answers(m) = [j \in DOMAIN Answers(l) \ {l[n].key} |-> Answers(l)[j]]
<1>1. l \in Seq(Elements) /\ Len(l) \in Nat
  BY DEF KeyedOnce
<1>2. m = SubSeq(l, 1, n - 1) \o SubSeq(l, n + 1, Len(l))
  BY DEF Maps!Lists!RemoveAt
<1>3. /\ m \in Seq(Elements) /\ Len(m) = Len(l) - 1
      /\ \A i \in 1 .. Len(m) : m[i] = IF i < n THEN l[i] ELSE l[i + 1]
  BY <1>1, <1>2, UnlinkedIs
<1> DEFINE moved(i) == IF i < n THEN i ELSE i + 1
<1>4. \A i \in 1 .. Len(m) : moved(i) \in 1 .. Len(l) /\ moved(i) # n /\ m[i] = l[moved(i)]
  BY <1>1, <1>3
<1>5. \A i, j \in 1 .. Len(m) : i # j => moved(i) # moved(j)
  BY <1>1, <1>3
<1>6. \A j \in 1 .. Len(l) : j # n => \E i \in 1 .. Len(m) : moved(i) = j
  <2> TAKE j \in 1 .. Len(l)
  <2>1. CASE j < n
    BY <1>1, <1>3, <2>1
  <2>2. CASE j > n
    <3>1. j - 1 \in 1 .. Len(m) /\ moved(j - 1) = j
      BY <1>1, <1>3, <2>2
    <3> QED
      BY <3>1, Zenon
  <2> QED
    BY <1>1, <2>1, <2>2
<1> HIDE DEF moved
<1>7. KeyedOnce(m)
  <2> SUFFICES ASSUME NEW i \in 1 .. Len(m), NEW j \in 1 .. Len(m), i # j
               PROVE  m[i].key # m[j].key
    BY <1>3 DEF KeyedOnce
  <2>1. moved(i) \in 1 .. Len(l) /\ moved(j) \in 1 .. Len(l) /\ moved(i) # moved(j)
    BY <1>4, <1>5
  <2>2. l[moved(i)].key # l[moved(j)].key
    BY <2>1 DEF KeyedOnce
  <2> QED
    BY <1>4, <2>2
<1>8. AnswersFit(l) /\ AnswersFit(m)
  BY <1>7, AnswersAre, Zenon
<1>9. \A i \in 1 .. Len(l) : l[i].key = l[n].key => i = n
  BY DEF KeyedOnce
<1>10. ASSUME NEW j \in DOMAIN Answers(m)
       PROVE  j \in DOMAIN Answers(l) \ {l[n].key} /\ Answers(m)[j] = Answers(l)[j]
  <2>1. PICK i \in 1 .. Len(m) : j = m[i].key
    BY <1>8, <1>10, Zenon DEF AnswersFit
  <2>2. Answers(m)[j] = m[i].value
    BY <1>8, <2>1, Zenon DEF AnswersFit
  <2>3. PICK h \in 1 .. Len(l) : h # n /\ m[i] = l[h]
    BY <1>4, Zenon
  <2>4. j = l[h].key /\ j # l[n].key
    BY <1>9, <2>1, <2>3, Zenon
  <2>5. j \in DOMAIN Answers(l) /\ Answers(l)[j] = l[h].value
    BY <1>8, <2>4, Zenon DEF AnswersFit
  <2> QED
    BY <2>2, <2>3, <2>4, <2>5, Zenon
<1>11. ASSUME NEW j \in DOMAIN Answers(l), j # l[n].key
       PROVE  j \in DOMAIN Answers(m)
  <2>1. PICK h \in 1 .. Len(l) : j = l[h].key
    BY <1>8, <1>11, Zenon DEF AnswersFit
  <2>2. h # n
    BY <1>11, <2>1
  <2>3. PICK i \in 1 .. Len(m) : moved(i) = h
    BY <1>6, <2>2, Zenon
  <2>4. j = m[i].key
    BY <1>4, <2>1, <2>3, Zenon
  <2> QED
    BY <1>8, <2>4, Zenon DEF AnswersFit
<1>12. DOMAIN Answers(m) = DOMAIN Answers(l) \ {l[n].key}
  BY <1>10, <1>11
<1>13. Answers(m) = [j \in DOMAIN Answers(m) |-> Answers(m)[j]]
  BY DEF Answers
<1> QED
  BY <1>7, <1>10, <1>12, <1>13

\* Each operation of the list is one of the dictionary.
LEMMA AddPuts ==
  ASSUME KeyedOnce(list), NEW k \in Keys, NEW v \in Values, Maps!Add(k, v)
  PROVE  KeyedOnce(list') /\ Maps!D!Put(k, v)
<1>1. /\ Maps!Found = Answers(list) /\ Maps!Found' = Answers(list')
      /\ Maps!FindElem(k) = FirstWith(list, k)
  BY FoundNow, FoundThen
<1>2. CASE FirstWith(list, k) = 0
  <2>1. list' = <<[key |-> k, value |-> v]>> \o list
    BY <1>1, <1>2 DEF Maps!Add
  <2>2. HasPut(list', list, k, v)
    BY <1>2, <2>1, AddedIs
  <2> QED
    BY <1>1, <2>2, Zenon DEF Maps!D!Put, HasPut
<1>3. CASE FirstWith(list, k) # 0
  <2>1. list' = [list EXCEPT ![FirstWith(list, k)].value = v]
    BY <1>1, <1>3 DEF Maps!Add
  <2>2. HasPut(list', list, k, v)
    BY <1>3, <2>1, ChangedIs
  <2> QED
    BY <1>1, <2>2, Zenon DEF Maps!D!Put, HasPut
<1> QED
  BY <1>2, <1>3

\* Unlinking an element drops its key from the dictionary.
LEMMA ElementDropped ==
  ASSUME KeyedOnce(list), NEW n \in 1 .. Len(list), list' = Maps!RemoveElem(n)
  PROVE  /\ KeyedOnce(list') /\ Maps!D!Drop(list[n].key) /\ list[n].key \in Keys
         /\ list[n].key \in DOMAIN Maps!Found /\ Maps!Found[list[n].key] = list[n].value
<1>1. Maps!Found = Answers(list) /\ Maps!Found' = Answers(list')
  BY FoundNow, FoundThen
<1>2. list' = Maps!Lists!RemoveAt(list, n)
  BY DEF Maps!RemoveElem
<1>3. /\ KeyedOnce(list')
      /\ Answers(list') = [j \in DOMAIN Answers(list) \ {list[n].key} |-> Answers(list)[j]]
  BY <1>2, RemovedIs
<1>4. list[n].key \in DOMAIN Answers(list) /\ Answers(list)[list[n].key] = list[n].value
  BY AnswersAre DEF AnswersFit
<1>5. list[n].key \in Keys
  <2>1. list[n] \in Elements
    BY DEF KeyedOnce
  <2> QED
    BY <2>1 DEF Elements
<1> QED
  BY <1>1, <1>3, <1>4, <1>5 DEF Maps!D!Drop, Maps!D!Only

\* map_remove drops the key that was asked for (map.c:48-61),
LEMMA RemoveDrops ==
  ASSUME KeyedOnce(list), NEW k \in Keys, Maps!Remove(k)
  PROVE  KeyedOnce(list') /\ Maps!D!Drop(k)
<1>1. FirstWith(list, k) # 0 /\ list' = Maps!RemoveElem(FirstWith(list, k))
  BY FoundNow DEF Maps!Remove
<1>2. PICK n \in 1 .. Len(list) : n = FirstWith(list, k) /\ list[n].key = k
  BY <1>1, FirstWithIs DEF KeyedOnce
<1> QED
  BY <1>1, <1>2, ElementDropped

\* and map_remove_by_value one that has the value (map.c:72-85).
LEMMA RemoveByValueDrops ==
  ASSUME KeyedOnce(list), NEW v \in Values, Maps!RemoveByValue(v)
  PROVE  /\ KeyedOnce(list')
         /\ \E k \in DOMAIN Maps!Found : k \in Keys /\ Maps!Found[k] = v /\ Maps!D!Drop(k)
<1> DEFINE I == {i \in 1 .. Len(list) : list[i].value = v}
<1>1. PICK n : n = (IF I # {} THEN Maps!Lists!Min(I) ELSE 0) /\ n # 0 /\ list' = Maps!RemoveElem(n)
  BY DEF Maps!RemoveByValue, Maps!Lists!SelectInSeq
<1>2. n \in I
  <2>1. I \in SUBSET Nat /\ I # {}
    BY <1>1
  <2>2. PICK m \in I : \A i \in I : m <= i
    BY <2>1, Least
  <2>3. Maps!Lists!Min(I) \in I
    <3> HIDE DEF I
    <3> QED
      BY <2>2, Zenon DEF Maps!Lists!Min
  <2> QED
    BY <1>1, <2>3
<1>3. n \in 1 .. Len(list) /\ list[n].value = v
  BY <1>2
<1> QED
  BY <1>1, <1>3, ElementDropped

\* The type invariant of the list, in these terms,
LEMMA MapTypes == Maps!TypeOK <=> KeyedOnce(list)
BY DEF Maps!TypeOK, KeyedOnce, Elements

\* and every operation keeps it.
LEMMA NextMapTypes ==
  ASSUME Maps!TypeOK, [Maps!Next]_list
  PROVE  KeyedOnce(list')
<1>1. KeyedOnce(list)
  BY MapTypes
<1>2. CASE Maps!Clear
  BY <1>2 DEF Maps!Clear, KeyedOnce
<1>3. ASSUME NEW k \in Keys, NEW v \in Values, Maps!Add(k, v)
      PROVE  KeyedOnce(list')
  BY <1>1, <1>3, AddPuts
<1>4. ASSUME NEW k \in Keys, Maps!Remove(k)
      PROVE  KeyedOnce(list')
  BY <1>1, <1>4, RemoveDrops
<1>5. ASSUME NEW v \in Values, Maps!RemoveByValue(v)
      PROVE  KeyedOnce(list')
  BY <1>1, <1>5, RemoveByValueDrops
<1>6. CASE list' = list
  BY <1>1, <1>6
<1> QED
  BY <1>2, <1>3, <1>4, <1>5, <1>6 DEF Maps!Next

\* A step of the list is a step of the dictionary, or none.
LEMMA NextDictionary ==
  ASSUME KeyedOnce(list), [Maps!Next]_list
  PROVE  [Maps!D!Next]_(Maps!Found)
<1>1. Maps!Found = Answers(list) /\ Maps!Found' = Answers(list')
  BY FoundNow, FoundThen
<1>2. CASE Maps!Clear
  <2>1. Answers(<<>>) = [k \in {} |-> k]
    BY DEF Answers, FirstWith
  <2>2. Maps!Found' = [k \in {} |-> k]
    BY <1>1, <1>2, <2>1 DEF Maps!Clear
  <2>3. CASE Keys = {}
    <3>1. DOMAIN Answers(list) = {} /\ Answers(list) = [k \in DOMAIN Answers(list) |-> Answers(list)[k]]
      BY <2>3 DEF Answers
    <3>2. Maps!Found = [k \in {} |-> k]
      BY <1>1, <3>1
    <3> QED
      BY <2>2, <3>2
  <2>4. CASE Keys # {}
    BY <2>2, <2>4 DEF Maps!D!Next, Maps!D!Clear
  <2> QED
    BY <2>3, <2>4
<1>3. ASSUME NEW k \in Keys, NEW v \in Values, Maps!Add(k, v)
      PROVE  Maps!D!Next
  BY <1>3, AddPuts DEF Maps!D!Next
<1>4. ASSUME NEW k \in Keys, Maps!Remove(k)
      PROVE  Maps!D!Next
  BY <1>4, RemoveDrops DEF Maps!D!Next
<1>5. ASSUME NEW v \in Values, Maps!RemoveByValue(v)
      PROVE  Maps!D!Next
  BY <1>5, RemoveByValueDrops DEF Maps!D!Next
<1>6. CASE list' = list
  BY <1>1, <1>6
<1> QED
  BY <1>2, <1>3, <1>4, <1>5, <1>6 DEF Maps!Next

\* With any number of keys and values, the association list implements a dictionary:
\* map_add puts, map_remove drops the key asked for and no other, map_remove_by_value
\* drops one key with the value, and nothing else changes (map.c:23-85).
THEOREM MapAlwaysDictionary == Maps!Spec => MapIsDictionary
<1>1. Maps!Init => Maps!TypeOK /\ Maps!D!Init
  <2> SUFFICES ASSUME Maps!Init PROVE KeyedOnce(list) /\ Maps!D!Init
    BY MapTypes
  <2>1. list = <<>>
    BY DEF Maps!Init
  <2>2. Answers(<<>>) = [k \in {} |-> k]
    BY DEF Answers, FirstWith
  <2>3. Maps!D!Init
    BY <2>1, <2>2, FoundNow DEF Maps!D!Init
  <2> QED
    BY <2>1, <2>3 DEF KeyedOnce
<1>2. Maps!TypeOK /\ [Maps!Next]_list => Maps!TypeOK'
  BY NextMapTypes DEF Maps!TypeOK, KeyedOnce, Elements
<1>3. Maps!TypeOK /\ [Maps!Next]_list => [Maps!D!Next]_(Maps!Found)
  BY MapTypes, NextDictionary
<1>4. Maps!TypeOK => (\A k \in Keys, v \in Values :
                        /\ Maps!Add(k, v) => Maps!D!Put(k, v)
                        /\ Maps!Remove(k) => Maps!D!Drop(k))
  BY MapTypes, AddPuts, RemoveDrops
<1>5. Maps!TypeOK => (\A v \in Values : Maps!RemoveByValue(v) =>
                        \E k \in DOMAIN Maps!Found : Maps!Found[k] = v /\ Maps!D!Drop(k))
  BY MapTypes, RemoveByValueDrops
<1> QED
  BY <1>1, <1>2, <1>3, <1>4, <1>5, PTL DEF Maps!Spec, Maps!D!Spec, MapIsDictionary

----------------------------------------------------------------------------
(* The types of the list, the semaphore and the barrier *)

\* The instances count with the same Cardinality.
LEMMA SameNumbers ==
  \A S : Semaphores!Cardinality(S) = Cardinality(S) /\ Barriers!Cardinality(S) = Cardinality(S)
BY DEF Cardinality, Semaphores!Cardinality, Barriers!Cardinality

\* Nobody has more than one unit or attempt.
LEMMA UnitsBounded == SemaphoreInv => Semaphores!TypeOK
<1> SUFFICES ASSUME SemaphoreInv PROVE Semaphores!TypeOK
  OBVIOUS
<1> DEFINE A == Semaphores!At("down")
           B == Semaphores!At("undo")
<1>1. A \in SUBSET Procs /\ B \in SUBSET Procs /\ A \cap B = {}
  BY DEF Semaphores!At
<1>2. IsFiniteSet(A) /\ IsFiniteSet(B) /\ IsFiniteSet(Procs)
  BY <1>1, FS_Subset, LibraryAssumption
<1> HIDE DEF A, B
<1>3. /\ Cardinality(A) \in Nat /\ Cardinality(B) \in Nat /\ Cardinality(Procs) \in Nat
      /\ IsFiniteSet(A \cup B) /\ Cardinality(A \cup B) = Cardinality(A) + Cardinality(B)
  <2>1. /\ IsFiniteSet(A \cup B) /\ Cardinality(A \cap B) = 0
        /\ Cardinality(A \cup B) = Cardinality(A) + Cardinality(B) - Cardinality(A \cap B)
    BY <1>1, <1>2, FS_Union, FS_EmptySet
  <2>2. Cardinality(A) \in Nat /\ Cardinality(B) \in Nat /\ Cardinality(Procs) \in Nat
    BY <1>2, FS_CardinalityType
  <2> QED
    BY <2>1, <2>2
<1>4. Cardinality(A \cup B) <= Cardinality(Procs)
  BY <1>1, <1>2, FS_Subset
<1>5. units = Initial - Cardinality(A) - Cardinality(B) /\ Initial \in Nat
  BY LibraryAssumption DEF SemaphoreInv, A, B
<1>6. units \in -Cardinality(Procs) .. Initial
  BY <1>3, <1>4, <1>5
<1> QED
  BY <1>6, SameNumbers DEF Semaphores!TypeOK, SemaphoreInv

\* Who has been added to the barrier in this round, and whether a node is linked whose
\* process is not counted yet.
Added == {p \in Members : bpc[p] # "out"}

Linked == IF reg[Registrar].at \in {"count", "store"} THEN 1 ELSE 0

\* The list has at most one node for each of them.
ListInv ==
  /\ walk \in [Members -> Seq(Members)] /\ round \in 1 .. MaxRounds
  /\ reg[Registrar].at = "link" => reg[Registrar].seen = nodes
  /\ Len(nodes) <= Cardinality(Added) + Linked

\* They are no more than there are processes.
LEMMA AddedCount ==
  IsFiniteSet(Added) /\ Cardinality(Added) \in Nat /\ Cardinality(Added) <= Cardinality(Members)
  BY FS_Subset, FS_CardinalityType, LibraryAssumption DEF Added

\* The types of the barrier follow,
LEMMA BarrierTyped == BarrierInv /\ ListInv => Barriers!TypeOK
<1> SUFFICES ASSUME BarrierInv, ListInv PROVE Barriers!TypeOK
  OBVIOUS
<1>1. Cardinality(Left) \in 0 .. Cardinality(Members)
  BY FS_Subset, FS_CardinalityType, LibraryAssumption DEF Left
<1>2. Len(nodes) <= Cardinality(Members)
  <2>1. Len(nodes) \in Nat /\ Cardinality(Members) \in Nat
    BY FS_CardinalityType, LibraryAssumption DEF BarrierInv, BarrierTypes
  <2>2. CASE Linked = 0
    BY <2>1, <2>2, AddedCount DEF ListInv
  <2>3. CASE Linked = 1
    <3>1. PICK p \in Members : bpc[p] = "out"
      BY <2>3 DEF Linked, BarrierInv, AddingInv
    <3>2. Added \in SUBSET Members /\ p \notin Added /\ p \in Members
      BY <3>1 DEF Added
    <3>3. Added \cup {p} \in SUBSET Members /\ Cardinality(Added \cup {p}) = Cardinality(Added) + 1
      BY <3>2, AddedCount, FS_AddElement
    <3>4. Cardinality(Added) + 1 <= Cardinality(Members)
      BY <3>3, FS_Subset, LibraryAssumption
    <3> QED
      BY <2>1, <2>3, <3>4, AddedCount DEF ListInv
  <2> QED
    BY <2>2, <2>3 DEF Linked
<1>3. bpc \in [Members -> {"out", "ready", "wall"} \cup Barriers!Arrived]
  BY DEF BarrierInv, BarrierTypes, Barriers!Arrived
<1> QED
  BY <1>1, <1>2, <1>3, SameNumbers DEF Barriers!TypeOK, BarrierInv, BarrierTypes, ListInv

\* and the list is empty at first.
LEMMA InitListInv == Barriers!Init => ListInv
<1> SUFFICES ASSUME Barriers!Init PROVE ListInv
  OBVIOUS
<1>1. /\ nodes = <<>> /\ walk = [p \in Members |-> <<>>] /\ round = 1
      /\ reg[Registrar].at = "idle"
  BY DEF Barriers!Init, Barriers!Idle
<1>2. <<>> \in Seq(Members) /\ Len(<<>>) = 0 /\ 1 \in 1 .. MaxRounds
  BY LibraryAssumption
<1>3. Linked = 0
  BY <1>1 DEF Linked
<1> QED
  BY <1>1, <1>2, <1>3, AddedCount DEF ListInv

\* barrier_add_process links one node and then counts its process (lock.c:58-65).
LEMMA RegisterListInv ==
  ASSUME BarrierInv, ListInv, Barriers!Register(Registrar)
  PROVE  ListInv'
<1>1. nodes \in Seq(Members) /\ Len(nodes) \in Nat
  BY DEF BarrierInv, BarrierTypes
<1>2. walk' = walk /\ round' = round
  <2>1. \A p \in Members : Barriers!AddNode(Registrar, p) => walk' = walk /\ round' = round
    BY DEF Barriers!AddNode
  <2>2. CASE Barriers!AddLink(Registrar)
    BY <2>2 DEF Barriers!AddLink
  <2>3. CASE Barriers!AddCount(Registrar)
    BY <2>3 DEF Barriers!AddCount
  <2>4. CASE Barriers!AddStore(Registrar)
    BY <2>4 DEF Barriers!AddStore
  <2> QED
    BY <2>1, <2>2, <2>3, <2>4 DEF Barriers!Register
<1>3. PICK e \in [at : {"idle", "link", "count", "store"}, node : Seq(Members),
                  seen : Seq(Members), count : Nat] : e = reg[Registrar]
  BY DEF BarrierInv, BarrierTypes
<1>4. reg = [r \in {Registrar} |-> e]
  BY <1>3 DEF BarrierInv, BarrierTypes
<1>5. Linked \in {0, 1} /\ Cardinality(Added) \in Nat /\ Len(nodes) <= Cardinality(Added) + Linked
  BY AddedCount DEF ListInv, Linked
<1>6. ASSUME NEW p \in Members, Barriers!AddNode(Registrar, p)
      PROVE  ListInv'
  <2>1. e.at = "idle" /\ nodes' = nodes /\ bpc' = bpc
    BY <1>3, <1>6 DEF Barriers!AddNode, Barriers!Reg
  <2>2. reg'[Registrar] = [e EXCEPT !.at = "link", !.node = <<p>>, !.seen = nodes]
    BY <1>4, <1>6 DEF Barriers!AddNode
  <2>3. reg'[Registrar].at = "link" /\ reg'[Registrar].seen = nodes
    BY <2>2
  <2>4. Linked = 0 /\ Linked' = 0 /\ Added' = Added
    BY <1>3, <2>1, <2>3 DEF Linked, Added
  <2> QED
    BY <1>2, <1>5, <2>1, <2>3, <2>4 DEF ListInv
<1>7. CASE Barriers!AddLink(Registrar)
  <2>1. e.at = "link" /\ nodes' = e.node \o e.seen /\ bpc' = bpc
    BY <1>3, <1>7 DEF Barriers!AddLink, Barriers!Reg
  <2>2. reg'[Registrar] = [e EXCEPT !.at = "count"]
    BY <1>4, <1>7 DEF Barriers!AddLink
  <2>3. reg'[Registrar].at = "count"
    BY <2>2
  <2>4. Linked = 0 /\ Linked' = 1 /\ Added' = Added
    BY <1>3, <2>1, <2>3 DEF Linked, Added
  <2>5. PICK p : e.node = <<p>>
    BY <1>3, <2>1 DEF BarrierInv, AddingInv
  <2>6. e.seen = nodes
    BY <1>3, <2>1 DEF ListInv
  <2>7. Len(nodes') = Len(nodes) + 1
    <3>1. \A s \in Seq(Members) : Len(<<p>> \o s) = Len(s) + 1
      OBVIOUS
    <3> QED
      BY <1>1, <2>1, <2>5, <2>6, <3>1, Zenon
  <2>8. Len(nodes') <= Cardinality(Added') + Linked'
    BY <1>1, <1>5, <2>4, <2>7
  <2> QED
    BY <1>2, <2>3, <2>8 DEF ListInv
<1>8. CASE Barriers!AddCount(Registrar)
  <2>1. e.at = "count" /\ nodes' = nodes /\ bpc' = bpc
    BY <1>3, <1>8 DEF Barriers!AddCount, Barriers!Reg
  <2>2. reg'[Registrar].at = "store"
    <3>1. reg' = [reg EXCEPT ![Registrar].at = "store", ![Registrar].count = count]
      BY <1>8 DEF Barriers!AddCount
    <3> QED
      BY <1>4, <3>1
  <2>3. Linked = 1 /\ Linked' = 1 /\ Added' = Added
    BY <1>3, <2>1, <2>2 DEF Linked, Added
  <2> QED
    BY <1>2, <1>5, <2>1, <2>2, <2>3 DEF ListInv
<1>9. CASE Barriers!AddStore(Registrar)
  <2>1. e.at = "store" /\ nodes' = nodes
    BY <1>3, <1>9 DEF Barriers!AddStore, Barriers!Reg
  <2>2. PICK p \in Members : e.node = <<p>> /\ bpc[p] = "out"
    BY <1>3, <2>1 DEF BarrierInv, AddingInv
  <2>3. Barriers!ToSet(<<p>>) = {p}
    BY DEF Barriers!ToSet
  <2>4. /\ bpc' = [q \in Members |-> IF q = p THEN "ready" ELSE bpc[q]]
        /\ reg'[Registrar].at = "idle"
    BY <1>3, <1>4, <1>9, <2>2, <2>3 DEF Barriers!AddStore, Barriers!Idle
  <2>5. Linked = 1 /\ Linked' = 0
    BY <1>3, <2>1, <2>4 DEF Linked
  <2>6. p \notin Added /\ Added' = Added \cup {p}
    BY <2>2, <2>4 DEF Added
  <2>7. Cardinality(Added') = Cardinality(Added) + 1
    BY <2>6, AddedCount, FS_AddElement
  <2>8. Len(nodes') <= Cardinality(Added') + Linked'
    BY <1>1, <1>5, <2>1, <2>5, <2>7
  <2> QED
    BY <1>2, <2>4, <2>8 DEF ListInv
<1> QED
  BY <1>6, <1>7, <1>8, <1>9 DEF Barriers!Register

\* The processes only shorten the list, and walk along it.
LEMMA MeetListInv ==
  ASSUME BarrierInv, ListInv, NEW p \in Members, Barriers!Meet(p)
  PROVE  ListInv'
<1>1. nodes \in Seq(Members) /\ Len(nodes) \in Nat
  BY DEF BarrierInv, BarrierTypes
<1>2. round' = round /\ reg' = reg /\ nodes' \in {nodes, <<>>} /\ Linked' = Linked
  BY DEF Barriers!Meet, Barriers!Wait, Barriers!Wall, Barriers!OpenStep, Barriers!OpenDone,
         Barriers!Pass, Linked
<1>3. Added' = Added
  <2>1. \A to : to # "out" /\ bpc[p] # "out" /\ bpc' = [bpc EXCEPT ![p] = to] => Added' = Added
    BY DEF BarrierInv, BarrierTypes, Added
  <2>2. \/ bpc' = bpc
        \/ bpc[p] # "out" /\ \E to : to # "out" /\ bpc' = [bpc EXCEPT ![p] = to]
    BY DEF Barriers!Meet, Barriers!Wait, Barriers!Wall, Barriers!OpenStep, Barriers!OpenDone,
           Barriers!Pass, Barriers!Goto
  <2> QED
    BY <2>1, <2>2 DEF Added
<1>4. walk' \in [Members -> Seq(Members)]
  <2>1. walk \in [Members -> Seq(Members)]
    BY DEF ListInv
  <2>2. CASE Barriers!OpenStep(p)
    <3>1. walk[p] \in Seq(Members) /\ walk[p] # <<>> /\ walk' = [walk EXCEPT ![p] = Tail(@)]
      BY <2>1, <2>2 DEF Barriers!OpenStep
    <3>2. Tail(walk[p]) \in Seq(Members)
      BY <3>1
    <3> QED
      BY <2>1, <3>1, <3>2
  <2>3. CASE Barriers!Wall(p)
    BY <1>1, <2>1, <2>3 DEF Barriers!Wall
  <2>4. CASE walk' = walk
    BY <2>1, <2>4
  <2> QED
    BY <2>2, <2>3, <2>4 DEF Barriers!Meet, Barriers!Wait, Barriers!OpenDone, Barriers!Pass
<1>5. reg[Registrar].at # "link" \/ nodes' = nodes
  <2>1. CASE nodes' # nodes
    <3>1. bpc[p] = "open"
      BY <2>1 DEF Barriers!Meet, Barriers!Wait, Barriers!Wall, Barriers!OpenStep, Barriers!OpenDone,
             Barriers!Pass, Barriers!Goto
    <3> QED
      BY <3>1 DEF BarrierInv, AddingInv
  <2> QED
    BY <2>1
<1>6. Len(nodes') <= Cardinality(Added) + Linked
  <2>1. CASE nodes' = nodes
    BY <2>1 DEF ListInv
  <2>2. CASE nodes' = <<>>
    <3>1. Len(<<>>) = 0 /\ Linked \in {0, 1}
      BY DEF Linked
    <3> QED
      BY <2>2, <3>1, AddedCount
  <2> QED
    BY <1>2, <2>1, <2>2
<1> QED
  BY <1>2, <1>3, <1>4, <1>5, <1>6 DEF ListInv

\* The next round begins with an empty list.
LEMMA NextListInv ==
  BarrierInv /\ ListInv /\ [Barriers!Next]_(Barriers!vars) => ListInv'
<1> SUFFICES ASSUME BarrierInv, ListInv, [Barriers!Next]_(Barriers!vars) PROVE ListInv'
  OBVIOUS
<1>1. ASSUME NEW r \in {Registrar}, Barriers!Register(r)
      PROVE  ListInv'
  BY <1>1, RegisterListInv
<1>2. ASSUME NEW p \in Members, Barriers!Meet(p)
      PROVE  ListInv'
  BY <1>2, MeetListInv
<1>3. CASE Barriers!NextRound
  <2>1. /\ \A p \in Members : bpc[p] = "passed"
        /\ round < MaxRounds /\ round' = round + 1 /\ UNCHANGED <<nodes, reg, walk>>
    BY <1>3 DEF Barriers!NextRound
  <2>2. nodes = <<>>
    BY <2>1 DEF BarrierInv, OpeningInv, AllThere
  <2>3. round' \in 1 .. MaxRounds
    BY <2>1, LibraryAssumption DEF ListInv
  <2>4. Len(<<>>) = 0 /\ Linked' \in {0, 1} /\ Cardinality(Added)' \in Nat
    <3>1. Added' \in SUBSET Members
      BY DEF Added
    <3>2. Cardinality(Added') \in Nat
      BY <3>1, FS_Subset, FS_CardinalityType, LibraryAssumption
    <3> QED
      BY <3>2 DEF Linked
  <2>5. Len(nodes)' <= Cardinality(Added)' + Linked'
    BY <2>1, <2>2, <2>4
  <2> QED
    BY <2>1, <2>3, <2>5 DEF ListInv
<1>4. CASE UNCHANGED Barriers!vars
  BY <1>4 DEF Barriers!vars, ListInv, Added, Linked
<1> QED
  BY <1>1, <1>2, <1>3, <1>4 DEF Barriers!Next

\* So the barrier keeps its types.
LEMMA BarrierAlwaysTyped == Barriers!Spec => []Barriers!TypeOK
  BY BarrierTyped, InitBarrierInv, NextBarrierInv, InitListInv, NextListInv, PTL DEF Barriers!Spec

\* The list has one element for each key, the semaphore lies between its initial value and
\* one unit less for each process, and the barrier counts processes and has at most one
\* node for each of them in its list (map.c:23-37, lock.c:29-87).
THEOREM LibraryTypes ==
  Maps!Spec /\ Semaphores!Spec /\ Barriers!Spec /\ Spec => []TypesOK
<1>1. Maps!Spec => []Maps!TypeOK
  <2>1. Maps!Init => Maps!TypeOK
    BY DEF Maps!Init, Maps!TypeOK
  <2>2. Maps!TypeOK /\ [Maps!Next]_list => Maps!TypeOK'
    BY NextMapTypes DEF Maps!TypeOK, KeyedOnce, Elements
  <2> QED
    BY <2>1, <2>2, PTL DEF Maps!Spec
<1>2. Semaphores!Spec => []Semaphores!TypeOK
  BY UnitsBounded, InitSemaphoreInv, NextSemaphoreInv, PTL DEF Semaphores!Spec
<1>3. Maps!TypeOK /\ Semaphores!TypeOK /\ Barriers!TypeOK /\ TypeOK => TypesOK
  BY DEF TypesOK
<1> QED
  BY <1>1, <1>2, <1>3, BarrierAlwaysTyped, PagesAlwaysOnce, PTL
=============================================================================
