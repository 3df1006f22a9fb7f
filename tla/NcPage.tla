------------------------------- MODULE NcPage -------------------------------
(***************************************************************************)
(* The page allocator of src/src/ncpage.c: a linked list of free pages,    *)
(* whose links are kept in the pages themselves.                           *)
(*                                                                         *)
(* Each client is a hart that takes and returns pages; a step ends where   *)
(* another hart can see or change page_head or the lock.                   *)
(***************************************************************************)
EXTENDS Naturals, FiniteSets

CONSTANTS NumPages,   \* pages in the heap, numbered by address
          Harts,
          Null,       \* the pointer NULL
          Nobody      \* the lock is free

VARIABLES head,     \* page_head
          next,     \* the next pointer in each page
          lock,     \* ncp_lock: its holder or Nobody
          pc,
          owned,    \* [Harts -> the pages a hart was given]
          page      \* the page a call is working on

vars == <<head, next, lock, pc, owned, page>>

Pages == 0 .. NumPages - 1

Init ==                                                   \* ncpage_init
  /\ head = 0
  /\ next = [p \in Pages |-> IF p = NumPages - 1 THEN Null ELSE p + 1]
  /\ lock = Nobody
  /\ pc = [h \in Harts |-> "idle"]
  /\ owned = [h \in Harts |-> {}]
  /\ page = [h \in Harts |-> Null]

Goto(h, from, to) == pc[h] = from /\ pc' = [pc EXCEPT ![h] = to]

LockIgnored(h) == lock' = h           \* mutant: does not wait

Lock(h) == lock = Nobody /\ lock' = h

Unlock == lock' = Nobody

----------------------------------------------------------------------------
(* ncpage_zalloc *)
\* the test outside the lock; NULL is returned at once
AllocTest(h) ==
  /\ Goto(h, "idle", "alloc_lock")
  /\ head # Null
  /\ UNCHANGED <<head, next, lock, owned, page>>

AllocLock(h) ==
  /\ Goto(h, "alloc_lock", "alloc_read")
  /\ Lock(h)
  /\ UNCHANGED <<head, next, owned, page>>

\* ret_page, kept in page
AllocRead(h) ==
  /\ Goto(h, "alloc_read", "alloc_shift")
  /\ page' = [page EXCEPT ![h] = head]
  /\ UNCHANGED <<head, next, lock, owned>>

\* page_head = page_head->next, and the unlock.  Reading through NULL faults:
\* the kernel maps no page at address 0, and its trap handler hangs the hart.
AllocShift(h) ==
  \/ /\ Goto(h, "alloc_shift", "idle")
     /\ head # Null
     /\ head' = next[head]
     /\ owned' = [owned EXCEPT ![h] = @ \cup {page[h]}]
     /\ page' = [page EXCEPT ![h] = Null]
     /\ Unlock
     /\ UNCHANGED next
  \/ /\ Goto(h, "alloc_shift", "hung")
     /\ head = Null
     /\ UNCHANGED <<head, next, lock, owned, page>>

----------------------------------------------------------------------------
(* ncpage_free of one of its own pages *)
FreeLock(h, p) ==
  /\ p \in owned[h]
  /\ Goto(h, "idle", "free_link")
  /\ Lock(h)
  /\ page' = [page EXCEPT ![h] = p]
  /\ owned' = [owned EXCEPT ![h] = @ \ {p}]
  /\ UNCHANGED <<head, next>>

FreeLinkForgets(h) ==     \* mutant: the rest of the list is lost
  /\ Goto(h, "free_link", "free_head")
  /\ next' = [next EXCEPT ![page[h]] = Null]
  /\ UNCHANGED <<head, lock, owned, page>>

FreeLink(h) ==
  /\ Goto(h, "free_link", "free_head")
  /\ next' = [next EXCEPT ![page[h]] = head]
  /\ UNCHANGED <<head, lock, owned, page>>

FreeHead(h) ==
  /\ Goto(h, "free_head", "idle")
  /\ head' = page[h]
  /\ page' = [page EXCEPT ![h] = Null]
  /\ Unlock
  /\ UNCHANGED <<next, owned>>

Alloc(h) == AllocTest(h) \/ AllocLock(h) \/ AllocRead(h) \/ AllocShift(h)

Free(h) == (\E p \in Pages : FreeLock(h, p)) \/ FreeLink(h) \/ FreeHead(h)

Next == \E h \in Harts : Alloc(h) \/ Free(h)

Spec == Init /\ [][Next]_vars

----------------------------------------------------------------------------
\* the pages on the list, by walking it at most as far as there are pages
OnList ==
  LET reach[n \in 0 .. Cardinality(Pages)] ==
        IF n = 0 THEN {head} \ {Null}
        ELSE reach[n - 1] \cup ({next[p] : p \in reach[n - 1]} \ {Null})
  IN  reach[Cardinality(Pages)]

Held == UNION {owned[h] : h \in Harts}

InHand == {page[h] : h \in {g \in Harts : pc[g] \in {"free_link", "free_head"}}}

\* Types of the list and of the clients.
TypeOK ==
  /\ head \in Pages \cup {Null}
  /\ next \in [Pages -> Pages \cup {Null}]
  /\ lock \in Harts \cup {Nobody}
  /\ owned \in [Harts -> SUBSET Pages]
  /\ page \in [Harts -> Pages \cup {Null}]

OwnersApart == \A h, g \in Harts : h # g => owned[h] \cap owned[g] = {}

\* Every page is free or belongs to exactly one hart: pages on the list belong to
\* nobody, no page has two owners, and none is lost (ncpage.c:33-48, 50-66).
EachPageOnce ==
  /\ OwnersApart
  /\ OnList \cap Held = {}
  /\ Pages = OnList \cup Held \cup InHand
============================================================================
