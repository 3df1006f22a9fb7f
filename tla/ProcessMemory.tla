---------------------------- MODULE ProcessMemory ----------------------------
(***************************************************************************)
(* The memory of processes: p_init, p_new and p_free of src/src/process.c, *)
(* elf_load of elf.c, add_idle_procs of main.c, and the copies of          *)
(* uaccess.c.                                                              *)
(*                                                                         *)
(* Addresses are bytes, PageSize of them to a page.  A page table is the   *)
(* function from virtual pages that Mmu implements; the pages of its lower *)
(* levels are Mmu's.  The callers of mmu_map_multiple pass the end of a    *)
(* range, a physical address and the bits, for a physical address, a       *)
(* length and the bits: many more pages are mapped than were meant, and    *)
(* mappings made later lie on those made earlier.  The kernel maps all of  *)
(* RAM to itself, so mmu_translate returns the address it is given.        *)
(***************************************************************************)
EXTENDS Integers, Sequences, FiniteSets

CONSTANTS Procs,
          HeapPages,       \* the pages that cpage_znalloc hands out
          PageSize,
          Thread, Trap,    \* spawn code: its first byte, and the one after it
          StackPointer,    \* P_DEFAULT_STACK_POINTER
          Files,           \* headers of files that elf_load is given
          Copies,          \* [addr, bytes] of copies from and to processes
          Null, None

PageOf(a) == a \div PageSize
AlignUp(a) == ((a + PageSize - 1) \div PageSize) * PageSize

VARIABLES
  proc,      \* the processes there are: a function from some of Procs to records
  claims,    \* [HeapPages -> 1 when the allocator has the page, more after a double free]
  hung,      \* the hart has faulted
  copy       \* the copy in progress, or None

vars == <<proc, claims, hung, copy>>

Init == /\ proc = [q \in {} |-> None]
        /\ claims = [g \in HeapPages |-> 1]
        /\ hung = FALSE
        /\ copy = None

----------------------------------------------------------------------------
(* The page allocator as Cpage promises it: n pages in a row that nobody has, *)
(* or NULL; NULL for n = 0.                                                   *)
Block(g, n) == g .. g + n - 1

Znalloc(n) == {Null} \cup {g \in HeapPages : n > 0 /\ \A k \in Block(g, n) : k \in HeapPages /\ claims[k] > 0}

Taking(gs) == claims' = [k \in HeapPages |-> IF k \in gs THEN claims[k] - 1 ELSE claims[k]]

\* later mappings lie on earlier ones
Over(new, old) ==
  [x \in DOMAIN new \cup DOMAIN old |-> IF x \in DOMAIN new THEN new[x] ELSE old[x]]

(* mmu_map_multiple *)
MapMultiple(table, v, p, bytes, bits) ==
  Over([g \in PageOf(v) .. PageOf(v) + PageOf(AlignUp(bytes)) - 1 |->
          [to |-> PageOf(p) + g - PageOf(v), bits |-> bits]], table)

----------------------------------------------------------------------------
\* p_init, once its pages are there: the frame is at the beginning of the process
FrameSize == PageSize \div 2

MapFrame(table, page) ==
  LET frame == page * PageSize
  IN  MapMultiple(table, frame, frame + FrameSize, frame, {"R", "W"})

MapCode(table, code) == MapMultiple(table, code[1], code[2], code[1], {"X"})

NoTable == [g \in {} |-> None]     \* a page of zeros

InitTableBackwards(page) ==      \* mutant: the frame before the code
  MapCode(MapCode(MapFrame(NoTable, page), Thread), Trap)

InitTable(page) == MapFrame(MapCode(MapCode(NoTable, Thread), Trap), page)

StackTable(page, stack, user) ==
  MapMultiple(InitTable(page), StackPointer, StackPointer + PageSize, stack * PageSize,
              IF user THEN {"U", "R", "W"} ELSE {"R", "W"})

\* A process; "reach" is history, the byte after the last one that elf_load wrote,
\* counted from the image, and "file" what it loaded.
New(page, ptable, stack, user) ==
  [kind |-> IF user THEN "user" ELSE "kernel", page |-> page, ptable |-> ptable,
   stack |-> stack, image |-> Null, image_pg_num |-> 0,
   table |-> StackTable(page, stack, user), file |-> None, reach |-> 0]

\* p_new: without a page for the root, the first mmu_map reads at NULL and faults
PNew(q, user) ==
  /\ ~hung /\ q \notin DOMAIN proc /\ copy = None
  /\ \E page \in Znalloc(1) \ {Null} :
     \E ptable \in Znalloc(1) \ {page} :
     \E stack \in Znalloc(1) \ ({page, ptable} \ {Null}) :
       \/ /\ ptable # Null
          /\ proc' = Over([r \in {q} |-> New(page, ptable, stack, user)], proc)
          /\ Taking({page, ptable, stack})
          /\ UNCHANGED <<hung, copy>>
       \/ /\ ptable = Null
          /\ hung' = TRUE /\ Taking({page, stack}) /\ UNCHANGED <<proc, copy>>

\* add_idle_procs: the stack becomes the image
IdleFromKeepsStack(p) ==      \* mutant: idle->stack stays
  [p EXCEPT !.kind = "idle", !.image = p.stack, !.image_pg_num = 1,
            !.table = Over([g \in {PageOf(StackPointer)} |-> [to |-> p.stack, bits |-> {"X"}]], @)]

IdleFrom(p) ==
  [p EXCEPT !.kind = "idle", !.image = p.stack, !.image_pg_num = 1, !.stack = Null,
            !.table = Over([g \in {PageOf(StackPointer)} |-> [to |-> p.stack, bits |-> {"X"}]], @)]

\* the program of the idle process goes to its image: without one this faults
MakeIdle(q) ==
  /\ ~hung /\ q \in DOMAIN proc /\ copy = None
  /\ proc[q].kind = "kernel"
  /\ IF proc[q].stack = Null
     THEN hung' = TRUE /\ UNCHANGED proc
     ELSE proc' = [proc EXCEPT ![q] = IdleFrom(@)] /\ UNCHANGED hung
  /\ UNCHANGED <<claims, copy>>

----------------------------------------------------------------------------
(* elf_load.  A file is [valid, segments]: is it a RISC-V executable, and the *)
(* address and size of its segments, with the ones to load marked.            *)
Loads(f) == SelectSeq(f.segments, LAMBDA s : s.load)

EndOf(s) == s.vaddr + s.memsz

RangeEndFirst(loads) ==    \* mutant: the size of a segment is forgotten
  LET upTo[i \in 1 .. Len(loads)] ==
        LET v == loads[i].vaddr
        IN  IF i = 1 THEN [start |-> v, end |-> v]
            ELSE LET r == upTo[i - 1]
                 IN  IF r.start > v THEN [r EXCEPT !.start = v]
                     ELSE IF r.end < v THEN [r EXCEPT !.end = v] ELSE r
  IN  upTo[Len(loads)]

\* adr_start and adr_end: the end moves only for a segment that is not the first
\* and does not move the start
AddressRange(loads) ==
  LET upTo[i \in 1 .. Len(loads)] ==
        LET v == loads[i].vaddr
        IN  IF i = 1 THEN [start |-> v, end |-> v]
            ELSE LET r == upTo[i - 1]
                 IN  IF r.start > v THEN [r EXCEPT !.start = v]
                     ELSE IF r.end < EndOf(loads[i]) THEN [r EXCEPT !.end = EndOf(loads[i])]
                     ELSE r
  IN  upTo[Len(loads)]

ImagePages(range) == PageOf(AlignUp(range.end)) - PageOf(range.start)

Loaded(p, f, image) ==
  LET loads == Loads(f)
      range == AddressRange(loads)
      n == ImagePages(range)
      ends == {EndOf(loads[i]) - range.start : i \in DOMAIN loads}
  IN  [p EXCEPT !.image = image, !.image_pg_num = n, !.file = f,
                !.reach = CHOOSE e \in ends : \A d \in ends : d <= e,
                !.table = MapMultiple(@, range.start, range.start + n * PageSize,
                                      image * PageSize, {"U", "R", "W", "X"})]

\* With NULL for the image the copy of a segment that has bytes faults.
ElfLoad(q, f) ==
  /\ ~hung /\ q \in DOMAIN proc /\ copy = None
  /\ proc[q].kind = "user" /\ proc[q].file = None
  /\ f.valid /\ Loads(f) # <<>>
  /\ LET n == ImagePages(AddressRange(Loads(f)))
     IN  \E image \in Znalloc(n) :
           IF image = Null
           THEN hung' = TRUE /\ UNCHANGED <<proc, claims>>
           ELSE /\ proc' = [proc EXCEPT ![q] = Loaded(@, f, image)]
                /\ Taking(Block(image, n))
                /\ UNCHANGED hung
  /\ UNCHANGED copy

\* p_free: each page that the process names goes back once for each name
Returned(p) == << <<p.stack, 1>>, <<p.image, p.image_pg_num>>, <<p.ptable, 1>>, <<p.page, 1>> >>

PFree(q) ==
  /\ ~hung /\ q \in DOMAIN proc /\ copy = None
  /\ LET back == Returned(proc[q])
     IN  claims' = [g \in HeapPages |-> claims[g] + Cardinality(
           {i \in DOMAIN back : back[i][1] # Null /\ g \in Block(back[i][1], back[i][2])})]
  /\ proc' = [r \in DOMAIN proc \ {q} |-> proc[r]]
  /\ UNCHANGED <<hung, copy>>

\* main frees a process that elf_load refuses
ElfRefused(q, f) ==
  /\ ~f.valid \/ Loads(f) = <<>>
  /\ q \in DOMAIN proc /\ proc[q].kind = "user" /\ proc[q].file = None
  /\ PFree(q)

----------------------------------------------------------------------------
(* copy_from_user and copy_to_user; "moved" are the bytes copied so far *)
CopyStart(q, c) ==
  /\ ~hung /\ q \in DOMAIN proc /\ copy = None
  /\ copy' = [q |-> q, addr |-> c.addr, bytes |-> c.bytes, i |-> 0,
              moved |-> {}, returned |-> FALSE]
  /\ UNCHANGED <<proc, claims, hung>>

Mapped(a) == PageOf(a) \in DOMAIN proc[copy.q].table

TillNextPage == AlignUp(copy.addr + copy.i) - copy.addr - copy.i

ChunkWhole == TillNextPage      \* mutant: the end of the request is not looked at

Chunk == IF TillNextPage > copy.bytes - copy.i THEN copy.bytes - copy.i ELSE TillNextPage

\* one turn of the loop; at the beginning of a page it changes nothing
CopyTurn ==
  /\ copy # None /\ ~copy.returned /\ copy.i < copy.bytes
  /\ Mapped(copy.addr + copy.i)
  /\ copy' = [copy EXCEPT !.i = @ + TillNextPage, !.moved = @ \cup (copy.i .. copy.i + Chunk - 1)]
  /\ UNCHANGED <<proc, claims, hung>>

CopyReturn ==
  /\ copy # None /\ ~copy.returned
  /\ copy.i >= copy.bytes \/ ~Mapped(copy.addr + copy.i)
  /\ copy' = [copy EXCEPT !.returned = TRUE]
  /\ UNCHANGED <<proc, claims, hung>>

CopyDone == copy # None /\ copy.returned /\ copy' = None /\ UNCHANGED <<proc, claims, hung>>

----------------------------------------------------------------------------
Next ==
  \/ \E q \in Procs :
       \/ \E user \in BOOLEAN : PNew(q, user)
       \/ MakeIdle(q) \/ PFree(q)
       \/ \E f \in Files : ElfLoad(q, f) \/ ElfRefused(q, f)
       \/ \E c \in Copies : CopyStart(q, c)
  \/ CopyTurn \/ CopyReturn \/ CopyDone

Spec == Init /\ [][Next]_vars

----------------------------------------------------------------------------
Live == DOMAIN proc

Named(p, g) == {i \in DOMAIN Returned(p) :
                  Returned(p)[i][1] # Null /\ g \in Block(Returned(p)[i][1], Returned(p)[i][2])}

\* The allocator or one process has each page, under one name: p_free returns
\* every page once, for user, kernel and idle processes, loaded or not
\* (process.c:99-118, main.c:54-60).
PagesReturnedOnce ==
  ~hung => \A g \in HeapPages :
    claims[g] + Cardinality(UNION {{<<q, i>> : i \in Named(proc[q], g)} : q \in Live}) = 1

\* the label behind the code lies in the page the code lies in
OnePage(code) == PageOf(code[1]) = PageOf(code[2])

\* A hart can switch to a process that is not from a file, and back, when each part
\* of the spawn code lies in one page: in its table this code translates to itself
\* and can be executed, the frame to itself and can be read and written, and an
\* idle process starts in its image (process.c:44-54, spawn.S:97-172).
SwitchSafe ==
  OnePage(Thread) /\ OnePage(Trap) => \A q \in Live :
    LET p == proc[q]
        code == {PageOf(Thread[1]), PageOf(Trap[1])}
    IN  /\ p.file = None =>
             /\ \A g \in code : p.table[g] = [to |-> g, bits |-> {"X"}]
             /\ p.table[p.page] = [to |-> p.page, bits |-> {"R", "W"}]
        /\ p.kind = "idle" =>
             p.table[PageOf(StackPointer)] = [to |-> p.image, bits |-> {"X"}]

\* segments one after the other, as the linker lays them out (user/lds/libc.lds)
Ascending(f) ==
  LET loads == Loads(f)
  IN  \A i \in 1 .. Len(loads) - 1 : EndOf(loads[i]) <= loads[i + 1].vaddr

\* What elf_load copies of a file with two or more ascending segments stays inside
\* the pages it took for them (elf.c:21-61).
ImageInside ==
  \A q \in Live :
    LET p == proc[q]
    IN  p.file # None => (Ascending(p.file) /\ Len(Loads(p.file)) > 1
                            => p.reach <= p.image_pg_num * PageSize)

\* A copy that returns has moved the request up to the first byte that is not
\* mapped, and nothing beyond it (uaccess.c:9-36).
CopyHonest ==
  copy # None => (copy.returned =>
    LET unmapped == {j \in 0 .. copy.bytes - 1 : ~Mapped(copy.addr + j)}
    IN  copy.moved = {j \in 0 .. copy.bytes - 1 : \A k \in unmapped : j < k})
=============================================================================
