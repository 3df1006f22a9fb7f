-------------------------------- MODULE Mmu --------------------------------
(***************************************************************************)
(* The Sv39 page tables of src/src/mmu.c: mmu_map, mmu_translate and       *)
(* mmu_free, called for the kernel's table and for those of processes      *)
(* (main.c, kmalloc.c, process.c, elf.c).                                  *)
(*                                                                         *)
(* Tables are pages of the contiguous allocator, which hands out a zeroed  *)
(* page that nobody has (Cpage).  mmu_map works under kernel_mmu_lock and  *)
(* mmu_translate without it, so the steps of both are told apart.  The     *)
(* allocator has no lock of its own: mmu_map's calls of it are apart by    *)
(* kernel_mmu_lock, all others come from hart 0 in this commit, and that   *)
(* these meet none of mmu_map's is an assumption here (AllocatorIdle).  A  *)
(* leaf is a physical page with its permission bits, at least one of R, W  *)
(* and X among them: an entry without them is a branch to mmu.c.           *)
(***************************************************************************)
EXTENDS Integers

CONSTANTS Harts,
          Spaces,     \* the kernel and the processes
          Frames,      \* the pages the allocator has
          Index,      \* indices into a table (0 .. 511)
          VPages,     \* virtual pages: the vpn[] of the addresses in use
          Leaves,
          Null,       \* the pointer NULL, and the page that lies there
          None        \* an invalid entry, no table, nobody

\* NULL is no page the allocator has, a leaf is no pointer, an invalid entry neither,
\* nor anything else that there may be none of.
MmuConstants ==
  /\ Null \notin Frames /\ None \notin Frames /\ None # Null
  /\ Leaves \cap (Frames \cup {Null, None}) = {}
  /\ VPages \subseteq [0 .. 2 -> Index]
  /\ None \notin Spaces \cup Harts \cup VPages
  /\ None \notin [VPages -> Leaves \cup {None}]

VARIABLES entry,     \* [Frames -> [Index -> entry]]: what is in the pages
          free,      \* pages the allocator can hand out
          root,      \* [Spaces -> the root table or None]
          lock,      \* kernel_mmu_lock: its holder or None
          at,        \* [Harts -> where it is]
          job        \* [Harts -> the arguments and variables of its call]

vars == <<entry, free, root, lock, at, job>>

Idle == [space |-> None, v |-> None, leaf |-> None, table |-> None, level |-> 2]

ZeroPage == [i \in Index |-> None]

Init ==
  /\ entry = [p \in Frames |-> ZeroPage]
  /\ free = Frames
  /\ root = [s \in Spaces |-> None]
  /\ lock = None
  /\ at = [h \in Harts |-> "idle"]
  /\ job = [h \in Harts |-> Idle]

Goto(h, from, to) == at[h] = from /\ at' = [at EXCEPT ![h] = to]

\* No hart is in the cpage_znalloc of mmu_map, so that a call of the allocator outside
\* of it is a step like any other.
AllocatorIdle == \A h \in Harts : at[h] # "make"

\* cpage_znalloc(1) for a root table (the callers use no table they did not get)
NewSpace(s) ==
  /\ root[s] = None /\ AllocatorIdle
  /\ \E p \in free :
       /\ root' = [root EXCEPT ![s] = p]
       /\ free' = free \ {p}
       /\ entry' = [entry EXCEPT ![p] = ZeroPage]
  /\ UNCHANGED <<lock, at, job>>

----------------------------------------------------------------------------
\* the entry that a call is looking at
Slot(h) == job[h].v[job[h].level]
Entry(h) == entry[job[h].table][Slot(h)]

IsBranch(e) == e \in Frames \cup {Null}

\* to the next level
Descend(h, t) ==
  job' = [job EXCEPT ![h].table = t, ![h].level = @ - 1]

\* a load or store at NULL faults, and c_trap_handler hangs the hart
NullFault(h) ==
  /\ at[h] \in {"look", "leaf", "read"}
  /\ job[h].table = Null
  /\ at' = [at EXCEPT ![h] = "hung"]
  /\ UNCHANGED <<entry, free, root, lock, job>>

(* mmu_map *)
TakeLockIgnored(h) == lock' = h          \* mutant: does not wait

TakeLock(h) == lock = None /\ lock' = h

MapStart(h, s, v, l) ==
  /\ root[s] # None
  /\ Goto(h, "idle", "look")
  /\ TakeLock(h)
  /\ job' = [job EXCEPT ![h] =
       [space |-> s, v |-> v, leaf |-> l, table |-> root[s], level |-> 2]]
  /\ UNCHANGED <<entry, free, root>>

MissingAlways(e) == e # Null     \* mutant: the valid bit is not looked at

Missing(e) == e = None

AfterTooDeep(level) == IF level > 0 THEN "look" ELSE "leaf"   \* mutant: i >= 0

After(level) == IF level > 1 THEN "look" ELSE "leaf"


\* the entry is loaded: descend through it ...
MapDescend(h) ==
  /\ Goto(h, "look", After(job[h].level))
  /\ job[h].table # Null /\ ~Missing(Entry(h))
  /\ Descend(h, Entry(h))
  /\ UNCHANGED <<entry, free, root, lock>>

\* ... or find that it has to be made
MapMissing(h) ==
  /\ Goto(h, "look", "make")
  /\ job[h].table # Null /\ Missing(Entry(h))
  /\ UNCHANGED <<entry, free, root, lock, job>>

\* a new table, and the entry for it; NULL goes into the entry like any address
MapMake(h) ==
  /\ Goto(h, "make", After(job[h].level))
  /\ \/ \E p \in free :
          /\ free' = free \ {p}
          /\ entry' = [entry EXCEPT ![p] = ZeroPage, ![job[h].table][Slot(h)] = p]
          /\ Descend(h, p)
     \/ /\ free = {}
        /\ entry' = [entry EXCEPT ![job[h].table][Slot(h)] = Null]
        /\ Descend(h, Null)
        /\ UNCHANGED free
  /\ UNCHANGED <<root, lock>>

MapLeaf(h) ==
  /\ Goto(h, "leaf", "idle")
  /\ job[h].table # Null
  /\ entry' = [entry EXCEPT ![job[h].table][Slot(h)] = job[h].leaf]
  /\ lock' = None
  /\ job' = [job EXCEPT ![h] = Idle]
  /\ UNCHANGED <<free, root>>

----------------------------------------------------------------------------
(* mmu_translate *)
ReadStart(h, s, v) ==
  /\ root[s] # None
  /\ Goto(h, "idle", "read")
  /\ job' = [job EXCEPT ![h] = [Idle EXCEPT !.space = s, !.v = v, !.table = root[s]]]
  /\ UNCHANGED <<entry, free, root, lock>>

ReadDescend(h) ==
  /\ at[h] = "read" /\ job[h].table # Null
  /\ IsBranch(Entry(h))
  /\ Descend(h, Entry(h))
  /\ UNCHANGED <<entry, free, root, lock, at>>

\* a leaf, or an invalid entry: -1
ReadEnd(h) ==
  /\ Goto(h, "read", "idle")
  /\ job[h].table # Null
  /\ ~IsBranch(Entry(h))
  /\ job' = [job EXCEPT ![h] = Idle]
  /\ UNCHANGED <<entry, free, root, lock>>

----------------------------------------------------------------------------
(* mmu_free, for a process that nobody works for: p_free is called for an    *)
(* image that elf_load refused (main.c:127), a process no hart has run.      *)
(* What is freed goes back to the allocator one page after the other; as no  *)
(* call reads these tables or allocates meanwhile, the order cannot be seen. *)
Children(ts) == {entry[t][i] : t \in ts, i \in Index} \cap Frames

FreedTop(s) == {root[s]} \cup Children({root[s]})     \* mutant: one level only

Freed(s) == {root[s]} \cup Children({root[s]}) \cup Children(Children({root[s]}))

Discard(s) ==
  /\ root[s] # None /\ AllocatorIdle
  /\ \A h \in Harts : job[h].space # s
  /\ \A t \in Freed(s), i \in Index : entry[t][i] # Null
  /\ free' = free \cup Freed(s)
  /\ root' = [root EXCEPT ![s] = None]
  /\ entry' = [t \in Frames |-> IF t \in Freed(s)
                 THEN [i \in Index |-> IF entry[t][i] \in Leaves THEN None ELSE entry[t][i]]
                 ELSE entry[t]]
  /\ UNCHANGED <<lock, at, job>>

Map(h) ==
  \/ \E s \in Spaces, v \in VPages, l \in Leaves : MapStart(h, s, v, l)
  \/ MapDescend(h) \/ MapMissing(h) \/ MapMake(h) \/ MapLeaf(h)

Read(h) ==
  \/ \E s \in Spaces, v \in VPages : ReadStart(h, s, v)
  \/ ReadDescend(h) \/ ReadEnd(h)

Next == \/ \E h \in Harts : Map(h) \/ Read(h) \/ NullFault(h)
        \/ \E s \in Spaces : NewSpace(s) \/ Discard(s)

Spec == Init /\ [][Next]_vars

----------------------------------------------------------------------------
\* the table on the path to v, one level at a time; None when there is none
TableAt(s, v, level) ==
  LET below(t, i) == IF t \in Frames /\ IsBranch(entry[t][v[i]])
                     THEN entry[t][v[i]] ELSE None
  IN  CASE level = 2 -> root[s]
        [] level = 1 -> below(root[s], 2)
        [] level = 0 -> below(below(root[s], 2), 1)

\* what mmu_translate finds for v, None for -1
Translation(s, v) ==
  LET t == TableAt(s, v, 0)
  IN  IF t \in Frames /\ entry[t][v[0]] \in Leaves THEN entry[t][v[0]] ELSE None

\* Types; walks stay within the three levels.
TypeOK ==
  /\ entry \in [Frames -> [Index -> Frames \cup Leaves \cup {Null, None}]]
  /\ free \subseteq Frames
  /\ root \in [Spaces -> Frames \cup {None}]
  /\ lock \in Harts \cup {None}
  /\ at \in [Harts -> {"idle", "look", "make", "leaf", "read", "hung"}]
  /\ job \in [Harts -> [space : Spaces \cup {None}, v : VPages \cup {None},
                        leaf : Leaves \cup {None},
                        table : Frames \cup {Null, None}, level : 0 .. 2]]

Roots == {root[s] : s \in Spaces} \ {None}

Used == Frames \ free

Links == {l \in Used \X Index : entry[l[1]][l[2]] \in Frames}

\* Every table is in exactly one place of one tree: no two entries lead to the
\* same table, none to a root or to a free page, and no table is lost, neither by
\* two harts that map at once nor by mmu_free (mmu.c:36-44, 61-86).
EveryTableOnce ==
  /\ \A s, r \in Spaces : s # r /\ root[s] # None => root[s] # root[r]
  /\ \A l, m \in Links : l # m => entry[l[1]][l[2]] # entry[m[1]][m[2]]
  /\ LET linked == {entry[l[1]][l[2]] : l \in Links}
     IN  linked \cap Roots = {} /\ Used = linked \cup Roots

\* A walk, locked or not, is always at the table that the tree has on the path to
\* its address: mmu_translate needs no lock against mmu_map.
WalksOnPath ==
  \A h \in Harts :
    at[h] # "idle" => job[h].table = TableAt(job[h].space, job[h].v, job[h].level)

\* The tables together are a map from virtual pages to leaves: mmu_map changes
\* the translation of its own page only, in one step, and new tables change none.
AddressMap == INSTANCE AddressSpaces WITH
  mapping <- [s \in Spaces |-> IF root[s] = None THEN None
                              ELSE [v \in VPages |-> Translation(s, v)]]
MmuIsMap == AddressMap!Spec
============================================================================
