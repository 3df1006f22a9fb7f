------------------------------- MODULE MinixFs -------------------------------
(***************************************************************************)
(* The walk over a Minix 3 file system: minix_test and minix_print of      *)
(* src/src/minix3.c, and vfs_cache_inodes of vfs.c, which reads every      *)
(* inode in turn and does nothing yet with the entries it comes across.    *)
(*                                                                         *)
(* The third argument of minix_disk_rw is the end of a read, and all       *)
(* callers pass the length of a block there: "end" is the code as it       *)
(* stands, where the superblock, at the address BLOCK_SIZE, is a read of   *)
(* no bytes; "length" is what the callers mean.  minix_disk_rw always      *)
(* returns true, and never gives back the page of its request.             *)
(*                                                                         *)
(* Offsets into a directory are bytes, as in the code.  A path is the      *)
(* sequence of its slashes and names.  The copy through "addr", which was  *)
(* never set, faults or writes anywhere: the model stops there.            *)
(***************************************************************************)
EXTENDS Integers, Sequences, FiniteSets

CONSTANTS Disks,       \* [magic, num_inodes, inode, block]
          Lasts,       \* what the third argument may be: "end", "length"
          Walkers,     \* who walks: "print", "cache"
          Depth        \* of the directories on the disks

VARIABLES disk, third, walker,
          pc,
          stack,       \* the calls of minix_print that have not returned
          path,        \* the one buffer for the path
          printed,     \* what was printed: inodes with their paths
          taken,       \* pages the walk holds
          requests     \* pages of requests, which nobody frees

vars == <<disk, third, walker, pc, stack, path, printed, taken, requests>>

Frame(ino) == [ino |-> ino, at |-> "inode", len |-> 0, i |-> 0, block |-> 0]

Top == stack[Len(stack)]
Push(f) == Append(stack, f)
SetTop(f) == [stack EXCEPT ![Len(stack)] = f]

InitWith(d, t, w) ==
  /\ disk = d /\ third = t /\ walker = w
  /\ pc = "start" /\ stack = <<>> /\ path = <<>> /\ printed = <<>>
  /\ taken = 2 /\ requests = 0

Init == \E d \in Disks, t \in Lasts, w \in Walkers : InitWith(d, t, w)

DiskRead == requests' = requests + 1

\* the superblock; minix_print(1), or the inodes from 2 on
Start ==
  /\ pc = "start"
  /\ DiskRead
  /\ IF third = "end" \/ ~disk.magic
     THEN pc' = "out" /\ UNCHANGED <<stack, taken>>
     ELSE /\ pc' = "walk"
          /\ stack' = Push(Frame(IF walker = "print" THEN 1 ELSE 2))
          /\ taken' = IF walker = "print" THEN taken + 1 ELSE taken
  /\ UNCHANGED <<disk, third, walker, path, printed>>

Inode == disk.inode[Top.ino]

InFrame(at) == pc = "walk" /\ stack # <<>> /\ Top.at = at

ReadInode ==
  /\ InFrame("inode")
  /\ DiskRead
  /\ printed' = IF path = <<>> THEN printed ELSE Append(printed, <<Top.ino, path>>)
  /\ IF Inode.dir
     THEN /\ stack' = SetTop([Top EXCEPT !.at = "zones", !.len = Len(path), !.i = 0])
          /\ path' = Append(path, "/")
     ELSE /\ stack' = SetTop([Top EXCEPT !.at = "end"])
          /\ UNCHANGED path
  /\ UNCHANGED <<disk, third, walker, pc, taken>>

\* the loop over the direct zones: the loop inside it has the same counter
Zones ==
  /\ InFrame("zones")
  /\ IF Top.i < 7
     THEN IF Inode.zones[Top.i] = 0
          THEN stack' = SetTop([Top EXCEPT !.i = @ + 1]) /\ UNCHANGED requests
          ELSE /\ stack' = SetTop([Top EXCEPT !.at = "entries", !.i = 128,
                                             !.block = Inode.zones[Top.i]])
               /\ DiskRead
     ELSE stack' = SetTop([Top EXCEPT !.at = "indirect"]) /\ UNCHANGED requests
  /\ UNCHANGED <<disk, third, walker, pc, path, printed, taken>>

\* behind the block the buffer is zero
EntryAt(d, block, i) ==
  LET k == i \div 64 + 1
  IN  IF k <= Len(d.block[block]) THEN d.block[block][k] ELSE [inode |-> 0, name |-> ""]

PathToKeeps(len, name) == Append(path, name)       \* mutant: the path is not cut back

PathTo(len, name) ==
  SubSeq(path, 1, len + 1) \o (IF name = "" THEN <<>> ELSE <<name>>)

\* minix_print calls itself for every entry; vfs_cache_inodes only looks at them
Entries ==
  /\ InFrame("entries")
  /\ LET next == [Top EXCEPT !.i = @ + 64]
         e == EntryAt(disk, Top.block, Top.i)
     IN  CASE Top.i >= Inode.size ->
                /\ stack' = SetTop([Top EXCEPT !.at = "zones", !.i = @ + 1])
                /\ UNCHANGED <<path, taken>>
           [] Top.i < Inode.size /\ walker = "print" ->
                /\ path' = PathTo(Top.len, e.name)
                /\ stack' = SetTop(next) \o << Frame(e.inode) >>
                /\ taken' = taken + 1
           [] Top.i < Inode.size /\ walker = "cache" ->
                /\ stack' = SetTop(next)
                /\ UNCHANGED <<path, taken>>
  /\ UNCHANGED <<disk, third, walker, pc, printed, requests>>

Indirect ==
  /\ InFrame("indirect")
  /\ IF \E z \in 7 .. 9 : Inode.zones[z] # 0
     THEN pc' = "wild" /\ DiskRead /\ UNCHANGED stack
     ELSE stack' = SetTop([Top EXCEPT !.at = "end"]) /\ UNCHANGED <<pc, requests>>
  /\ UNCHANGED <<disk, third, walker, path, printed, taken>>

\* minix_print frees its page and returns; vfs_cache_inodes goes to the next inode
End ==
  /\ InFrame("end")
  /\ LET more == walker = "cache" /\ Top.ino + 1 < disk.num_inodes - 1
         below == SubSeq(stack, 1, Len(stack) - 1)
     IN  /\ stack' = IF more THEN << Frame(Top.ino + 1) >> ELSE below
         /\ pc' = IF ~more /\ below = <<>> THEN "out" ELSE pc
  /\ taken' = IF walker = "print" THEN taken - 1 ELSE taken
  /\ UNCHANGED <<disk, third, walker, path, printed, requests>>

\* the path and the buffer of the superblock
Out ==
  /\ pc = "out" /\ pc' = "done"
  /\ taken' = taken - 2
  /\ UNCHANGED <<disk, third, walker, stack, path, printed, requests>>

Walk == Start \/ ReadInode \/ Zones \/ Entries \/ Indirect \/ End \/ Out

MinixTest == walker = "print" /\ Walk

VfsCacheInodes == walker = "cache" /\ Walk

Next == MinixTest \/ VfsCacheInodes

Spec == Init /\ [][Next]_vars

----------------------------------------------------------------------------
\* What is on a disk whose directories have one zone: the entries behind "." and "..",
\* and the paths of everything that can be reached.
FirstZone(d, n) ==
  LET used == {z \in 0 .. 6 : d.inode[n].zones[z] # 0}
  IN  d.inode[n].zones[CHOOSE z \in used : \A y \in used : z <= y]

Places(d, n) == 2 .. (d.inode[n].size + 63) \div 64 - 1

EntryOf(d, n, k) == EntryAt(d, FirstZone(d, n), 64 * k)

PathsOfLength(d) ==
  LET paths[l \in 0 .. Depth] ==
        IF l = 0 THEN {<<1, <<>> >>}
        ELSE UNION {{<<EntryOf(d, p[1], k).inode, p[2] \o <<"/", EntryOf(d, p[1], k).name>> >> :
                      k \in Places(d, p[1])} :
                    p \in {q \in paths[l - 1] : d.inode[q[1]].dir}}
  IN  paths

OnDisk(d) == UNION {PathsOfLength(d)[l] : l \in 1 .. Depth}

\* What a file system keeps: sizes, entries that have a name of their own and an inode,
\* zones that are direct first, and directories above each other, down to Depth.
WellFormed(d) ==
  /\ 1 \in DOMAIN d.inode
  /\ \A n \in DOMAIN d.inode :
       d.inode[n].dir \in BOOLEAN /\ d.inode[n].size \in Nat /\ d.inode[n].zones \in [0 .. 9 -> Nat]
  /\ \A n \in {m \in DOMAIN d.inode : d.inode[m].dir} :
       /\ \E z \in 0 .. 6 : d.inode[n].zones[z] # 0
       /\ \A k \in Places(d, n) :
            /\ EntryOf(d, n, k).inode \in DOMAIN d.inode
            /\ EntryOf(d, n, k).name # ""
            /\ \A j \in Places(d, n) :
                 EntryOf(d, n, j).name = EntryOf(d, n, k).name => j = k
  /\ \E level \in [DOMAIN d.inode -> 1 .. Depth] :
       \A n \in DOMAIN d.inode : d.inode[n].dir =>
         \A k \in Places(d, n) :
           LET below == EntryOf(d, n, k).inode
           IN  d.inode[below].dir => level[n] < level[below]

Printed == {printed[k] : k \in DOMAIN printed}

OneZone(d) == \A n \in DOMAIN d.inode :
  d.inode[n].dir => Cardinality({z \in 0 .. 9 : d.inode[n].zones[z] # 0}) = 1

\* Where reads get their length, and every directory has one zone, the walk prints
\* everything on the disk, each once, under its own path and no other, although all
\* calls write into one buffer; and all its pages are back but those of the requests
\* (minix3.c:12-122).
WalkComplete ==
  walker = "print" /\ third = "length" /\ OneZone(disk) =>
    /\ Printed \subseteq OnDisk(disk)
    /\ pc = "done" /\ disk.magic =>
         /\ Printed = OnDisk(disk)
         /\ Len(printed) = Cardinality(OnDisk(disk))
         /\ taken = 0
=============================================================================
