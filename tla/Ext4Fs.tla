------------------------------- MODULE Ext4Fs -------------------------------
(***************************************************************************)
(* ext4_test and ext4_print_root of src/src/ext4.c: from the superblock to *)
(* the group descriptor, the inode table, the extent of the root and its   *)
(* directory entries.  Offsets are bytes, as in the code; a disk is what   *)
(* lies at which byte.  As in MinixFs, the third argument of ext4_disk_rw  *)
(* is an end where the callers pass a length, and reads always succeed.    *)
(***************************************************************************)
EXTENDS Integers, Sequences, FiniteSets

CONSTANTS ExtDisks,
          Lasts         \* what the third argument may be: "end", "length"

\* sizeof(Inode_ext2), which is not the size of an inode on the disk
SizeofInode == 128

VARIABLES ext,          \* the disk
          size,         \* "end" or "length"
          pos,          \* where the function is
          root,         \* the inode it takes for the root, or -1
          at,           \* the byte of the directory entry, in the block
          listed,       \* entries printed
          back          \* pages given back, by name

vars == <<ext, size, pos, root, at, listed, back>>

InitWith(d, s) ==
  /\ ext = d /\ size = s
  /\ pos = "super" /\ root = -1 /\ at = 0 /\ listed = <<>> /\ back = <<>>

Init == \E d \in ExtDisks, s \in Lasts : InitWith(d, s)

BlockSize == 1024 * 2 ^ ext.log_block_size

\* right for blocks of 1024 bytes, where block 1 lies at 1024
BlockOffset(block) == 1024 + (block - 1) * BlockSize

Goto(from, to) == pos = from /\ pos' = to

\* the superblock at 1024, and its magic number
Super ==
  /\ Goto("super", IF size = "length" /\ ext.magic THEN "group" ELSE "out")
  /\ UNCHANGED <<ext, size, root, at, listed, back>>

\* the descriptor of the first group at 2048; the inode table, and the root in it:
\* two structures behind its beginning
RootIndexFirst == 1        \* mutant: the inodes are counted from the root

RootIndex == 2

InodeTable ==
  /\ Goto("group", "inode")
  /\ root' = IF BlockOffset(ext.inode_table) = ext.inode_table * BlockSize
             THEN (RootIndex * SizeofInode) \div ext.inode_size + 1 ELSE 0
  /\ UNCHANGED <<ext, size, at, listed, back>>

Extents ==
  /\ Goto("inode", IF ext.inode[root].extents /\ ext.inode[root].magic
                      /\ ext.inode[root].depth = 0 THEN "entries" ELSE "out2")
  /\ UNCHANGED <<ext, size, root, at, listed, back>>

\* the directory block that the first extent starts with
Directory ==
  LET start == ext.inode[root].start
  IN  IF BlockOffset(start) = start * BlockSize THEN ext.dir[start] ELSE ext.dir[0]

\* by rec_len from one entry to the next, up to the tail
Entry ==
  /\ pos = "entries"
  /\ at \in DOMAIN Directory
  /\ LET e == Directory[at]
     IN  IF e.name_type = "tail"
         THEN pos' = "out2" /\ UNCHANGED <<at, listed>>
         ELSE listed' = Append(listed, e.inode) /\ at' = at + e.rec_len /\ UNCHANGED pos
  /\ UNCHANGED <<ext, size, root, back>>

\* without a tail it reads what lies behind the block, as if it were entries
Beyond ==
  /\ Goto("entries", "wild")
  /\ at \notin DOMAIN Directory
  /\ UNCHANGED <<ext, size, root, at, listed, back>>

\* ext4_print_root gives the same page back twice
Out2 ==
  /\ Goto("out2", "out")
  /\ back' = back \o <<"inodes", "inodes">>
  /\ UNCHANGED <<ext, size, root, at, listed>>

Out ==
  /\ Goto("out", "done")
  /\ back' = back \o <<"path", "blockbuf">>
  /\ UNCHANGED <<ext, size, root, at, listed>>

Next == Super \/ InodeTable \/ Extents \/ Entry \/ Beyond \/ Out2 \/ Out

Spec == Init /\ [][Next]_vars

----------------------------------------------------------------------------
\* The entries of the root, inode 2, by the bytes where they begin: those before a tail.
RootDirectory == ext.dir[ext.inode[2].start]

RootEntries ==
  {k \in DOMAIN RootDirectory :
     \A j \in DOMAIN RootDirectory : j <= k => RootDirectory[j].name_type # "tail"}

\* s lists the entries of d that begin at the bytes S, in their order.
Lists(s, d, S) ==
  /\ Len(s) = Cardinality(S)
  /\ \A k \in S : s[Cardinality({j \in S : j <= k})] = d[k].inode

\* What a file system keeps: one entry lies where the one before it ends, up to the tail.
WellFormed(d) ==
  /\ \A n \in DOMAIN d.inode : d.inode[n].start \in Nat /\ d.inode[n].start \in DOMAIN d.dir
  /\ 2 \in DOMAIN d.inode /\ d.inode_table \in Nat
  /\ \A b \in DOMAIN d.dir :
       /\ DOMAIN d.dir[b] \subseteq Nat /\ IsFiniteSet(DOMAIN d.dir[b])
       /\ \A k, j \in DOMAIN d.dir[b] :
            d.dir[b][k].name_type # "tail" =>
              /\ d.dir[b][k].rec_len \in Nat \ {0}
              /\ k < j => k + d.dir[b][k].rec_len <= j

\* Where reads get their length, a disk with blocks of 1024 bytes, inodes of 256 and
\* one extent in the root's inode has the entries of its root listed, in order
\* (ext4.c:41-110).
RootListed ==
  /\ pos = "done" /\ size = "length" /\ ext.magic /\ ext.log_block_size = 0
  /\ ext.inode_size = 256 /\ ext.inode[2].extents /\ ext.inode[2].magic
  /\ ext.inode[2].depth = 0
  => Lists(listed, RootDirectory, RootEntries)
=============================================================================
