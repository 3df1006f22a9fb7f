---------------------------- MODULE BlockDevices ----------------------------
(***************************************************************************)
(* The three block devices of src/src/virtioblk.c: the disk with the user  *)
(* program, the Minix disk and the ext4 disk.  Their code is one text      *)
(* three times, but of the three interrupt handlers only virtio_disk_isr   *)
(* is ever called (pci.c:71-72).  One hart makes the calls; the disk is    *)
(* read once (main.c:116), the file systems read block after block.        *)
(***************************************************************************)
EXTENDS Integers, Sequences

CONSTANTS QueueSize, Word, Kinds,
          MaxReads       \* bound on the requests of each file system

VARIABLES blk, minix, ext4, call

Disk == INSTANCE VirtioBlk WITH
  Name <- "blk", dev <- blk, Acknowledged <- TRUE, MaxRequests <- 1

Minix == INSTANCE VirtioBlk WITH
  Name <- "minix", dev <- minix, Acknowledged <- FALSE, MaxRequests <- MaxReads

Ext4 == INSTANCE VirtioBlk WITH
  Name <- "ext4", dev <- ext4, Acknowledged <- FALSE, MaxRequests <- MaxReads

MinixInit == Minix!Init

Ext4Init == Ext4!Init

Init == Disk!Init /\ MinixInit /\ Ext4Init /\ call = Disk!Idle

DiskStep == Disk!Next /\ UNCHANGED <<minix, ext4>>

MinixStep == Minix!Next /\ UNCHANGED <<blk, ext4>>

Ext4Step == Ext4!Next /\ UNCHANGED <<blk, minix>>

Next == DiskStep \/ MinixStep \/ Ext4Step

vars == <<blk, minix, ext4, call>>

Spec == Init /\ [][Next]_vars

----------------------------------------------------------------------------
TypeOK == Disk!TypeOK /\ Minix!TypeOK /\ Ext4!TypeOK

\* The chains of all three devices stay whole, also while the hart goes on with
\* the next call before the device has answered.
ChainsWhole == Disk!ChainsWhole /\ Minix!ChainsWhole /\ Ext4!ChainsWhole

\* A read returns when its data is there.
ReadsComplete == Disk!ReadsComplete /\ Minix!ReadsComplete /\ Ext4!ReadsComplete
=============================================================================
