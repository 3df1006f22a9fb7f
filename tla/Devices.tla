------------------------------ MODULE Devices ------------------------------
(***************************************************************************)
(* The devices at work: the tablet and the GPU (PciDevices), the block     *)
(* devices (BlockDevices), the random number device (VirtioRng), the UART  *)
(* with the console (SbiConsole), what the GPU shows (GpuScreen), the      *)
(* enumeration that finds them (PciEnum), and what is read from the disks  *)
(* (MinixFs, Ext4Fs).  They touch different queues and memory; this module *)
(* states what each of them must keep.                                     *)
(***************************************************************************)
EXTENDS PciDevices

CONSTANTS BlockQueue, Word, Kinds, MaxReads,       \* BlockDevices, VirtioRng
          HartZero, OtherHarts, Chars, Nobody,
          BuffSize, LineSize, MaxTyped,            \* SbiConsole
          Displays, Area, Unit, Pen, Full, Coordinates,
          Garbage, MaxRefusals,                    \* GpuScreen
          Ports, Machine, Registers, ConfigBar,
          SizeChoices, Stride, Pad, None,          \* PciEnum
          Disks, Walkers, Depth, ExtDisks, Lasts   \* MinixFs, Ext4Fs

VARIABLES blk, minix, ext4, call,                  \* BlockDevices
          idx, desc, avail, filled, fill,          \* VirtioRng
          typed, fifo, buf, start, end, mutex, loop, ret, irqChar, char, at,
          delivered, dropped,                      \* SbiConsole
          width, height, pixels, resource, shown, draw, strip, rect, color,
          penX, penY, held, cut, events, refused,  \* GpuScreen
          size, bus, drivers, base, free, shares, work, step, config,  \* PciEnum
          disk, third, walker, walk, stack, path, printed, taken, requests,   \* MinixFs
          ext, ends, pos, root, byte, listed, back                     \* Ext4Fs

\* A table has no more descriptors than at_idx has values, and the requests of one disk
\* do not take at_idx round; Nobody is no hart.
ASSUME DevicesAssumption ==
  /\ BlockQueue \in Nat \ {0} /\ Word \in Nat /\ BlockQueue <= Word
  /\ MaxReads \in Nat /\ 3 * MaxReads < Word /\ 3 < Word
  /\ HartZero \notin OtherHarts /\ Nobody \notin OtherHarts \cup {HartZero}
  /\ BuffSize \in Nat \ {0} /\ LineSize \in Nat /\ MaxTyped \in Nat

\* Lengths and coordinates are unsigned (virtio_gpu.h); a negative x is one beyond any screen.
ASSUME ScreenAssumption ==
  /\ Displays \subseteq Nat \X Nat /\ Unit \in Nat \ {0} /\ Pen \in Nat
  /\ Full \in Nat \ {0} /\ Coordinates \cup Garbage \subseteq Nat /\ MaxRefusals \in Nat

Blocks == INSTANCE BlockDevices WITH QueueSize <- BlockQueue

Rng == INSTANCE VirtioRng WITH
  QueueSize <- BlockQueue, MaxFills <- BlockQueue, Patient <- TRUE, pc <- fill

Serial == INSTANCE SbiConsole WITH
  Console <- HartZero, Others <- OtherHarts, pc <- loop

Screen == INSTANCE GpuScreen WITH pc <- draw, x <- penX, y <- penY

Bus == INSTANCE PciEnum

Minix == INSTANCE MinixFs WITH pc <- walk

Ext4 == INSTANCE Ext4Fs WITH size <- ends, at <- byte

\* The machine is one that pci_init is written for (src/Makefile, pci.c:295-364), with
\* registers that its shares have room for.
ASSUME EnumerationAssumption == Bus!MachineFits /\ Bus!WindowsFit

\* The disks (src/Makefile:22-24) hold what mkfs and a file system have written.
ASSUME DisksAssumption ==
  /\ Depth \in Nat
  /\ \A d \in Disks : Minix!WellFormed(d)
  /\ \A d \in ExtDisks : Ext4!WellFormed(d)

\* Types of the four that have a type invariant.
TypesOK == TypeOK /\ Blocks!TypeOK /\ Rng!TypeOK /\ Serial!TypeOK

\* The device has exactly the buffers whose events were read, and every event is given
\* to ring_push once and in order (pci.c:83-95, virtio_inp.c:72-84).
EventsInOrder == BuffersConserved /\ PushedInOrder

\* What a device finds in the descriptors of a request is that request's, until it
\* is answered (virtioblk.c:91-142, virtio.c:79-90).
ChainsWhole == Blocks!ChainsWhole /\ Rng!OwnBuffers

\* A read returns when its data is there (virtioblk.c:148 "Adding reading poll
\* functionality").
ReadsComplete == Blocks!ReadsComplete

\* Characters stay in order, and none vanishes on the way (ring_buff.c, uart.c).
CharactersKept == Serial!InOrder /\ Serial!NothingVanishes

\* The ring of characters is a bounded FIFO (ring_buff.c:11-34).
RingIsFifo == Serial!RingIsFifo

\* What is drawn is what is shown (virtio_gpu.c:238-284, paint.c:28-134).
ShownIsDrawn == Screen!ShownIsDrawn

\* No two address registers overlap, and all lie behind the bridges; every driver's
\* structure points to its own device (pci.c:223-245, 295-378, 607-633).
Configured == Bus!TypeOK /\ Bus!WindowsApart /\ Bus!OwnRegisters

\* A walk prints all that is on the disk, once (minix3.c:12-122, ext4.c:41-110).
FilesListed == Minix!WalkComplete /\ Ext4!RootListed
=============================================================================
