----------------------------- MODULE MCDevices -----------------------------
(***************************************************************************)
(* The devices: how pci_init finds and configures them (PciEnum), those at *)
(* work (Devices), and what is read from the disks (MinixFs, Ext4Fs).  The *)
(* first comes before the others, and these touch different queues and     *)
(* memory, so they are not interleaved: the first state says which one is  *)
(* at work.                                                                *)
(***************************************************************************)
EXTENDS Devices, TLC

CONSTANTS Which,        \* what is at work
          Sizes         \* of registers

VARIABLE which

\* the machine that src/Makefile starts, a USB controller behind the third port
QemuMachine == (<<1, 0>> :> "input") @@ (<<1, 1>> :> "input") @@ (<<1, 2>> :> "rng")
           @@ (<<2, 0>> :> "gpu") @@ (<<2, 1>> :> "blk") @@ (<<2, 2>> :> "blk")
           @@ (<<2, 3>> :> "blk") @@ (<<3, 0>> :> "xhci")

Ids == {"port", "input", "rng", "gpu", "blk", "xhci"}

QemuRegisters == [i \in Ids |-> IF i \in {"port", "xhci"} THEN <<"bar0">> ELSE <<"bar1", "bar4">>]

\* one page for BAR 1 and the ports' register, and any choice for the rest
QemuSizes ==
  {[i \in Ids |-> [r \in {"bar0", "bar1", "bar4"} |->
      IF i = "port" \/ r = "bar1" THEN 1 ELSE f[i]]] : f \in [Ids \ {"port"} -> Sizes]}

\* A root with a file, a directory and a directory in that; its zones may be at any
\* place of the inode, its size may end before the last entry, which has no inode
\* (what lies before inode 1 is the end of a bitmap, and no directory), and one of its
\* directories may have two zones, or one that is indirect.
Zones(f) == [z \in 0 .. 9 |-> IF z \in DOMAIN f THEN f[z] ELSE 0]
Folder(bytes, f) == [dir |-> TRUE, size |-> bytes, zones |-> Zones(f)]
File(f) == [dir |-> FALSE, size |-> 5, zones |-> Zones(f)]
Entry(n, name) == [inode |-> n, name |-> name]
Dots == <<Entry(1, "."), Entry(1, "..")>>

MinixBlocks ==
  (10 :> Dots \o <<Entry(2, "a"), Entry(3, "b"), Entry(0, "c")>>)
  @@ (11 :> Dots \o <<Entry(4, "a"), Entry(5, "c")>>) @@ (12 :> Dots \o <<Entry(4, "d")>>)

MinixDisks ==
  {[magic |-> magic, num_inodes |-> inodes, block |-> MinixBlocks,
    inode |-> [n \in 0 .. 5 |->
      CASE n = 0 -> File(<<>>)
        [] n = 1 -> Folder(bytes, z :> 10)
        [] n = 2 -> File(0 :> 14)
        [] n = 3 -> Folder(256, (2 :> 11) @@ more)
        [] n = 4 -> File(0 :> 15)
        [] n = 5 -> Folder(192, 6 :> 12)]] :
   magic \in BOOLEAN, inodes \in {3, 6}, bytes \in {128, 192, 250, 320}, z \in {0, 3, 6},
   more \in {<<>>, 4 :> 12, 7 :> 10}}

\* Two directories, one with its tail; blocks of 1024 and of 4096 bytes, inodes of two
\* sizes, and an extent tree with and without another level.
ExtDirs ==
  [b \in {0, 8, 9} |->
     CASE b = 8 -> [k \in {0, 12, 24, 1012} |->
                      [inode |-> k, rec_len |-> IF k = 24 THEN 988 ELSE 12,
                       name_type |-> IF k = 1012 THEN "tail" ELSE "file"]]
       [] b = 9 -> [k \in {0, 12} |->
                      [inode |-> k + 1, rec_len |-> IF k = 0 THEN 12 ELSE 1012,
                       name_type |-> "file"]]
       [] b = 0 -> <<>>]

ExtImages ==
  {[magic |-> magic, log_block_size |-> log, inode_table |-> 5, inode_size |-> isize,
    dir |-> ExtDirs,
    inode |-> [n \in 0 .. 3 |->
      [extents |-> extents, magic |-> TRUE, depth |-> IF n = deep THEN 1 ELSE 0,
       start |-> IF n = 2 THEN 8 ELSE 9]]] :
   magic \in BOOLEAN, log \in {0, 2}, isize \in {128, 256}, extents \in BOOLEAN,
   deep \in {1, 2, 3}}

\* the picture that paint() draws for, larger ones that the pages can hold, a smaller one
SomeDisplays == {<<16, 12>>, <<16, 13>>, <<16, 14>>, <<17, 12>>, <<8, 6>>}

enumVars    == <<size, bus, drivers, base, free, shares, work, step, config>>
blockVars   == <<blk, minix, ext4, call>>
rngVars     == <<idx, desc, avail, filled, fill>>
consoleVars == <<typed, fifo, buf, start, end, mutex, loop, ret, irqChar, char, at,
                 delivered, dropped>>
minixVars   == <<disk, third, walker, walk, stack, path, printed, taken, requests>>
ext4Vars    == <<ext, ends, pos, root, byte, listed, back>>
screenVars  == <<width, height, pixels, resource, shown, draw, strip, rect, color,
                 penX, penY, held, cut, events, refused>>
queueVars   == <<vars, enumVars, blockVars, rngVars>>
dataVars    == <<consoleVars, minixVars, ext4Vars, screenVars>>
allVars     == <<which, queueVars, dataVars>>

\* the sizes and the disks only matter to those that look at them
MCInit ==
  /\ which \in Which
  /\ Init /\ Blocks!Init /\ Rng!Init /\ Serial!Init /\ Screen!Init
  /\ IF which = "enumeration" THEN Bus!Init
     ELSE Bus!InitWith(CHOOSE s \in SizeChoices : TRUE)
  /\ IF which = "minix" THEN Minix!Init ELSE Minix!InitWith(0, "end", "print")
  /\ IF which = "ext4" THEN Ext4!Init ELSE Ext4!InitWith(0, "end")
  /\ which # "screen" => penX = CHOOSE g \in Garbage : TRUE

EnumerationRuns == /\ which = "enumeration" /\ Bus!Next
                   /\ UNCHANGED <<which, vars, blockVars, rngVars, dataVars>>

BlocksRun == /\ which = "blocks" /\ Blocks!Next
             /\ UNCHANGED <<which, vars, enumVars, rngVars, dataVars>>

RngRuns == /\ which = "rng" /\ Rng!Next
           /\ UNCHANGED <<which, vars, enumVars, blockVars, dataVars>>

AtInterrupts == which = "interrupts" /\ UNCHANGED <<which, enumVars, blockVars, rngVars, dataVars>>

InterruptsRun == AtInterrupts /\ Next

AtConsole == which = "console" /\ UNCHANGED <<which, queueVars, minixVars, ext4Vars, screenVars>>

ConsoleRuns == AtConsole /\ Serial!Next

MinixRuns == /\ which = "minix" /\ Minix!Next
             /\ UNCHANGED <<which, queueVars, consoleVars, ext4Vars, screenVars>>

Ext4Runs == /\ which = "ext4" /\ Ext4!Next
            /\ UNCHANGED <<which, queueVars, consoleVars, minixVars, screenVars>>

ScreenRuns == /\ which = "screen" /\ Screen!Next
              /\ UNCHANGED <<which, queueVars, consoleVars, minixVars, ext4Vars>>

MCNext == \/ EnumerationRuns \/ BlocksRun \/ RngRuns \/ InterruptsRun
          \/ ConsoleRuns \/ MinixRuns \/ Ext4Runs \/ ScreenRuns

\* the fairness of PciDevices!FairSpec, and what UartDrained needs of SbiConsole!FairSpec
MCSpec ==
  /\ MCInit /\ [][MCNext]_allVars
  /\ WF_allVars(AtInterrupts /\ Irq)
  /\ WF_allVars(AtConsole /\ Serial!Irq)
  /\ SF_allVars(AtConsole /\ Serial!TakeIrq) /\ SF_allVars(AtConsole /\ Serial!PutLock)
  /\ \A h \in Serial!Readers : WF_allVars(AtConsole /\ Serial!GetChar(h))

\* Neither events nor characters stay in their devices (pci.c:83-95, uart.c:25-36).
InputDrained == EventsDrained /\ Serial!UartDrained
=============================================================================
