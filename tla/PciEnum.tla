------------------------------ MODULE PciEnum ------------------------------
(***************************************************************************)
(* Enumeration of the PCI bus and the configuration of the devices that    *)
(* the kernel uses: src/src/pci.c, pci_init and what it calls.             *)
(*                                                                         *)
(* Addresses count pages of 4 KB from 0x40000000.  A device is known by    *)
(* the root port it sits behind and its slot there; it answers on the bus  *)
(* that its port was given as secondary bus.  A register of a device is an *)
(* address register (BAR) in use, the lower half if it has two; the host   *)
(* bridge in slot 0 of bus 0 has none.                                     *)
(***************************************************************************)
EXTENDS Integers, Sequences, FiniteSets

CONSTANTS Ports,        \* slots of the root ports on bus 0
          Machine,      \* [<<port, slot>> -> id of the device], src/Makefile
          Registers,    \* [id -> sequence of its registers]
          ConfigBar,    \* the register with the virtio structures
          SizeChoices,  \* what [id -> [register -> size]] may be, powers of 2
          Stride,       \* 0x100000, the share of each device
          Pad,          \* 0x10000, added behind each window
          None          \* no address, no device

VARIABLES size,      \* what the registers report when written with ones
          bus,       \* secondary_bus_no of each port, 0 before it is set
          drivers,   \* d_list_head: the ids that are registered
          base,      \* the address in each register
          free,      \* bar_address_free
          shares,    \* dev_count
          work,      \* whose registers are allocated, and which are left
          step,      \* position in Setup
          config     \* the addresses in the driver structures

vars == <<size, bus, drivers, base, free, shares, work, step, config>>

\* The fixed part of pci_init: the structures, the device each one is meant
\* for, and whether its registers are allocated here, because its id is
\* registered for another device.
Setup == << [struct |-> "rng",      bus |-> 1, slot |-> 2, allocate |-> FALSE],
            [struct |-> "blk",      bus |-> 2, slot |-> 1, allocate |-> FALSE],
            [struct |-> "minix",    bus |-> 2, slot |-> 2, allocate |-> TRUE],
            [struct |-> "ext4",     bus |-> 2, slot |-> 3, allocate |-> TRUE],
            [struct |-> "gpu",      bus |-> 2, slot |-> 0, allocate |-> FALSE],
            [struct |-> "ipt",      bus |-> 1, slot |-> 0, allocate |-> FALSE],
            [struct |-> "keyboard", bus |-> 1, slot |-> 1, allocate |-> TRUE] >>

Structs == {Setup[i].struct : i \in 1 .. Len(Setup)}

Pointers == {"common", "notify", "isr", "device"}

Devices == DOMAIN Machine

\* a port is the device in its slot of bus 0
Nodes == Devices \cup ({0} \X Ports)

Kind(n) == IF n[1] = 0 THEN "port" ELSE Machine[n]

RegistersOf(n) == {Registers[Kind(n)][i] : i \in 1 .. Len(Registers[Kind(n)])}

Idle == [node |-> None, left |-> <<>>]

InitWith(s) ==
  /\ size = s
  /\ bus = [p \in Ports |-> 0]
  /\ drivers = {}
  /\ base = [n \in Nodes |-> [r \in RegistersOf(n) |-> None]]
  /\ free = 0 /\ shares = 0
  /\ work = Idle /\ step = 1
  /\ config = [d \in Structs |-> [p \in Pointers |-> None]]

Init == \E s \in SizeChoices : InitWith(s)

----------------------------------------------------------------------------
(* pci_allocate_bar.  A register reads its size back as a mask, and the    *)
(* free address is cut with that mask.                                     *)
Masked(a, n) == (a \div n) * n

PaddedNot(n) == n           \* mutant: only the size is added

Padded(n) == n + Pad

AllocateBar ==
  /\ work.left # <<>>
  /\ LET r == Head(work.left)
         n == size[Kind(work.node)][r]
     IN  /\ base' = [base EXCEPT ![work.node][r] = Masked(free, n)]
         /\ free' = free + Padded(n)
  /\ work' = [work EXCEPT !.left = Tail(@)]
  /\ UNCHANGED <<size, bus, drivers, shares, step, config>>

\* behind the loop over its registers the share of the next device begins
NextShare ==
  /\ work # Idle /\ work.left = <<>>
  /\ shares' = shares + 1
  /\ free' = Stride * (shares + 1)
  /\ work' = Idle
  /\ UNCHANGED <<size, bus, drivers, base, step, config>>

Allocate(n) == work' = [node |-> n, left |-> Registers[Kind(n)]]

----------------------------------------------------------------------------
(* The walk over bus 0.  Each root port is given the next bus number, and  *)
(* then PciDriver_init registers what has become visible, the first device *)
(* of an id only.                                                          *)
BusSlot(d) == 32 * bus[d[1]] + d[2]

New == {d \in Devices : bus[d[1]] # 0 /\ Machine[d] \notin drivers}

FirstNew == CHOOSE d \in New : \A e \in New : BusSlot(d) <= BusSlot(e)

Unconfigured == {p \in Ports : bus[p] = 0}

FirstPort == CHOOSE p \in Unconfigured : \A q \in Unconfigured : p <= q

\* The host bridge has the header type of a device; it is seen from the first
\* PciDriver_init on, before all others.
Host == "host"

HostIsNew == Unconfigured # Ports /\ Host \notin drivers

\* pci_register_driver for the host bridge: all its address registers read 0, but it
\* takes a share
RegisterHost ==
  /\ work = Idle /\ HostIsNew
  /\ drivers' = drivers \cup {Host}
  /\ shares' = shares + 1
  /\ free' = Stride * (shares + 1)
  /\ UNCHANGED <<size, bus, base, work, step, config>>

\* pci_config_t1; subordinate counts the ports from 1
ConfigPort ==
  /\ work = Idle /\ ~HostIsNew /\ New = {} /\ Unconfigured # {}
  /\ bus' = [bus EXCEPT ![FirstPort] = Cardinality(Ports \ Unconfigured) + 1]
  /\ Allocate(<<0, FirstPort>>)
  /\ UNCHANGED <<size, drivers, base, free, shares, step, config>>

\* PciDriver_init, pci_register_driver
RegisterDriver ==
  /\ work = Idle /\ ~HostIsNew /\ New # {}
  /\ drivers' = drivers \cup {Machine[FirstNew]}
  /\ Allocate(FirstNew)
  /\ UNCHANGED <<size, bus, base, free, shares, step, config>>

----------------------------------------------------------------------------
(* The fixed part: the addresses of the virtio structures, by id and slot. *)
StructOfId(d) ==         \* mutant: the slot is not looked at
  CASE Machine[d] = "input" -> "ipt" [] OTHER -> Machine[d]

StructOf(d) ==
  CASE Machine[d] = "input" -> IF d[2] = 0 THEN "ipt" ELSE "keyboard"
    [] Machine[d] = "blk"   -> (CASE d[2] = 1 -> "blk" [] d[2] = 2 -> "minix"
                                  [] OTHER -> "ext4")
    [] OTHER -> Machine[d]

Point(c, d, p) == [c EXCEPT ![StructOf(d)][p] = base[d][ConfigBar]]

CommonCfg(c, d) == Point(c, d, "common")

\* rng and blk keep the capability, and each request adds the address of the
\* register to it, which was kept with the common structure
NotifyCfg(c, d) == Point(c, d, "notify")

IsrCfg(c, d) == Point(c, d, "isr")

\* the rng has none that is used
DeviceCfg(c, d) == IF Machine[d] = "rng" THEN c ELSE Point(c, d, "device")

DeviceAt(b, s) == CHOOSE d \in Devices : bus[d[1]] = b /\ d[2] = s

Scanned ==
  work = Idle /\ ~HostIsNew /\ New = {} /\ Unconfigured = {} /\ step <= Len(Setup)

\* pci_allocate_bar for the second device of an id
AllocateHere ==
  LET d == DeviceAt(Setup[step].bus, Setup[step].slot)
  IN  /\ Scanned /\ Setup[step].allocate /\ base[d][ConfigBar] = None
      /\ Allocate(d)
      /\ UNCHANGED <<size, bus, drivers, base, free, shares, step, config>>

\* pci_cape_ptr_check
CapePtrCheck ==
  LET d == DeviceAt(Setup[step].bus, Setup[step].slot)
  IN  /\ Scanned /\ (Setup[step].allocate => base[d][ConfigBar] # None)
      /\ config' = DeviceCfg(IsrCfg(NotifyCfg(CommonCfg(config, d), d), d), d)
      /\ step' = step + 1
      /\ UNCHANGED <<size, bus, drivers, base, free, shares, work>>

Next == AllocateBar \/ NextShare \/ ConfigPort \/ RegisterHost \/ RegisterDriver
        \/ AllocateHere \/ CapePtrCheck

Spec == Init /\ [][Next]_vars

----------------------------------------------------------------------------
\* 0x4000 to 0x4fff in the bridges' memory_base and memory_limit
BridgeEnd == 65536

BridgeWindow == 0 .. BridgeEnd - 1

\* The machine has a device for every entry of Setup, behind the port that the walk
\* gives its bus number: the first of its id where no registers are allocated here.
\* A register is no larger than the padding, and the registers of a device with theirs
\* fit into its share, and all shares, one of them the host bridge's, behind the bridges.
IdOf(struct) == CASE struct \in {"ipt", "keyboard"} -> "input"
                  [] struct \in {"blk", "minix", "ext4"} -> "blk"
                  [] OTHER -> struct

Rank(p) == Cardinality({q \in Ports : q <= p})

FirstOfId(d) ==
  \A e \in Devices : Machine[e] = Machine[d] => 32 * Rank(d[1]) + d[2] <= 32 * Rank(e[1]) + e[2]

MachineFits ==
  /\ IsFiniteSet(Ports) /\ Ports \subseteq Nat \ {0}
  /\ IsFiniteSet(Devices) /\ Devices \subseteq Ports \X (0 .. 31)
  /\ \A d \in Devices : Machine[d] # Host
  /\ \A i \in 1 .. Len(Setup) : \E p \in Ports :
       LET d == <<p, Setup[i].slot>>
       IN  /\ Rank(p) = Setup[i].bus /\ d \in Devices
           /\ Machine[d] = IdOf(Setup[i].struct) /\ ConfigBar \in RegistersOf(d)
           /\ Setup[i].allocate \/ FirstOfId(d)

WindowsFit ==
  /\ Stride \in Nat /\ Pad \in Nat /\ None \notin BridgeWindow \cup Nodes
  /\ Stride * (Cardinality(Nodes) + 1) <= BridgeEnd
  /\ \A n \in Nodes :
       LET list == Registers[Kind(n)]
       IN  /\ list \in Seq(RegistersOf(n)) /\ list # <<>>
           /\ \A i, j \in 1 .. Len(list) : list[i] = list[j] => i = j
           /\ 2 * Pad * Len(list) <= Stride
           /\ \A s \in SizeChoices, r \in RegistersOf(n) :
                s[Kind(n)][r] \in 1 .. Pad /\ Stride % s[Kind(n)][r] = 0

Allocated == UNION {{n} \X {r \in RegistersOf(n) : base[n][r] # None} : n \in Nodes}

From(w) == base[w[1]][w[2]]

To(w) == From(w) + size[Kind(w[1])][w[2]] - 1

TypeOK ==
  /\ \A n \in Nodes : \A r \in RegistersOf(n) : size[Kind(n)][r] \in 1 .. Pad
  /\ bus \in [Ports -> 0 .. Cardinality(Ports)]
  /\ \A p, q \in Ports : bus[p] = bus[q] => p = q \/ bus[p] = 0
  /\ free \in Nat /\ shares \in Nat
  /\ step \in 1 .. Len(Setup) + 1

\* No two registers are given addresses in common, whatever the sizes, and all
\* lie behind the bridges (pci.c:223-245, 607-633).
WindowsApart ==
  \A v \in Allocated :
    /\ From(v) \in BridgeWindow /\ To(v) \in BridgeWindow
    /\ \A w \in Allocated : v # w => To(v) < From(w) \/ To(w) < From(v)

\* The structure of each driver points to the registers of its own device, the
\* addresses they still have, and all that its initialisation reads is set
\* (pci.c:295-378).
OwnRegisters ==
  \A i \in 1 .. step - 1 :
    LET d == DeviceAt(Setup[i].bus, Setup[i].slot)
        c == config[Setup[i].struct]
    IN  \A p \in Pointers \ (IF Setup[i].struct = "rng" THEN {"device"} ELSE {}) :
          c[p] # None /\ c[p] = base[d][ConfigBar]
=============================================================================
