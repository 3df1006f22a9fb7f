--------------------------- MODULE VirtioBlkProofs ---------------------------
(***************************************************************************)
(* Proofs about one block device beside the calls to all of them, for a    *)
(* descriptor table of every size and any number of requests that does not *)
(* take at_idx through its range.                                          *)
(***************************************************************************)
EXTENDS VirtioBlk, TLAPS

\* at_idx does not wrap; the device whose interrupt is acknowledged gets one request
\* (main.c:116).
BlkConstants ==
  /\ QueueSize \in Nat \ {0} /\ Word \in Nat /\ MaxRequests \in Nat
  /\ 3 * MaxRequests < Word /\ Name # "none"
  /\ Acknowledged \in BOOLEAN /\ (Acknowledged => MaxRequests <= 1)

Pcs == {Picking[p] : p \in Parts} \cup {Filling[p] : p \in Parts}
         \cup {"idle", "load", "bump", "publish", "poll"}

Entries == [req : Nat, part : Parts \cup {"none"}, next : Descs]

Answers == [1 .. 3 -> Nat \X (Parts \cup {"none"})]

DevRecords ==
  [idx : 0 .. Word - 1, desc : [Descs -> Entries], avail : Seq(Descs), used : Nat,
   isr : BOOLEAN, served : Seq(Answers)]

Frames == [dev : {Name}, pc : Pcs, kind : Kinds, at : [Parts -> Descs], loaded : Nat]

\* The descriptor of a part of request n, as long as at_idx counts three for each request
\* that was made before.
Place(n, p) == (3 * (n - 1) + Offset[p]) % (QueueSize - 1)

\* Part p of request n, with its link, is in its descriptor.
Stored(n, p) ==
  dev.desc[Place(n, p)] =
    [req |-> n, part |-> p, next |-> IF p = "status" THEN 0 ELSE Place(n, Follows[p])]

\* where the call is before it has chosen the descriptor of a part ...
Choosing == [header |-> {"pick header"}, data |-> {"pick header", "pick data"},
             status |-> {"pick header", "pick data", "pick status"}]

\* ... behind at_idx += 3 ...
Counted == {"fill header", "fill data", "fill status", "publish"}

\* ... and when it has stored it
Storing == [header |-> {"fill data", "fill status", "publish"},
            data |-> {"fill status", "publish"}, status |-> {"publish"}]

Mine == call.dev = Name

Active == Mine /\ call.pc \notin {"idle", "poll"}

\* The books of the device.
Books ==
  /\ dev \in DevRecords
  /\ Len(dev.served) = dev.used /\ dev.used <= Published /\ Published <= MaxRequests
  /\ 3 * (Published - dev.used) <= QueueSize - 1
  /\ dev.isr => dev.used > 0

\* at_idx counts the requests, until an interrupt of the device is acknowledged.
Index ==
  \/ Acknowledged /\ dev.used > 0
  \/ dev.idx = 3 * (IF Mine /\ call.pc \in Counted THEN Published + 1 ELSE Published)

\* The call prepares the next request, in descriptors that no open request has.
Frame ==
  /\ Mine => call \in Frames
  /\ Active =>
       /\ Published < MaxRequests /\ InFlight
       /\ \A p \in Parts :
            /\ call.pc \notin Choosing[p] => call.at[p] = Place(Published + 1, p)
            /\ call.pc \in Storing[p] => Stored(Published + 1, p)
  /\ Mine /\ call.pc = "bump" => call.loaded = 3 * Published

Open ==
  \A n \in dev.used + 1 .. Published :
    dev.avail[n] = Place(n, "header") /\ \A p \in Parts : Stored(n, p)

DevInv == Books /\ Index /\ Frame /\ Open

----------------------------------------------------------------------------
(* Remainders *)

LEMMA ModParts ==
  ASSUME NEW N \in Nat \ {0}, NEW a \in Nat
  PROVE  \E q \in Nat, r \in 0 .. N - 1 : a = N * q + r /\ r = a % N
<1>1. /\ a = N * (a \div N) + (a % N)
      /\ a \div N \in Nat /\ a % N \in 0 .. N - 1
  OBVIOUS
<1> QED
  BY <1>1

\* What is needed of products, so that no other step multiplies.
LEMMA Times ==
  ASSUME NEW N \in Nat \ {0}, NEW p \in Int, NEW q \in Int
  PROVE  /\ N * (q - p) = N * q - N * p /\ N * (q + p) = N * q + N * p
         /\ N * p \in Int /\ N * q \in Int
         /\ q > p => N * q - N * p >= N
         /\ q >= 0 => N * q >= 0
<1>1. ASSUME q > p PROVE N * (q - p) >= N
  BY <1>1
<1> QED
  BY <1>1

LEMMA ModApart ==
  ASSUME NEW N \in Nat \ {0}, NEW a \in Nat, NEW b \in Nat, a < b, b < a + N
  PROVE  a % N # b % N
<1>1. PICK q \in Nat, r \in 0 .. N - 1 : a = N * q + r /\ r = a % N
  BY ModParts
<1>2. PICK p \in Nat, s \in 0 .. N - 1 : b = N * p + s /\ s = b % N
  BY ModParts
<1>3. PICK x \in Int, y \in Int : x = N * q /\ y = N * p
  OBVIOUS
<1>4. p > q => y - x >= N
  BY <1>3, Times
<1>5. q >= p => x - y >= 0
  <2>1. CASE q = p
    BY <2>1, <1>3
  <2>2. CASE q > p
    BY <2>2, <1>3, Times
  <2> QED
    BY <2>1, <2>2
<1> QED
  BY <1>1, <1>2, <1>3, <1>4, <1>5

----------------------------------------------------------------------------
(* Descriptors *)

LEMMA PlaceIs ==
  ASSUME BlkConstants, QueueSize >= 4, NEW n \in Nat \ {0}, NEW p \in Parts
  PROVE  Place(n, p) \in 0 .. QueueSize - 2 /\ Place(n, p) \in Descs
<1>1. PICK N \in Nat \ {0}, a \in Nat : N = QueueSize - 1 /\ a = 3 * (n - 1) + Offset[p]
  BY DEF BlkConstants, Parts, Offset
<1>2. a % N \in 0 .. N - 1
  BY ModParts
<1> QED
  BY <1>1, <1>2 DEF Place, Descs, BlkConstants

\* Requests that are open at the same time, or the same one, have different descriptors
\* for different parts.
LEMMA PlacesApart ==
  ASSUME BlkConstants, NEW n \in Nat \ {0}, NEW m \in Nat \ {0}, NEW p \in Parts, NEW q \in Parts,
         n <= m, 3 * (m - n + 1) <= QueueSize - 1, n # m \/ p # q
  PROVE  Place(n, p) # Place(m, q)
<1>1. PICK N \in Nat \ {0} : N = QueueSize - 1
  BY DEF BlkConstants
<1>2. PICK a \in Nat : a = 3 * (n - 1) + Offset[p]
  BY DEF Parts, Offset
<1>3. PICK b \in Nat : b = 3 * (m - 1) + Offset[q]
  BY DEF Parts, Offset
<1>4. Offset[p] \in 0 .. 2 /\ Offset[q] \in 0 .. 2 /\ (p # q => Offset[p] # Offset[q])
  BY DEF Parts, Offset
<1>5. /\ a # b /\ a < b + N /\ b < a + N
  BY <1>1, <1>2, <1>3, <1>4
<1>6. a % N # b % N
  <2>1. CASE a < b
    BY <1>5, <2>1, ModApart
  <2>2. CASE b < a
    BY <1>5, <2>2, ModApart
  <2> QED
    BY <1>5, <2>1, <2>2
<1> QED
  BY <1>1, <1>2, <1>3, <1>6 DEF Place

----------------------------------------------------------------------------
(* Where a call is *)

LEMMA Names ==
  /\ Picking["header"] = "pick header" /\ Picking["data"] = "pick data"
  /\ Picking["status"] = "pick status"
  /\ Filling["header"] = "fill header" /\ Filling["data"] = "fill data"
  /\ Filling["status"] = "fill status"
  /\ Follows["header"] = "data" /\ Follows["data"] = "status"
BY DEF Picking, Filling, Follows

LEMMA Phases ==
  /\ Choosing["header"] = {"pick header"} /\ Choosing["data"] = {"pick header", "pick data"}
  /\ Choosing["status"] = {"pick header", "pick data", "pick status"}
  /\ Storing["header"] = {"fill data", "fill status", "publish"}
  /\ Storing["data"] = {"fill status", "publish"} /\ Storing["status"] = {"publish"}
BY DEF Choosing, Storing

LEMMA PcsAre ==
  Pcs = {"pick header", "pick data", "pick status", "fill header", "fill data",
         "fill status", "idle", "load", "bump", "publish", "poll"}
BY Names DEF Pcs, Parts

LEMMA PhasesAre ==
  ASSUME NEW q \in Parts, NEW pc
  PROVE  /\ pc \in Choosing[q] <=>
              \/ pc = "pick header"
              \/ pc = "pick data" /\ q # "header"
              \/ pc = "pick status" /\ q = "status"
         /\ pc \in Storing[q] <=>
              \/ pc = "fill data" /\ q = "header"
              \/ pc = "fill status" /\ q # "status"
              \/ pc = "publish"
<1>1. CASE q = "header"
  BY <1>1, Phases
<1>2. CASE q = "data"
  BY <1>2, Phases
<1>3. CASE q = "status"
  BY <1>3, Phases
<1> QED
  BY <1>1, <1>2, <1>3 DEF Parts

\* Behind a choice the call has chosen one part more ...
LEMMA PickPcs ==
  ASSUME NEW p \in Parts, NEW pc,
         pc = IF p = "status" THEN "load" ELSE Picking[Follows[p]]
  PROVE  /\ pc \in Pcs /\ pc # "bump" /\ pc \notin Counted
         /\ Picking[p] \notin {"idle", "poll"} \cup Counted
         /\ \A q \in Parts :
              /\ pc \notin Storing[q]
              /\ q # p /\ pc \notin Choosing[q] => Picking[p] \notin Choosing[q]
<1>1. CASE p = "header"
  BY <1>1, Names, PcsAre, PhasesAre DEF Parts, Counted
<1>2. CASE p = "data"
  BY <1>2, Names, PcsAre, PhasesAre DEF Parts, Counted
<1>3. CASE p = "status"
  BY <1>3, Names, PcsAre, PhasesAre DEF Parts, Counted
<1> QED
  BY <1>1, <1>2, <1>3 DEF Parts

\* ... and behind a store it has stored one part more.
LEMMA FillPcs ==
  ASSUME NEW p \in Parts, NEW pc,
         pc = IF p = "status" THEN "publish" ELSE Filling[Follows[p]]
  PROVE  /\ pc \in Pcs /\ pc \notin {"bump", "idle", "poll"} /\ pc \in Counted
         /\ Filling[p] \notin {"idle", "poll", "bump"} /\ Filling[p] \in Counted
         /\ \A q \in Parts :
              /\ pc \notin Choosing[q] /\ Filling[p] \notin Choosing[q]
              /\ q # p /\ pc \in Storing[q] => Filling[p] \in Storing[q]
<1>1. CASE p = "header"
  BY <1>1, Names, PcsAre, PhasesAre DEF Parts, Counted
<1>2. CASE p = "data"
  BY <1>2, Names, PcsAre, PhasesAre DEF Parts, Counted
<1>3. CASE p = "status"
  BY <1>3, Names, PcsAre, PhasesAre DEF Parts, Counted
<1> QED
  BY <1>1, <1>2, <1>3 DEF Parts

----------------------------------------------------------------------------
(* The records *)

LEMMA DevIs ==
  ASSUME Books
  PROVE  /\ dev.idx \in 0 .. Word - 1 /\ dev.desc \in [Descs -> Entries]
         /\ dev.avail \in Seq(Descs) /\ dev.used \in Nat /\ dev.isr \in BOOLEAN
         /\ dev.served \in Seq(Answers) /\ Published \in Nat
         /\ dev = [idx |-> dev.idx, desc |-> dev.desc, avail |-> dev.avail,
                   used |-> dev.used, isr |-> dev.isr, served |-> dev.served]
<1>1. /\ dev.idx \in 0 .. Word - 1 /\ dev.desc \in [Descs -> Entries]
      /\ dev.avail \in Seq(Descs) /\ dev.used \in Nat /\ dev.isr \in BOOLEAN
      /\ dev.served \in Seq(Answers)
      /\ dev = [idx |-> dev.idx, desc |-> dev.desc, avail |-> dev.avail,
                used |-> dev.used, isr |-> dev.isr, served |-> dev.served]
  BY DEF Books, DevRecords
<1> QED
  BY <1>1 DEF Published

LEMMA FrameIs ==
  ASSUME Mine, Frame
  PROVE  /\ call.dev = Name /\ call.pc \in Pcs /\ call.kind \in Kinds
         /\ call.at \in [Parts -> Descs] /\ call.loaded \in Nat
         /\ call = [dev |-> call.dev, pc |-> call.pc, kind |-> call.kind, at |-> call.at,
                    loaded |-> call.loaded]
BY DEF Frame, Frames, Mine

LEMMA FrameMade ==
  ASSUME NEW pc \in Pcs, NEW kind \in Kinds, NEW at \in [Parts -> Descs], NEW loaded \in Nat
  PROVE  [dev |-> Name, pc |-> pc, kind |-> kind, at |-> at, loaded |-> loaded] \in Frames
BY DEF Frames

LEMMA BlkInitial ==
  ASSUME BlkConstants, Init, call = Idle
  PROVE  DevInv
<1>1. ~Mine
  BY DEF Idle, Mine, BlkConstants
<1>2. Blank \in Entries
  BY DEF Blank, Entries, Descs, BlkConstants
<1>3. [d \in Descs |-> Blank] \in [Descs -> Entries]
  BY <1>2
<1>4. /\ dev \in DevRecords /\ dev.idx = 0 /\ dev.avail = <<>> /\ dev.used = 0
      /\ dev.isr = FALSE /\ dev.served = <<>>
  BY <1>3 DEF Init, DevRecords, BlkConstants
<1>5. Books
  BY <1>4 DEF Books, Published, BlkConstants
<1> QED
  BY <1>1, <1>4, <1>5 DEF DevInv, Index, Frame, Open, Active, Published

----------------------------------------------------------------------------
(* The steps that leave the device alone *)

LEMMA CallStep ==
  ASSUME DevInv, dev' = dev, Index', Frame'
  PROVE  DevInv'
BY DEF DevInv, Books, Open, Published, Stored

LEMMA StartStep ==
  ASSUME BlkConstants, DevInv, NEW kind \in Kinds, Start(kind)
  PROVE  DevInv'
<1>1. [p \in Parts |-> 0] \in [Parts -> Descs]
  BY DEF Descs, BlkConstants
<1>2. call' = [dev |-> Name, pc |-> "pick header", kind |-> kind,
               at |-> [p \in Parts |-> 0], loaded |-> 0]
  BY DEF Start, Idle, Picking
<1>3. "pick header" \in Pcs
  BY PcsAre
<1>4. call' \in Frames
  BY <1>1, <1>2, <1>3, FrameMade
<1>5. /\ call'.dev = Name /\ call'.pc = "pick header" /\ dev' = dev /\ call.pc = "idle"
      /\ Published < MaxRequests /\ InFlight
  <2>1. dev' = dev /\ call.pc = "idle" /\ Published < MaxRequests /\ InFlight
    BY DEF Start
  <2> QED
    BY <1>2, <2>1
<1>6. Frame'
  <2>1. \A p \in Parts : "pick header" \in Choosing[p] /\ "pick header" \notin Storing[p]
    BY PhasesAre
  <2>2. Published' = Published /\ InFlight'
    BY <1>5 DEF Published, InFlight
  <2> QED
    BY <1>4, <1>5, <2>1, <2>2 DEF Frame, Mine, Active
<1>7. Index'
  BY <1>5 DEF DevInv, Index, Mine, Counted, Published
<1> QED
  BY <1>5, <1>6, <1>7, CallStep

LEMMA PickStep ==
  ASSUME BlkConstants, DevInv, NEW p \in Parts, Pick(p)
  PROVE  DevInv'
<1>1. Mine /\ call.pc = Picking[p] /\ dev' = dev /\ Active
  <2>1. Mine /\ call.pc = Picking[p] /\ dev' = dev
    BY DEF Pick, At, Mine
  <2> QED
    BY <2>1, PickPcs DEF Active
<1>2. /\ call.kind \in Kinds /\ call.at \in [Parts -> Descs] /\ call.loaded \in Nat
      /\ call = [dev |-> Name, pc |-> call.pc, kind |-> call.kind, at |-> call.at,
                 loaded |-> call.loaded]
  BY <1>1, FrameIs DEF DevInv
<1>3. PICK pc \in Pcs : pc = IF p = "status" THEN "load" ELSE Picking[Follows[p]]
  BY PickPcs
<1>4. Published < MaxRequests /\ InFlight /\ Published \in Nat /\ dev.used \in Nat
      /\ dev.used <= Published
  BY <1>1, DevIs DEF DevInv, Frame, Books
<1>5. dev.idx = 3 * Published
  <2>1. ~(Acknowledged /\ dev.used > 0)
    BY <1>4 DEF BlkConstants
  <2>2. call.pc \notin Counted
    BY <1>1, PickPcs
  <2> QED
    BY <2>1, <2>2 DEF DevInv, Index
<1>6. QueueSize >= 4
  BY <1>4 DEF InFlight, BlkConstants
<1>7. Descriptor(p) = Place(Published + 1, p) /\ Descriptor(p) \in Descs
  <2>1. 3 * ((Published + 1) - 1) = dev.idx
    BY <1>4, <1>5
  <2>2. Published + 1 \in Nat \ {0}
    BY <1>4
  <2> QED
    BY <1>6, <2>1, <2>2, PlaceIs DEF Descriptor, Place
<1>8. PICK at \in [Parts -> Descs] : at = [call.at EXCEPT ![p] = Descriptor(p)]
  BY <1>2, <1>7
<1>9. call' = [dev |-> Name, pc |-> pc, kind |-> call.kind, at |-> at, loaded |-> call.loaded]
  <2>1. call' = [call EXCEPT !.at[p] = Descriptor(p), !.pc = pc]
    BY <1>3 DEF Pick
  <2>2. [call.at EXCEPT ![p] = Descriptor(p)] = at
    BY <1>8
  <2>3. PICK e : e = [call EXCEPT !.at = at]
    OBVIOUS
  <2>4. call' = [e EXCEPT !.pc = pc]
    BY <2>1, <2>2, <2>3
  <2>5. e = [dev |-> Name, pc |-> call.pc, kind |-> call.kind, at |-> at,
             loaded |-> call.loaded]
    BY <1>2, <2>3
  <2> QED
    BY <2>4, <2>5
<1>10. call' \in Frames
  BY <1>2, <1>9, FrameMade
<1>11. call'.dev = Name /\ call'.pc = pc /\ call'.at = at
  BY <1>9
<1>12. \A q \in Parts : call.pc \notin Choosing[q] => call.at[q] = Place(Published + 1, q)
  BY <1>1 DEF DevInv, Frame
<1>13. ASSUME NEW q \in Parts
       PROVE  /\ pc \notin Choosing[q] => at[q] = Place(Published + 1, q)
              /\ pc \notin Storing[q]
  <2>1. pc \notin Storing[q]
    BY <1>3, PickPcs
  <2>2. CASE q = p
    BY <1>2, <1>7, <1>8, <2>1, <2>2
  <2>3. CASE q # p
    <3>1. at[q] = call.at[q]
      BY <1>2, <1>8, <2>3
    <3>2. pc \notin Choosing[q] => call.pc \notin Choosing[q]
      BY <1>1, <1>3, <2>3, PickPcs
    <3> QED
      BY <1>12, <2>1, <3>1, <3>2
  <2> QED
    BY <2>2, <2>3
<1>14. Frame'
  <2>1. Published' = Published /\ InFlight'
    BY <1>1, <1>4 DEF Published, InFlight
  <2>2. pc # "bump"
    BY <1>3, PickPcs
  <2> QED
    BY <1>4, <1>10, <1>11, <1>13, <2>1, <2>2 DEF Frame, Mine, Active
<1>15. Index'
  <2>1. pc \notin Counted
    BY <1>3, PickPcs
  <2> QED
    BY <1>1, <1>5, <1>11, <2>1 DEF Index, Published
<1> QED
  BY <1>1, <1>14, <1>15, CallStep

LEMMA LoadStep ==
  ASSUME BlkConstants, DevInv, Load
  PROVE  DevInv'
<1>1. Mine /\ call.pc = "load" /\ dev' = dev /\ Active
  BY DEF Load, At, Mine, Active
<1>2. /\ call.kind \in Kinds /\ call.at \in [Parts -> Descs] /\ call.loaded \in Nat
      /\ call = [dev |-> Name, pc |-> call.pc, kind |-> call.kind, at |-> call.at,
                 loaded |-> call.loaded]
  BY <1>1, FrameIs DEF DevInv
<1>3. Published < MaxRequests /\ InFlight /\ Published \in Nat /\ dev.used \in Nat
      /\ dev.used <= Published /\ dev.idx \in Nat
  BY <1>1, DevIs DEF DevInv, Frame, Books
<1>4. dev.idx = 3 * Published
  BY <1>1, <1>3 DEF DevInv, Index, Counted, BlkConstants
<1>5. call' = [dev |-> Name, pc |-> "bump", kind |-> call.kind, at |-> call.at,
               loaded |-> dev.idx]
  <2>1. call' = [call EXCEPT !.loaded = dev.idx, !.pc = "bump"]
    BY DEF Load
  <2>2. PICK e : e = [call EXCEPT !.loaded = dev.idx]
    OBVIOUS
  <2>3. call' = [e EXCEPT !.pc = "bump"]
    BY <2>1, <2>2
  <2>4. e = [dev |-> Name, pc |-> call.pc, kind |-> call.kind, at |-> call.at,
             loaded |-> dev.idx]
    BY <1>2, <2>2
  <2> QED
    BY <2>3, <2>4
<1>6. "bump" \in Pcs
  BY DEF Pcs
<1>7. call' \in Frames
  BY <1>2, <1>3, <1>5, <1>6, FrameMade
<1>8. call'.dev = Name /\ call'.pc = "bump" /\ call'.at = call.at /\ call'.loaded = dev.idx
  BY <1>5
<1>9. Published' = Published /\ InFlight'
  BY <1>1, <1>3 DEF Published, InFlight
<1>10. \A q \in Parts : call.at[q] = Place(Published + 1, q) /\ "bump" \notin Storing[q]
  <2>1. \A q \in Parts : "load" \notin Choosing[q] /\ "bump" \notin Storing[q]
    BY PhasesAre
  <2> QED
    BY <1>1, <2>1 DEF DevInv, Frame
<1>11. Frame'
  BY <1>3, <1>4, <1>7, <1>8, <1>9, <1>10 DEF Frame, Mine, Active
<1>12. Index'
  BY <1>1, <1>4, <1>8 DEF Index, Published, Counted
<1> QED
  BY <1>1, <1>11, <1>12, CallStep

LEMMA PollStep ==
  ASSUME BlkConstants, DevInv, Poll
  PROVE  DevInv'
<1>1. Mine /\ call.pc = "poll" /\ dev' = dev
  BY DEF Poll, At, Mine
<1>2. /\ call.kind \in Kinds /\ call.at \in [Parts -> Descs] /\ call.loaded \in Nat
      /\ call = [dev |-> Name, pc |-> call.pc, kind |-> call.kind, at |-> call.at,
                 loaded |-> call.loaded]
  BY <1>1, FrameIs DEF DevInv
<1>3. call' = [dev |-> Name, pc |-> "idle", kind |-> call.kind, at |-> call.at,
               loaded |-> call.loaded]
  BY <1>2 DEF Poll
<1>4. "idle" \in Pcs
  BY DEF Pcs
<1>5. call' \in Frames /\ call'.dev = Name /\ call'.pc = "idle"
  BY <1>2, <1>3, <1>4, FrameMade
<1>6. Frame'
  BY <1>5 DEF Frame, Mine, Active
<1>7. Index'
  BY <1>1, <1>5 DEF DevInv, Index, Published, Counted
<1> QED
  BY <1>1, <1>6, <1>7, CallStep

\* A step of another device leaves this one as it is, and only moves a call of its own.
LEMMA OthersStep ==
  ASSUME DevInv, dev' = dev,
         call' = call \/ (call'.dev # Name /\ (call.dev = Name => call.pc = "idle"))
  PROVE  DevInv'
<1>1. Frame'
  <2>1. CASE call' = call
    BY <2>1 DEF DevInv, Frame, Mine, Active, Published, InFlight, Stored
  <2>2. CASE call'.dev # Name
    BY <2>2 DEF Frame, Mine, Active
  <2> QED
    BY <2>1, <2>2
<1>2. Index'
  <2>1. CASE call' = call
    BY <2>1 DEF DevInv, Index, Mine, Published
  <2>2. CASE call'.dev # Name /\ (call.dev = Name => call.pc = "idle")
    BY <2>2 DEF DevInv, Index, Mine, Published, Counted
  <2> QED
    BY <2>1, <2>2
<1> QED
  BY <1>1, <1>2, CallStep

----------------------------------------------------------------------------
(* The steps of a call that change the device *)

LEMMA DevMade ==
  ASSUME NEW idx \in 0 .. Word - 1, NEW desc \in [Descs -> Entries], NEW avail \in Seq(Descs),
         NEW used \in Nat, NEW isr \in BOOLEAN, NEW served \in Seq(Answers)
  PROVE  [idx |-> idx, desc |-> desc, avail |-> avail, used |-> used, isr |-> isr,
          served |-> served] \in DevRecords
BY DEF DevRecords

\* What every step of an active call knows.
LEMMA ActiveIs ==
  ASSUME BlkConstants, DevInv, Active
  PROVE  /\ Published \in Nat /\ dev.used \in Nat /\ dev.used <= Published
         /\ Published < MaxRequests /\ 3 * (Published - dev.used + 1) <= QueueSize - 1
         /\ QueueSize >= 4 /\ QueueSize \in Nat /\ Published + 1 \in Nat \ {0}
         /\ ~(Acknowledged /\ dev.used > 0)
         /\ dev.idx = 3 * (IF call.pc \in Counted THEN Published + 1 ELSE Published)
         /\ \A p \in Parts : Place(Published + 1, p) \in Descs
<1>1. /\ Published \in Nat /\ dev.used \in Nat /\ dev.used <= Published
      /\ Published < MaxRequests /\ 3 * (Published - dev.used + 1) <= QueueSize - 1
  BY DevIs DEF DevInv, Frame, Books, InFlight
<1>2. QueueSize >= 4 /\ QueueSize \in Nat /\ Published + 1 \in Nat \ {0}
  BY <1>1 DEF BlkConstants
<1>3. ~(Acknowledged /\ dev.used > 0)
  BY <1>1 DEF BlkConstants
<1>4. dev.idx = 3 * (IF call.pc \in Counted THEN Published + 1 ELSE Published)
  BY <1>3 DEF DevInv, Index, Active
<1>5. \A p \in Parts : Place(Published + 1, p) \in Descs
  <2>1. PICK n \in Nat \ {0} : n = Published + 1
    BY <1>2
  <2> QED
    BY <1>2, <2>1, PlaceIs
<1> QED
  BY <1>1, <1>2, <1>3, <1>4, <1>5

LEMMA BumpStep ==
  ASSUME BlkConstants, DevInv, Bump
  PROVE  DevInv'
<1>1. Mine /\ call.pc = "bump" /\ Active /\ call.loaded = 3 * Published
  <2>1. Mine /\ call.pc = "bump"
    BY DEF Bump, At, Mine
  <2> QED
    BY <2>1 DEF Active, DevInv, Frame
<1>2. /\ call.kind \in Kinds /\ call.at \in [Parts -> Descs] /\ call.loaded \in Nat
      /\ call = [dev |-> Name, pc |-> call.pc, kind |-> call.kind, at |-> call.at,
                 loaded |-> call.loaded]
  BY <1>1, FrameIs DEF DevInv
<1>3. /\ Published \in Nat /\ dev.used \in Nat /\ dev.used <= Published
      /\ Published < MaxRequests /\ 3 * (Published - dev.used + 1) <= QueueSize - 1
  BY <1>1, ActiveIs
<1>4. Books
  BY DEF DevInv
<1>5. PICK idx \in 0 .. Word - 1 : idx = (call.loaded + 3) % Word /\ idx = 3 * (Published + 1)
  <2>1. PICK a \in Nat : a = 3 * (Published + 1)
    BY <1>3
  <2>2. a \in 0 .. Word - 1 /\ call.loaded + 3 = a /\ Word \in Nat \ {0}
    BY <1>1, <1>3, <2>1 DEF BlkConstants
  <2>3. a % Word = a
    BY <2>2
  <2> QED
    BY <2>1, <2>2, <2>3
<1>6. dev' = [idx |-> idx, desc |-> dev.desc, avail |-> dev.avail, used |-> dev.used,
              isr |-> dev.isr, served |-> dev.served]
  <2>1. dev' = [dev EXCEPT !.idx = idx]
    BY <1>5 DEF Bump
  <2> QED
    BY <1>4, <2>1, DevIs
<1>7. dev' \in DevRecords
  BY <1>4, <1>6, DevIs, DevMade
<1>8. /\ dev'.idx = idx /\ dev'.desc = dev.desc /\ dev'.avail = dev.avail
      /\ dev'.used = dev.used /\ dev'.isr = dev.isr /\ dev'.served = dev.served
  BY <1>6
<1>9. Published' = Published
  BY <1>8 DEF Published
<1>10. call' = [dev |-> Name, pc |-> "fill header", kind |-> call.kind, at |-> call.at,
                loaded |-> 0]
  <2>1. call' = [call EXCEPT !.loaded = 0, !.pc = "fill header"]
    BY Names DEF Bump
  <2>2. PICK e : e = [call EXCEPT !.loaded = 0]
    OBVIOUS
  <2>3. call' = [e EXCEPT !.pc = "fill header"]
    BY <2>1, <2>2
  <2>4. e = [dev |-> Name, pc |-> call.pc, kind |-> call.kind, at |-> call.at, loaded |-> 0]
    BY <1>2, <2>2
  <2> QED
    BY <2>3, <2>4
<1>11. call' \in Frames /\ call'.dev = Name /\ call'.pc = "fill header" /\ call'.at = call.at
  <2>1. "fill header" \in Pcs
    BY PcsAre
  <2> QED
    BY <1>2, <1>10, <2>1, FrameMade
<1>12. Books'
  BY <1>4, <1>7, <1>8, <1>9 DEF Books
<1>13. Index'
  BY <1>5, <1>8, <1>9, <1>11 DEF Index, Mine, Counted
<1>14. Frame'
  <2>1. \A p \in Parts : call.at[p] = Place(Published + 1, p) /\ "fill header" \notin Storing[p]
    BY <1>1, PhasesAre DEF DevInv, Frame
  <2>2. InFlight'
    BY <1>3, <1>8, <1>9 DEF InFlight
  <2> QED
    BY <1>3, <1>8, <1>9, <1>11, <2>1, <2>2 DEF Frame, Mine, Active
<1>15. Open'
  BY <1>8, <1>9 DEF DevInv, Open, Stored
<1> QED
  BY <1>12, <1>13, <1>14, <1>15 DEF DevInv

LEMMA FillStep ==
  ASSUME BlkConstants, DevInv, NEW p \in Parts, Fill(p)
  PROVE  DevInv'
<1>1. Mine /\ call.pc = Filling[p] /\ Active
  <2>1. Mine /\ call.pc = Filling[p]
    BY DEF Fill, At, Mine
  <2> QED
    BY <2>1, FillPcs DEF Active
<1>2. /\ call.kind \in Kinds /\ call.at \in [Parts -> Descs] /\ call.loaded \in Nat
      /\ call = [dev |-> Name, pc |-> call.pc, kind |-> call.kind, at |-> call.at,
                 loaded |-> call.loaded]
  BY <1>1, FrameIs DEF DevInv
<1>3. /\ Published \in Nat /\ dev.used \in Nat /\ dev.used <= Published
      /\ Published < MaxRequests /\ 3 * (Published - dev.used + 1) <= QueueSize - 1
      /\ QueueSize >= 4 /\ \A q \in Parts : Place(Published + 1, q) \in Descs
  BY <1>1, ActiveIs
<1>4. Books
  BY DEF DevInv
<1>5. PICK n \in Nat \ {0} : n = Published + 1
  BY <1>3
<1>6. \A q \in Parts : /\ call.at[q] = Place(n, q)
                       /\ call.pc \in Storing[q] => Stored(n, q)
  BY <1>1, <1>5, FillPcs DEF DevInv, Frame
<1>7. PICK e \in Entries :
        e = [req |-> n, part |-> p, next |-> IF p = "status" THEN 0 ELSE Place(n, Follows[p])]
  <2>1. PICK next \in Descs : next = IF p = "status" THEN 0 ELSE Place(n, Follows[p])
    <3>1. CASE p = "status"
      BY <3>1 DEF Descs, BlkConstants
    <3>2. CASE p # "status"
      BY <1>3, <1>5, <3>2, Names DEF Parts
    <3> QED
      BY <3>1, <3>2
  <2> QED
    BY <2>1 DEF Entries
<1>8. PICK desc \in [Descs -> Entries] : desc = [dev.desc EXCEPT ![Place(n, p)] = e]
  BY <1>3, <1>4, <1>5, DevIs
<1>9. dev' = [idx |-> dev.idx, desc |-> desc, avail |-> dev.avail, used |-> dev.used,
              isr |-> dev.isr, served |-> dev.served]
  <2>1. dev' = [dev EXCEPT !.desc[call.at[p]] =
                  [req |-> n, part |-> p,
                   next |-> IF p = "status" THEN 0 ELSE call.at[Follows[p]]]]
    BY <1>5 DEF Fill
  <2>2. p # "status" => call.at[Follows[p]] = Place(n, Follows[p])
    BY <1>6, Names DEF Parts
  <2>3. [req |-> n, part |-> p, next |-> IF p = "status" THEN 0 ELSE call.at[Follows[p]]] = e
    BY <1>7, <2>2
  <2>4. dev' = [dev EXCEPT !.desc[Place(n, p)] = e]
    BY <1>6, <2>1, <2>3
  <2>5. dev' = [dev EXCEPT !.desc = desc]
    BY <1>8, <2>4
  <2> QED
    BY <1>4, <2>5, DevIs
<1>10. dev' \in DevRecords
  BY <1>4, <1>8, <1>9, DevIs, DevMade
<1>11. /\ dev'.idx = dev.idx /\ dev'.desc = desc /\ dev'.avail = dev.avail
       /\ dev'.used = dev.used /\ dev'.isr = dev.isr /\ dev'.served = dev.served
  BY <1>9
<1>12. Published' = Published
  BY <1>11 DEF Published
<1>13. PICK pc \in Pcs : pc = IF p = "status" THEN "publish" ELSE Filling[Follows[p]]
  BY FillPcs
<1>14. call' = [dev |-> Name, pc |-> pc, kind |-> call.kind, at |-> call.at,
                loaded |-> call.loaded]
  <2>1. call' = [call EXCEPT !.pc = pc]
    BY <1>13 DEF Fill
  <2> QED
    BY <1>2, <2>1
<1>15. call' \in Frames /\ call'.dev = Name /\ call'.pc = pc /\ call'.at = call.at
  BY <1>2, <1>14, FrameMade
<1>16. Books'
  BY <1>4, <1>10, <1>11, <1>12 DEF Books
<1>17. Index'
  <2>1. pc \in Counted /\ call.pc \in Counted
    BY <1>1, <1>13, FillPcs
  <2> QED
    BY <1>1, <1>11, <1>12, <1>15, <2>1 DEF DevInv, Index, Mine
<1>18. \A m \in Nat \ {0}, q \in Parts :
         /\ dev.used + 1 <= m /\ m <= n /\ (m # n \/ q # p)
         => (Stored(m, q) => (Stored(m, q))')
  <2>1. SUFFICES ASSUME NEW m \in Nat \ {0}, NEW q \in Parts, dev.used + 1 <= m, m <= n,
                        m # n \/ q # p, Stored(m, q)
                 PROVE  (Stored(m, q))'
    OBVIOUS
  <2>2. 3 * (n - m + 1) <= QueueSize - 1
    BY <1>3, <1>5, <2>1 DEF BlkConstants
  <2>3. Place(m, q) # Place(n, p)
    BY <2>1, <2>2, PlacesApart
  <2>4. Place(m, q) \in Descs
    BY <1>3, <2>1, PlaceIs
  <2>5. desc[Place(m, q)] = dev.desc[Place(m, q)]
    BY <1>4, <1>8, <2>3, <2>4, DevIs
  <2> QED
    BY <1>11, <2>1, <2>5 DEF Stored
<1>19. (Stored(n, p))'
  <2>1. desc[Place(n, p)] = e
    BY <1>3, <1>4, <1>5, <1>8, DevIs
  <2> QED
    BY <1>7, <1>11, <2>1 DEF Stored
<1>20. Frame'
  <2>1. InFlight'
    BY <1>3, <1>11, <1>12 DEF InFlight
  <2>2. \A q \in Parts : pc \in Storing[q] => (Stored(n, q))'
    <3>1. SUFFICES ASSUME NEW q \in Parts, pc \in Storing[q]
                   PROVE  (Stored(n, q))'
      OBVIOUS
    <3>2. CASE q = p
      BY <1>19, <3>2
    <3>3. CASE q # p
      <4>1. Stored(n, q)
        BY <1>1, <1>6, <1>13, <3>1, <3>3, FillPcs
      <4> QED
        BY <1>3, <1>5, <1>18, <3>3, <4>1
    <3> QED
      BY <3>2, <3>3
  <2>3. pc # "bump"
    BY <1>13, FillPcs
  <2> QED
    BY <1>3, <1>5, <1>6, <1>12, <1>15, <2>1, <2>2, <2>3 DEF Frame, Mine, Active
<1>21. Open'
  <2>1. SUFFICES ASSUME NEW m \in dev.used + 1 .. Published
                 PROVE  /\ dev.avail[m] = Place(m, "header")
                        /\ \A q \in Parts : (Stored(m, q))'
    BY <1>11, <1>12 DEF Open
  <2>2. m \in Nat \ {0} /\ dev.used + 1 <= m /\ m <= n /\ m # n
    BY <1>3, <1>5
  <2>3. dev.avail[m] = Place(m, "header") /\ \A q \in Parts : Stored(m, q)
    BY <2>1 DEF DevInv, Open
  <2> QED
    BY <1>18, <2>2, <2>3
<1> QED
  BY <1>16, <1>17, <1>20, <1>21 DEF DevInv

LEMMA PublishStep ==
  ASSUME BlkConstants, DevInv, Publish
  PROVE  DevInv'
<1>1. Mine /\ call.pc = "publish" /\ Active
  BY DEF Publish, At, Mine, Active
<1>2. /\ call.kind \in Kinds /\ call.at \in [Parts -> Descs] /\ call.loaded \in Nat
      /\ call = [dev |-> Name, pc |-> call.pc, kind |-> call.kind, at |-> call.at,
                 loaded |-> call.loaded]
  BY <1>1, FrameIs DEF DevInv
<1>3. /\ Published \in Nat /\ dev.used \in Nat /\ dev.used <= Published
      /\ Published < MaxRequests /\ 3 * (Published - dev.used + 1) <= QueueSize - 1
      /\ QueueSize \in Nat
  BY <1>1, ActiveIs
<1>4. Books
  BY DEF DevInv
<1>5. PICK n \in Nat \ {0} : n = Published + 1
  BY <1>3
<1>6. "header" \in Parts
  BY DEF Parts
<1>7. \A q \in Parts : call.at[q] = Place(n, q) /\ Stored(n, q)
  BY <1>1, <1>5, PhasesAre DEF DevInv, Frame
<1>8. PICK avail \in Seq(Descs) : avail = Append(dev.avail, call.at["header"])
  <2>1. PICK q \in Seq(Descs), d \in Descs : q = dev.avail /\ d = call.at["header"]
    BY <1>2, <1>4, <1>6, DevIs
  <2>2. Append(q, d) \in Seq(Descs)
    OBVIOUS
  <2> QED
    BY <2>1, <2>2
<1>9. /\ Len(avail) = n /\ avail[n] = Place(n, "header")
      /\ \A m \in 1 .. Published : avail[m] = dev.avail[m]
  <2>1. dev.avail \in Seq(Descs) /\ Len(dev.avail) = Published /\ call.at["header"] \in Descs
    BY <1>2, <1>4, <1>6, DevIs DEF Published
  <2> QED
    BY <1>5, <1>6, <1>7, <1>8, <2>1
<1>10. dev' = [idx |-> dev.idx, desc |-> dev.desc, avail |-> avail, used |-> dev.used,
               isr |-> dev.isr, served |-> dev.served]
  <2>1. dev' = [dev EXCEPT !.avail = avail]
    BY <1>8 DEF Publish
  <2> QED
    BY <1>4, <2>1, DevIs
<1>11. dev' \in DevRecords
  BY <1>4, <1>10, DevIs, DevMade
<1>12. /\ dev'.idx = dev.idx /\ dev'.desc = dev.desc /\ dev'.avail = avail
       /\ dev'.used = dev.used /\ dev'.isr = dev.isr /\ dev'.served = dev.served
  BY <1>10
<1>13. Published' = n
  BY <1>9, <1>12 DEF Published
<1>14. PICK pc \in {"poll", "idle"} : pc = IF call.kind = "read" THEN "poll" ELSE "idle"
  OBVIOUS
<1>15. call' = [dev |-> Name, pc |-> pc, kind |-> call.kind, at |-> call.at,
                loaded |-> call.loaded]
  <2>1. call' = [call EXCEPT !.pc = pc]
    BY <1>14 DEF Publish
  <2> QED
    BY <1>2, <2>1
<1>16. call' \in Frames /\ call'.dev = Name /\ call'.pc = pc
  <2>1. pc \in Pcs
    BY <1>14, PcsAre
  <2> QED
    BY <1>2, <1>15, <2>1, FrameMade
<1>17. Books'
  <2>1. dev.isr => dev.used > 0
    BY <1>4 DEF Books
  <2>2. Len(dev.served) = dev.used
    BY <1>4 DEF Books
  <2>3. dev.used <= n /\ n <= MaxRequests /\ 3 * (n - dev.used) <= QueueSize - 1
    BY <1>3, <1>5 DEF BlkConstants
  <2> QED
    BY <1>11, <1>12, <1>13, <2>1, <2>2, <2>3 DEF Books
<1>18. Index'
  <2>1. dev.idx = 3 * n
    BY <1>1, <1>5, ActiveIs DEF Counted
  <2> QED
    BY <1>12, <1>13, <1>14, <1>16, <2>1 DEF Index, Counted
<1>19. Frame'
  BY <1>14, <1>16 DEF Frame, Mine, Active
<1>20. Open'
  <2>1. SUFFICES ASSUME NEW m \in dev.used + 1 .. n
                 PROVE  /\ avail[m] = Place(m, "header")
                        /\ \A q \in Parts : Stored(m, q)
    BY <1>12, <1>13 DEF Open, Stored
  <2>2. CASE m = n
    BY <1>7, <1>9, <2>2
  <2>3. CASE m # n
    <3>1. m \in dev.used + 1 .. Published /\ m \in 1 .. Published
      BY <1>3, <1>5, <2>3
    <3> QED
      BY <1>9, <3>1 DEF DevInv, Open
  <2> QED
    BY <2>2, <2>3
<1> QED
  BY <1>17, <1>18, <1>19, <1>20 DEF DevInv

----------------------------------------------------------------------------
(* The device and its interrupt *)

LEMMA ServeStep ==
  ASSUME BlkConstants, DevInv, Serve
  PROVE  DevInv'
<1>1. /\ Books /\ dev.used < Published /\ call' = call
      /\ Published \in Nat /\ dev.used \in Nat
  BY DevIs DEF DevInv, Serve
<1>2. PICK n \in 1 .. Published : n = dev.used + 1
  BY <1>1
<1>3. PICK h \in Entries, d \in Entries, s \in Entries : Chain(n) = <<h, d, s>>
  <2>1. dev.avail[n] \in Descs
    BY <1>1, DevIs DEF Published
  <2>2. PICK h \in Entries : h = dev.desc[dev.avail[n]]
    BY <1>1, <2>1, DevIs
  <2>3. PICK d \in Entries : d = dev.desc[h.next]
    <3>1. h.next \in Descs
      BY DEF Entries
    <3> QED
      BY <1>1, <3>1, DevIs
  <2>4. PICK s \in Entries : s = dev.desc[d.next]
    <3>1. d.next \in Descs
      BY DEF Entries
    <3> QED
      BY <1>1, <3>1, DevIs
  <2> QED
    BY <2>2, <2>3, <2>4 DEF Chain
<1>4. PICK a \in Answers :
        a = [i \in 1 .. 3 |-> <<Chain(n)[i].req, Chain(n)[i].part>>]
  <2>1. \A e \in Entries : <<e.req, e.part>> \in Nat \X (Parts \cup {"none"})
    BY DEF Entries
  <2>2. \A i \in 1 .. 3 : <<h, d, s>>[i] \in Entries
    OBVIOUS
  <2>3. [i \in 1 .. 3 |-> <<(<<h, d, s>>[i]).req, (<<h, d, s>>[i]).part>>] \in Answers
    BY <2>1, <2>2 DEF Answers
  <2> QED
    BY <1>3, <2>3
<1>5. PICK served \in Seq(Answers) : served = Append(dev.served, a)
  <2>1. PICK q \in Seq(Answers) : q = dev.served
    BY <1>1, DevIs
  <2>2. Append(q, a) \in Seq(Answers)
    OBVIOUS
  <2> QED
    BY <2>1, <2>2
<1>6. Len(served) = dev.used + 1
  BY <1>1, <1>5, DevIs DEF Books
<1>7. dev' = [idx |-> dev.idx, desc |-> dev.desc, avail |-> dev.avail, used |-> dev.used + 1,
              isr |-> TRUE, served |-> served]
  <2>1. dev' = [dev EXCEPT !.served = served, !.used = dev.used + 1, !.isr = TRUE]
    BY <1>2, <1>4, <1>5 DEF Serve
  <2>2. PICK e : e = [dev EXCEPT !.served = served]
    OBVIOUS
  <2>3. e = [idx |-> dev.idx, desc |-> dev.desc, avail |-> dev.avail, used |-> dev.used,
             isr |-> dev.isr, served |-> served]
    BY <1>1, <2>2, DevIs
  <2>4. PICK f : f = [e EXCEPT !.used = dev.used + 1]
    OBVIOUS
  <2>5. f = [idx |-> dev.idx, desc |-> dev.desc, avail |-> dev.avail, used |-> dev.used + 1,
             isr |-> dev.isr, served |-> served]
    BY <2>3, <2>4
  <2>6. dev' = [f EXCEPT !.isr = TRUE]
    BY <2>1, <2>2, <2>4
  <2> QED
    BY <2>5, <2>6
<1>8. dev' \in DevRecords
  <2>1. dev.used + 1 \in Nat /\ TRUE \in BOOLEAN
    BY <1>1
  <2> QED
    BY <1>1, <1>7, <2>1, DevIs, DevMade
<1>9. /\ dev'.idx = dev.idx /\ dev'.desc = dev.desc /\ dev'.avail = dev.avail
      /\ dev'.used = dev.used + 1 /\ dev'.served = served
  BY <1>7
<1>10. Published' = Published
  BY <1>9 DEF Published
<1>11. Books'
  <2>1. /\ Published <= MaxRequests /\ 3 * (Published - dev.used) <= QueueSize - 1
    BY <1>1 DEF Books
  <2>2. 3 * (Published - (dev.used + 1)) <= QueueSize - 1
    BY <1>1, <2>1 DEF BlkConstants
  <2> QED
    BY <1>1, <1>6, <1>8, <1>9, <1>10, <2>1, <2>2 DEF Books
<1>12. Index'
  BY <1>1, <1>9, <1>10 DEF DevInv, Index, Mine
<1>13. Frame'
  <2>1. InFlight => InFlight'
    BY <1>1, <1>9, <1>10 DEF InFlight, BlkConstants
  <2>2. \A n1, q : Stored(n1, q) => (Stored(n1, q))'
    BY <1>9 DEF Stored
  <2>3. Mine' = Mine /\ Active' = Active
    BY <1>1 DEF Mine, Active
  <2> QED
    BY <1>1, <1>10, <2>1, <2>2, <2>3 DEF DevInv, Frame
<1>14. Open'
  <2>1. SUFFICES ASSUME NEW m \in dev.used + 2 .. Published
                 PROVE  /\ dev.avail[m] = Place(m, "header")
                        /\ \A q \in Parts : Stored(m, q)
    BY <1>1, <1>9, <1>10 DEF Open, Stored
  <2>2. m \in dev.used + 1 .. Published
    BY <1>1
  <2> QED
    BY <2>2 DEF DevInv, Open
<1> QED
  BY <1>11, <1>12, <1>13, <1>14 DEF DevInv

LEMMA IsrStep ==
  ASSUME BlkConstants, DevInv, Isr
  PROVE  DevInv'
<1>1. /\ Books /\ Acknowledged /\ dev.isr /\ call' = call
      /\ Published \in Nat /\ dev.used \in Nat /\ dev.used > 0 /\ dev.used <= Published
  BY DevIs DEF DevInv, Isr, Books
<1>2. PICK idx \in 0 .. Word - 1 : idx = dev.used % Word
  <2>1. Word \in Nat \ {0}
    BY DEF BlkConstants
  <2> QED
    BY <1>1, <2>1
<1>3. dev' = [idx |-> idx, desc |-> dev.desc, avail |-> dev.avail, used |-> dev.used,
              isr |-> FALSE, served |-> dev.served]
  <2>1. dev' = [dev EXCEPT !.isr = FALSE, !.idx = idx]
    BY <1>2 DEF Isr
  <2>2. PICK e : e = [dev EXCEPT !.isr = FALSE]
    OBVIOUS
  <2>3. e = [idx |-> dev.idx, desc |-> dev.desc, avail |-> dev.avail, used |-> dev.used,
             isr |-> FALSE, served |-> dev.served]
    BY <1>1, <2>2, DevIs
  <2>4. dev' = [e EXCEPT !.idx = idx]
    BY <2>1, <2>2
  <2> QED
    BY <2>3, <2>4
<1>4. dev' \in DevRecords
  BY <1>1, <1>3, DevIs, DevMade
<1>5. /\ dev'.desc = dev.desc /\ dev'.avail = dev.avail /\ dev'.used = dev.used
      /\ dev'.isr = FALSE /\ dev'.served = dev.served
  BY <1>3
<1>6. Published' = Published
  BY <1>5 DEF Published
<1>7. Books'
  BY <1>1, <1>4, <1>5, <1>6 DEF Books
<1>8. Index'
  BY <1>1, <1>5 DEF Index
<1>9. Frame'
  <2>1. (InFlight' <=> InFlight) /\ Mine' = Mine /\ Active' = Active
    BY <1>1, <1>5, <1>6 DEF InFlight, Mine, Active
  <2>2. \A n1, q : Stored(n1, q) => (Stored(n1, q))'
    BY <1>5 DEF Stored
  <2> QED
    BY <1>1, <1>6, <2>1, <2>2 DEF DevInv, Frame
<1>10. Open'
  BY <1>5, <1>6 DEF DevInv, Open, Stored
<1> QED
  BY <1>7, <1>8, <1>9, <1>10 DEF DevInv

----------------------------------------------------------------------------
(* The device as a whole *)

\* The invariant is inductive under the steps of the device and of the calls to it ...
LEMMA BlkStep ==
  ASSUME BlkConstants, DevInv, Next
  PROVE  DevInv'
BY StartStep, PickStep, LoadStep, BumpStep, FillStep, PublishStep, PollStep, ServeStep,
   IsrStep DEF Next, Rw

\* ... which only move a call of this device, or start one.
LEMMA BlkCall ==
  ASSUME BlkConstants, DevInv, Next
  PROVE  call' = call \/ (call'.dev = Name /\ (call.dev # Name => call.pc = "idle"))
<1>1. CASE Serve \/ Isr
  BY <1>1 DEF Serve, Isr
<1>2. ASSUME NEW kind \in Kinds, Start(kind)
      PROVE  call'.dev = Name /\ call.pc = "idle"
  BY <1>2 DEF Start, Idle
<1>3. CASE Mine /\ call'.dev = call.dev
  BY <1>3 DEF Mine
<1>4. ASSUME Mine
      PROVE  \A at, pc, l : /\ [call EXCEPT !.pc = pc].dev = call.dev
                            /\ [call EXCEPT !.at = at, !.pc = pc].dev = call.dev
                            /\ [call EXCEPT !.loaded = l, !.pc = pc].dev = call.dev
  BY <1>4, FrameIs DEF DevInv
<1>5. CASE \E p \in Parts : Pick(p) \/ Fill(p)
  <2>1. PICK p \in Parts : Pick(p) \/ Fill(p)
    BY <1>5
  <2>2. Mine
    BY <2>1 DEF Pick, Fill, At, Mine
  <2>3. PICK at, pc : call' = [call EXCEPT !.pc = pc] \/ call' = [call EXCEPT !.at = at, !.pc = pc]
    BY <2>1 DEF Pick, Fill
  <2>4. CASE call' = [call EXCEPT !.pc = pc]
    BY <1>3, <1>4, <2>2, <2>4
  <2>5. CASE call' = [call EXCEPT !.at = at, !.pc = pc]
    BY <1>3, <1>4, <2>2, <2>5
  <2> QED
    BY <2>3, <2>4, <2>5
<1>6. CASE Load \/ Bump
  <2>1. Mine
    BY <1>6 DEF Load, Bump, At, Mine
  <2>2. PICK l, pc : call' = [call EXCEPT !.loaded = l, !.pc = pc]
    BY <1>6 DEF Load, Bump
  <2> QED
    BY <1>3, <1>4, <2>1, <2>2
<1>7. CASE Publish \/ Poll
  <2>1. Mine
    BY <1>7 DEF Publish, Poll, At, Mine
  <2>2. PICK pc : call' = [call EXCEPT !.pc = pc]
    BY <1>7 DEF Publish, Poll
  <2> QED
    BY <1>3, <1>4, <2>1, <2>2
<1> QED
  BY <1>1, <1>2, <1>5, <1>6, <1>7 DEF Next, Rw

LEMMA BlkTypes ==
  ASSUME BlkConstants, DevInv
  PROVE  TypeOK
<1>1. /\ Books /\ dev.desc \in [Descs -> Entries] /\ Published \in Nat /\ dev.used \in Nat
      /\ dev.idx \in 0 .. Word - 1 /\ dev.avail \in Seq(Descs)
  BY DevIs DEF DevInv
<1>2. \A d \in Descs : dev.desc[d].next \in Descs
  BY <1>1 DEF Entries
<1>3. Len(dev.served) = dev.used /\ dev.used \in 0 .. Published
  BY <1>1 DEF Books
<1> QED
  BY <1>1, <1>2, <1>3 DEF TypeOK

LEMMA BlkChains ==
  ASSUME BlkConstants, DevInv
  PROVE  ChainsWhole
<1>1. SUFFICES ASSUME NEW n \in dev.used + 1 .. Published
               PROVE  /\ \A i \in 1 .. 3 : Chain(n)[i].req = n
                      /\ Chain(n)[1].part = "header" /\ Chain(n)[2].part = "data"
                      /\ Chain(n)[3].part = "status"
  BY DEF ChainsWhole
<1>2. /\ dev.avail[n] = Place(n, "header")
      /\ Stored(n, "header") /\ Stored(n, "data") /\ Stored(n, "status")
  BY DEF DevInv, Open, Parts
<1>3. PICK h, d, s : /\ h = [req |-> n, part |-> "header", next |-> Place(n, "data")]
                     /\ d = [req |-> n, part |-> "data", next |-> Place(n, "status")]
                     /\ s = [req |-> n, part |-> "status", next |-> 0]
  OBVIOUS
<1>4. /\ dev.desc[Place(n, "header")] = h /\ dev.desc[Place(n, "data")] = d
      /\ dev.desc[Place(n, "status")] = s
  BY <1>2, <1>3, Names DEF Stored
<1>5. h.next = Place(n, "data") /\ d.next = Place(n, "status")
  BY <1>3
<1>6. Chain(n) = <<h, d, s>>
  BY <1>2, <1>4, <1>5 DEF Chain
<1>7. /\ h.req = n /\ d.req = n /\ s.req = n
      /\ h.part = "header" /\ d.part = "data" /\ s.part = "status"
  BY <1>3
<1> QED
  BY <1>6, <1>7
=============================================================================
