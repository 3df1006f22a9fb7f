--------------------------- MODULE DevicesProofs ---------------------------
(***************************************************************************)
(* Proofs about the devices at work, for queues and rings of every size    *)
(* and any number of events and requests, and about the enumeration of the *)
(* bus, for every machine with the devices that pci_init looks for, and    *)
(* about what is read from the disks, for every tree of directories.       *)
(***************************************************************************)
EXTENDS Devices, FiniteSetTheorems, WellFoundedInduction, TLAPS

----------------------------------------------------------------------------
(* The tablet, the GPU and their interrupt *)

TabletRecords == [used : Nat, avail : Nat, devidx : Nat, buffer : [Slots -> Nat]]

GpuRecords ==
  [chains : Seq(Slots), ring : [Slots -> Slots], idx : Nat, drvidx : Nat, devidx : Nat,
   requests : Nat]

RingRecords ==
  [at : 0 .. Capacity - 1, num : 0 .. Capacity, buffer : [0 .. Capacity - 1 -> Nat]]

WaitRecords == [head : Slots, desc : Nat]

\* The parts of the state, with their types.
PciTypes ==
  /\ tablet \in TabletRecords /\ gpu \in GpuRecords
  /\ ring \in RingRecords /\ wait \in WaitRecords
  /\ isr \in [tablet : BOOLEAN, gpu : BOOLEAN]
  /\ irq \in {"none", "gpu", "tablet"}
  /\ pc \in {"pop", "take", "load", "store", "draw", "snapshot", "scan"}
  /\ count \in 0 .. Capacity
  /\ pushed \in Seq(Nat) /\ popped \in Seq(Nat)
  /\ tablet.used <= MaxEvents /\ gpu.requests <= MaxRequests

\* While ring_pop is between its accesses, the element it takes is still counted.
PopCounts ==
  /\ pc \in {"take", "load"} => ring.num > 0
  /\ pc = "store" => count > 0

TabletBooks ==
  /\ tablet.devidx <= tablet.used /\ tablet.used <= tablet.avail
  /\ EventsInOrder

\* The head of a request that r requests followed, itself among them: each takes two
\* or three descriptors.
HeadOf(h, r) ==
  \E d \in Nat : h = d % QueueSize /\ d + 2 * r <= gpu.drvidx /\ gpu.drvidx <= d + 3 * r

\* From the k-th answer on, the used ring still holds the heads as they were answered.
AnswersFrom(k) ==
  /\ k <= gpu.idx /\ 3 * (gpu.requests - k) <= QueueSize
  /\ \A n \in Nat : k <= n /\ n < gpu.idx =>
       HeadOf(gpu.ring[n % QueueSize], gpu.requests - n)

Waiting == pc \in {"snapshot", "scan"}

GpuBooks ==
  /\ AnswersFrom(gpu.devidx)
  /\ pc = "scan" => AnswersFrom(wait.desc)
  /\ Waiting => HeadOf(wait.head, 1) /\ gpu.requests > 0
  /\ \/ gpu.chains = <<>> /\ gpu.requests = gpu.idx
     \/ Waiting /\ gpu.chains = <<wait.head>> /\ gpu.requests = gpu.idx + 1

PciInv == PciTypes /\ PopCounts /\ TabletBooks /\ GpuBooks

ConsoleProofs == INSTANCE SbiConsoleProofs WITH
  Console <- HartZero, Others <- OtherHarts, pc <- loop

LEMMA Sizes ==
  /\ QueueSize \in Nat \ {0} /\ Capacity \in Nat \ {0}
  /\ MaxEvents \in Nat /\ MaxRequests \in Nat
BY PciDevicesAssumption

LEMMA InSlots ==
  ASSUME NEW n \in Nat
  PROVE  /\ n % QueueSize \in Slots
         /\ \A m \in Nat : n < m /\ m < n + QueueSize => n % QueueSize # m % QueueSize
<1>1. n % QueueSize \in Slots
  BY Sizes DEF Slots
<1>2. ASSUME NEW m \in Nat, n < m, m < n + QueueSize
      PROVE  n % QueueSize # m % QueueSize
  BY <1>2, Sizes, ConsoleProofs!ModApart
<1> QED
  BY <1>1, <1>2

LEMMA TabletIs ==
  ASSUME NEW t \in TabletRecords
  PROVE  /\ t.used \in Nat /\ t.avail \in Nat /\ t.devidx \in Nat
         /\ t.buffer \in [Slots -> Nat]
         /\ t = [used |-> t.used, avail |-> t.avail, devidx |-> t.devidx, buffer |-> t.buffer]
BY DEF TabletRecords

LEMMA TabletMade ==
  ASSUME NEW u \in Nat, NEW a \in Nat, NEW d \in Nat, NEW b \in [Slots -> Nat]
  PROVE  [used |-> u, avail |-> a, devidx |-> d, buffer |-> b] \in TabletRecords
BY DEF TabletRecords

LEMMA GpuIs ==
  ASSUME NEW g \in GpuRecords
  PROVE  /\ g.chains \in Seq(Slots) /\ g.ring \in [Slots -> Slots]
         /\ g.idx \in Nat /\ g.drvidx \in Nat /\ g.devidx \in Nat /\ g.requests \in Nat
         /\ g = [chains |-> g.chains, ring |-> g.ring, idx |-> g.idx, drvidx |-> g.drvidx,
                 devidx |-> g.devidx, requests |-> g.requests]
BY DEF GpuRecords

LEMMA RingIs ==
  ASSUME NEW r \in RingRecords
  PROVE  /\ r.at \in 0 .. Capacity - 1 /\ r.num \in 0 .. Capacity
         /\ r.buffer \in [0 .. Capacity - 1 -> Nat]
         /\ r = [at |-> r.at, num |-> r.num, buffer |-> r.buffer]
BY DEF RingRecords

LEMMA RingMade ==
  ASSUME NEW a \in 0 .. Capacity - 1, NEW n \in 0 .. Capacity,
         NEW b \in [0 .. Capacity - 1 -> Nat]
  PROVE  [at |-> a, num |-> n, buffer |-> b] \in RingRecords
BY DEF RingRecords

LEMMA WaitIs ==
  ASSUME NEW w \in WaitRecords
  PROVE  /\ w.head \in Slots /\ w.desc \in Nat
         /\ w = [head |-> w.head, desc |-> w.desc]
BY DEF WaitRecords

LEMMA WaitMade ==
  ASSUME NEW h \in Slots, NEW d \in Nat
  PROVE  [head |-> h, desc |-> d] \in WaitRecords
BY DEF WaitRecords

LEMMA PciInitial ==
  ASSUME Init
  PROVE  PciInv
<1> USE Sizes
<1>1. 0 \in Slots
  BY DEF Slots
<1>2. TabletQueue \in TabletRecords
  BY DEF TabletQueue, NoEvent, TabletRecords
<1>3. GpuQueue \in GpuRecords
  BY <1>1 DEF GpuQueue, GpuRecords
<1>4. EventRing \in RingRecords
  BY DEF EventRing, NoEvent, RingRecords
<1>5. PciTypes
  <2>1. wait \in WaitRecords
    BY <1>1 DEF Init, WaitRecords
  <2>2. tablet.used = 0 /\ gpu.requests = 0
    BY DEF Init, TabletQueue, GpuQueue
  <2> QED
    BY <1>2, <1>3, <1>4, <2>1, <2>2 DEF Init, PciTypes
<1>6. PopCounts
  BY DEF Init, PopCounts
<1>7. TabletBooks
  BY DEF Init, TabletBooks, TabletQueue, EventsInOrder, BuffersConserved, PushedInOrder
<1>8. GpuBooks
  BY DEF Init, GpuBooks, GpuQueue, AnswersFrom, Waiting
<1> QED
  BY <1>5, <1>6, <1>7, <1>8 DEF PciInv

----------------------------------------------------------------------------
(* What each step that changes a record makes of it *)

LEMMA PushIs ==
  ASSUME PciTypes, NEW e \in Nat, Push(e)
  PROVE  ring' \in RingRecords /\ (ring.num > 0 => ring'.num > 0)
<1>1. ring \in RingRecords
  BY DEF PciTypes
<1>2. CASE ring.num >= Capacity /\ UNCHANGED ring
  BY <1>1, <1>2
<1>3. CASE /\ ring.num < Capacity
           /\ ring' = [ring EXCEPT !.buffer[(ring.at + ring.num) % Capacity] = e, !.num = @ + 1]
  <2>1. PICK b \in [0 .. Capacity - 1 -> Nat] :
          b = [ring.buffer EXCEPT ![(ring.at + ring.num) % Capacity] = e]
    BY <1>1, RingIs
  <2>2. ring' = [at |-> ring.at, num |-> ring.num + 1, buffer |-> b]
    BY <1>1, <1>3, <2>1 DEF RingRecords
  <2>3. ring.num + 1 \in 0 .. Capacity /\ ring.num + 1 > 0 /\ ring.at \in 0 .. Capacity - 1
    BY <1>1, <1>3, RingIs, Sizes
  <2>4. ring' \in RingRecords
    BY <2>2, <2>3, RingMade
  <2> QED
    BY <2>2, <2>3, <2>4
<1> QED
  BY <1>2, <1>3 DEF Push

LEMMA EmitIs ==
  ASSUME PciTypes, Emit
  PROVE  /\ tablet' \in TabletRecords
         /\ tablet'.used = tablet.used + 1 /\ tablet'.avail = tablet.avail
         /\ tablet'.devidx = tablet.devidx
         /\ tablet'.buffer = [tablet.buffer EXCEPT ![tablet.used % QueueSize] = tablet.used + 1]
<1>1. tablet \in TabletRecords
  BY DEF PciTypes
<1>2. PICK b \in [Slots -> Nat] :
        b = [tablet.buffer EXCEPT ![tablet.used % QueueSize] = tablet.used + 1]
  <2>1. tablet.buffer \in [Slots -> Nat] /\ tablet.used + 1 \in Nat
    BY <1>1, TabletIs
  <2> QED
    BY <2>1
<1>3. tablet' = [used |-> tablet.used + 1, avail |-> tablet.avail, devidx |-> tablet.devidx,
                 buffer |-> b]
  BY <1>1, <1>2 DEF Emit, TabletRecords
<1>4. tablet' \in TabletRecords
  BY <1>1, <1>3, TabletIs, TabletMade
<1> QED
  BY <1>2, <1>3, <1>4

LEMMA ServeEventIs ==
  ASSUME PciTypes, ServeEvent
  PROVE  /\ tablet' \in TabletRecords /\ Event \in Nat
         /\ tablet'.used = tablet.used /\ tablet'.avail = tablet.avail + 1
         /\ tablet'.devidx = tablet.devidx + 1 /\ tablet'.buffer = tablet.buffer
<1>1. tablet \in TabletRecords
  BY DEF PciTypes
<1>2. tablet' = [used |-> tablet.used, avail |-> tablet.avail + 1,
                 devidx |-> tablet.devidx + 1, buffer |-> tablet.buffer]
  BY <1>1 DEF ServeEvent, Returned, TabletRecords
<1>3. tablet' \in TabletRecords
  BY <1>1, <1>2, TabletIs, TabletMade
<1>4. Event \in Nat
  BY <1>1, TabletIs, InSlots DEF Event
<1> QED
  BY <1>2, <1>3, <1>4

LEMMA AnswerIs ==
  ASSUME PciTypes, Answer
  PROVE  /\ gpu' \in GpuRecords
         /\ gpu'.chains = Tail(gpu.chains) /\ gpu'.idx = gpu.idx + 1
         /\ gpu'.ring = [gpu.ring EXCEPT ![gpu.idx % QueueSize] = Head(gpu.chains)]
         /\ gpu'.drvidx = gpu.drvidx /\ gpu'.devidx = gpu.devidx
         /\ gpu'.requests = gpu.requests
<1>1. gpu \in GpuRecords
  BY DEF PciTypes
<1>2. Head(gpu.chains) \in Slots /\ Tail(gpu.chains) \in Seq(Slots)
  BY <1>1, GpuIs DEF Answer
<1>3. PICK r \in [Slots -> Slots] :
        r = [gpu.ring EXCEPT ![gpu.idx % QueueSize] = Head(gpu.chains)]
  BY <1>1, <1>2, GpuIs
<1>4. gpu' = [chains |-> Tail(gpu.chains), ring |-> r, idx |-> gpu.idx + 1,
              drvidx |-> gpu.drvidx, devidx |-> gpu.devidx, requests |-> gpu.requests]
  BY <1>1, <1>3 DEF Answer, GpuRecords
<1>5. gpu' \in GpuRecords
  <2>1. /\ gpu.idx + 1 \in Nat /\ gpu.drvidx \in Nat /\ gpu.devidx \in Nat
        /\ gpu.requests \in Nat
    BY <1>1, GpuIs
  <2> QED
    BY <1>2, <1>4, <2>1 DEF GpuRecords
<1> QED
  BY <1>3, <1>4, <1>5

LEMMA ServeGpuIs ==
  ASSUME PciTypes, ServeGpu
  PROVE  /\ gpu' \in GpuRecords
         /\ gpu'.chains = gpu.chains /\ gpu'.idx = gpu.idx /\ gpu'.ring = gpu.ring
         /\ gpu'.drvidx = gpu.drvidx /\ gpu'.requests = gpu.requests
         /\ \/ gpu'.devidx = gpu.devidx
            \/ gpu.devidx # gpu.idx /\ gpu'.devidx = gpu.devidx + 1
<1>1. gpu \in GpuRecords
  BY DEF PciTypes
<1>2. CASE gpu' = gpu
  BY <1>1, <1>2
<1>3. CASE gpu.devidx # gpu.idx /\ gpu' = [gpu EXCEPT !.devidx = @ + 1]
  <2>1. gpu' = [chains |-> gpu.chains, ring |-> gpu.ring, idx |-> gpu.idx,
                drvidx |-> gpu.drvidx, devidx |-> gpu.devidx + 1, requests |-> gpu.requests]
    BY <1>1, <1>3, GpuIs
  <2>2. gpu' \in GpuRecords
    <3>1. /\ gpu.chains \in Seq(Slots) /\ gpu.ring \in [Slots -> Slots] /\ gpu.idx \in Nat
          /\ gpu.drvidx \in Nat /\ gpu.devidx + 1 \in Nat /\ gpu.requests \in Nat
      BY <1>1, GpuIs
    <3> QED
      BY <2>1, <3>1 DEF GpuRecords
  <2> QED
    BY <1>3, <2>1, <2>2
<1> QED
  BY <1>2, <1>3 DEF ServeGpu

LEMMA SubmitIs ==
  ASSUME PciTypes, NEW n \in Chains, Submit(n)
  PROVE  /\ gpu' \in GpuRecords /\ wait' \in WaitRecords
         /\ n \in {2, 3} /\ gpu'.drvidx = gpu.drvidx + n
         /\ wait'.head = gpu.drvidx % QueueSize /\ wait'.desc = wait.desc
         /\ gpu'.chains = Append(gpu.chains, wait'.head)
         /\ gpu'.idx = gpu.idx /\ gpu'.ring = gpu.ring /\ gpu'.devidx = gpu.devidx
         /\ gpu'.requests = gpu.requests + 1
<1>1. gpu \in GpuRecords /\ wait \in WaitRecords
  BY DEF PciTypes
<1>2. n \in {2, 3}
  BY PciDevicesAssumption
<1>3. PICK head \in Slots : head = gpu.drvidx % QueueSize
  BY <1>1, GpuIs, InSlots
<1>4. Append(gpu.chains, head) \in Seq(Slots)
  BY <1>1, GpuIs
<1>5. gpu' = [chains |-> Append(gpu.chains, head), ring |-> gpu.ring, idx |-> gpu.idx,
              drvidx |-> gpu.drvidx + n, devidx |-> gpu.devidx,
              requests |-> gpu.requests + 1]
  BY <1>1, <1>3 DEF Submit, GpuRecords
<1>6. gpu' \in GpuRecords
  <2>1. /\ gpu.ring \in [Slots -> Slots] /\ gpu.idx \in Nat /\ gpu.drvidx + n \in Nat
        /\ gpu.devidx \in Nat /\ gpu.requests + 1 \in Nat
    BY <1>1, <1>2, GpuIs
  <2> QED
    BY <1>4, <1>5, <2>1 DEF GpuRecords
<1>7. wait' = [head |-> head, desc |-> wait.desc]
  BY <1>1, <1>3, WaitIs DEF Submit
<1>8. wait' \in WaitRecords
  BY <1>1, <1>7, WaitIs, WaitMade
<1> QED
  BY <1>2, <1>3, <1>5, <1>6, <1>7, <1>8

LEMMA WaitSteps ==
  ASSUME PciTypes
  PROVE  /\ Snapshot => /\ wait' \in WaitRecords
                        /\ wait'.head = wait.head /\ wait'.desc = gpu.devidx
         /\ Scan => /\ wait' \in WaitRecords
                    /\ \/ Found /\ pc' = "draw"
                       \/ /\ ~Found /\ pc' = "scan"
                          /\ wait'.head = wait.head /\ wait'.desc = wait.desc + 1
<1>1. wait \in WaitRecords /\ gpu \in GpuRecords
  BY DEF PciTypes
<1>2. ASSUME Snapshot
      PROVE  wait' \in WaitRecords /\ wait'.head = wait.head /\ wait'.desc = gpu.devidx
  <2>1. wait' = [head |-> wait.head, desc |-> gpu.devidx]
    BY <1>1, <1>2, WaitIs DEF Snapshot
  <2> QED
    BY <1>1, <2>1, WaitIs, WaitMade, GpuIs
<1>3. ASSUME Scan
      PROVE  /\ wait' \in WaitRecords
             /\ \/ Found /\ pc' = "draw"
                \/ /\ ~Found /\ pc' = "scan"
                   /\ wait'.head = wait.head /\ wait'.desc = wait.desc + 1
  <2>1. CASE Found /\ pc' = "draw" /\ wait' = [head |-> 0, desc |-> 0]
    <3>1. 0 \in Slots
      BY Sizes DEF Slots
    <3> QED
      BY <2>1, <3>1, WaitMade
  <2>2. CASE ~Found /\ wait' = [wait EXCEPT !.desc = @ + 1] /\ pc' = pc
    <3>1. wait' = [head |-> wait.head, desc |-> wait.desc + 1]
      BY <1>1, <2>2, WaitIs
    <3> QED
      BY <1>1, <1>3, <2>2, <3>1, WaitIs, WaitMade DEF Scan
  <2> QED
    BY <1>3, <2>1, <2>2 DEF Scan
<1> QED
  BY <1>2, <1>3

LEMMA PopSteps ==
  ASSUME PciTypes, PopCounts
  PROVE  /\ PopTake => /\ ring' \in RingRecords /\ ring'.num = ring.num
                       /\ ring.buffer[ring.at] \in Nat
         /\ PopLoad => ring.num \in 0 .. Capacity
         /\ PopStore => ring' \in RingRecords
<1>1. ring \in RingRecords
  BY DEF PciTypes
<1>2. ASSUME PopTake
      PROVE  ring' \in RingRecords /\ ring'.num = ring.num /\ ring.buffer[ring.at] \in Nat
  <2>1. PICK a \in 0 .. Capacity - 1 : a = (ring.at + 1) % Capacity
    BY <1>1, RingIs, Sizes
  <2>2. ring' = [at |-> a, num |-> ring.num, buffer |-> ring.buffer]
    BY <1>1, <1>2, <2>1, RingIs DEF PopTake
  <2> QED
    BY <1>1, <2>2, RingIs, RingMade
<1>3. ASSUME PopStore
      PROVE  ring' \in RingRecords
  <2>1. PICK n \in 0 .. Capacity : n = count - 1
    BY <1>3, Sizes DEF PopStore, Goto, PopCounts, PciTypes
  <2>2. ring' = [at |-> ring.at, num |-> n, buffer |-> ring.buffer]
    BY <1>1, <1>3, <2>1, RingIs DEF PopStore
  <2> QED
    BY <1>1, <2>2, RingIs, RingMade
<1> QED
  BY <1>1, <1>2, <1>3, RingIs

----------------------------------------------------------------------------
(* Every step keeps the books *)

LEMMA PciTypesPreserved ==
  ASSUME PciInv, Next
  PROVE  PciTypes' /\ PopCounts'
<1> USE DEF Goto, PciTypes, PopCounts
<1>1. PciTypes /\ PopCounts
  BY DEF PciInv
<1>2. CASE Emit
  <2>1. tablet' \in TabletRecords /\ tablet'.used <= MaxEvents
    <3>1. tablet'.used = tablet.used + 1 /\ tablet.used < MaxEvents /\ tablet.used \in Nat
      BY <1>1, <1>2, EmitIs, TabletIs DEF Emit
    <3> QED
      BY <1>1, <1>2, <3>1, EmitIs, Sizes
  <2>2. isr' \in [tablet : BOOLEAN, gpu : BOOLEAN]
    BY <1>1, <1>2 DEF Emit
  <2> QED
    BY <1>1, <1>2, <2>1, <2>2 DEF Emit
<1>3. CASE Answer
  <2>1. gpu' \in GpuRecords /\ gpu'.requests = gpu.requests
    BY <1>1, <1>3, AnswerIs
  <2>2. isr' \in [tablet : BOOLEAN, gpu : BOOLEAN]
    BY <1>1, <1>3 DEF Answer
  <2> QED
    BY <1>1, <1>3, <2>1, <2>2 DEF Answer
<1>4. CASE TakeIrq
  <2>1. isr' \in [tablet : BOOLEAN, gpu : BOOLEAN]
    BY <1>1, <1>4 DEF TakeIrq
  <2> QED
    BY <1>1, <1>4, <2>1 DEF TakeIrq
<1>5. CASE ServeGpu
  <2>1. gpu' \in GpuRecords /\ gpu'.requests = gpu.requests
    BY <1>1, <1>5, ServeGpuIs
  <2> QED
    BY <1>1, <1>5, <2>1 DEF ServeGpu
<1>6. CASE ServeEvent
  <2>1. tablet' \in TabletRecords /\ tablet'.used = tablet.used /\ Event \in Nat
    BY <1>1, <1>6, ServeEventIs
  <2>2. ring' \in RingRecords /\ (ring.num > 0 => ring'.num > 0)
    BY <1>1, <1>6, <2>1, PushIs DEF ServeEvent
  <2>3. pushed' \in Seq(Nat)
    BY <1>1, <1>6, <2>1 DEF ServeEvent
  <2> QED
    BY <1>1, <1>6, <2>1, <2>2, <2>3 DEF ServeEvent
<1>7. CASE Served
  BY <1>1, <1>7 DEF Served
<1>8. CASE Pop
  <2>1. ring.num # 0 => ring.num > 0
    BY <1>1, RingIs, Sizes
  <2> QED
    BY <1>1, <1>8, <2>1 DEF Pop
<1>9. CASE PopTake
  <2>1. ring' \in RingRecords /\ ring'.num = ring.num /\ ring.buffer[ring.at] \in Nat
    BY <1>1, <1>9, PopSteps
  <2>2. popped' \in Seq(Nat)
    BY <1>1, <1>9, <2>1 DEF PopTake
  <2> QED
    BY <1>1, <1>9, <2>1, <2>2 DEF PopTake
<1>10. CASE PopLoad
  BY <1>1, <1>10, PopSteps DEF PopLoad
<1>11. CASE PopStore
  <2>1. ring' \in RingRecords /\ count' \in 0 .. Capacity
    BY <1>1, <1>11, PopSteps, Sizes DEF PopStore
  <2> QED
    BY <1>1, <1>11, <2>1 DEF PopStore
<1>12. CASE Rest
  BY <1>1, <1>12 DEF Rest
<1>13. ASSUME NEW n \in Chains, Submit(n)
       PROVE  PciTypes' /\ PopCounts'
  <2>1. gpu' \in GpuRecords /\ wait' \in WaitRecords /\ gpu'.requests = gpu.requests + 1
    BY <1>1, <1>13, SubmitIs
  <2>2. gpu'.requests <= MaxRequests
    BY <1>1, <1>13, <2>1, GpuIs, Sizes DEF Submit
  <2> QED
    BY <1>1, <1>13, <2>1, <2>2 DEF Submit
<1>14. CASE Snapshot
  <2>1. wait' \in WaitRecords
    BY <1>1, <1>14, WaitSteps
  <2> QED
    BY <1>1, <1>14, <2>1 DEF Snapshot
<1>15. CASE Scan
  <2>1. wait' \in WaitRecords /\ pc' \in {"draw", "scan"}
    BY <1>1, <1>15, WaitSteps
  <2> QED
    BY <1>1, <1>15, <2>1 DEF Scan
<1> QED
  BY <1>2, <1>3, <1>4, <1>5, <1>6, <1>7, <1>8, <1>9, <1>10, <1>11, <1>12, <1>13, <1>14,
     <1>15 DEF Next, Irq, Paint

LEMMA TabletBooksPreserved ==
  ASSUME PciInv, Next
  PROVE  TabletBooks'
<1>1. PciTypes /\ TabletBooks
  BY DEF PciInv
<1>2. /\ tablet.used \in Nat /\ tablet.avail \in Nat /\ tablet.devidx \in Nat
      /\ tablet.buffer \in [Slots -> Nat] /\ pushed \in Seq(Nat)
      /\ QueueSize \in Nat \ {0}
  BY <1>1, TabletIs, Sizes DEF PciTypes
<1>3. CASE tablet' = tablet /\ pushed' = pushed
  BY <1>1, <1>3 DEF TabletBooks, EventsInOrder, BuffersConserved, PushedInOrder
<1>4. CASE Emit
  <2>1. /\ tablet'.used = tablet.used + 1 /\ tablet'.avail = tablet.avail
        /\ tablet'.devidx = tablet.devidx /\ pushed' = pushed
        /\ tablet'.buffer = [tablet.buffer EXCEPT ![tablet.used % QueueSize] = tablet.used + 1]
    BY <1>1, <1>4, EmitIs DEF Emit
  <2>2. /\ tablet.used < tablet.avail /\ tablet.avail = tablet.devidx + QueueSize
        /\ tablet.devidx <= tablet.used
    BY <1>1, <1>4 DEF Emit, TabletBooks, EventsInOrder, BuffersConserved
  <2>3. tablet.used % QueueSize \in Slots
    BY <1>2, InSlots
  <2>4. ASSUME NEW n \in tablet.devidx + 1 .. tablet.used + 1
        PROVE  tablet'.buffer[(n - 1) % QueueSize] = n
    <3>1. CASE n = tablet.used + 1
      <4>1. n - 1 = tablet.used
        BY <1>2, <3>1
      <4> QED
        BY <1>2, <2>1, <2>3, <3>1, <4>1
    <3>2. CASE n # tablet.used + 1
      <4>1. PICK m \in Nat : m = n - 1
        BY <1>2, <2>4
      <4>2. n \in tablet.devidx + 1 .. tablet.used
        <5>1. PICK d \in Nat, u \in Nat : d = tablet.devidx /\ u = tablet.used
          BY <1>2
        <5>2. n \in d + 1 .. u + 1 /\ n # u + 1
          BY <2>4, <3>2, <5>1
        <5>3. n \in d + 1 .. u
          BY <5>2
        <5> QED
          BY <5>1, <5>3
      <4>3. m < tablet.used /\ tablet.used < m + QueueSize
        BY <1>2, <2>2, <4>1, <4>2
      <4>4. m % QueueSize \in Slots /\ m % QueueSize # tablet.used % QueueSize
        BY <1>2, <4>3, InSlots
      <4>5. tablet.buffer[m % QueueSize] = n
        BY <1>1, <4>1, <4>2 DEF TabletBooks, EventsInOrder, BuffersConserved
      <4> QED
        BY <1>2, <2>1, <4>1, <4>4, <4>5
    <3> QED
      BY <3>1, <3>2
  <2>5. BuffersConserved'
    BY <2>1, <2>2, <2>4 DEF BuffersConserved
  <2>6. PushedInOrder'
    BY <1>1, <2>1 DEF TabletBooks, EventsInOrder, PushedInOrder
  <2> QED
    BY <1>2, <2>1, <2>2, <2>5, <2>6 DEF TabletBooks, EventsInOrder
<1>5. CASE ServeEvent
  <2>1. /\ tablet'.used = tablet.used /\ tablet'.avail = tablet.avail + 1
        /\ tablet'.devidx = tablet.devidx + 1 /\ tablet'.buffer = tablet.buffer
        /\ pushed' = Append(pushed, Event) /\ Event \in Nat
        /\ tablet.devidx # tablet.used
    BY <1>1, <1>5, ServeEventIs DEF ServeEvent
  <2>2. /\ tablet.avail = tablet.devidx + QueueSize
        /\ tablet.devidx <= tablet.used /\ tablet.used <= tablet.avail
        /\ \A n \in tablet.devidx + 1 .. tablet.used :
             tablet.buffer[(n - 1) % QueueSize] = n
        /\ Len(pushed) = tablet.devidx /\ \A n \in 1 .. Len(pushed) : pushed[n] = n
    BY <1>1 DEF TabletBooks, EventsInOrder, BuffersConserved, PushedInOrder
  <2>3. Event = tablet.devidx + 1
    <3>1. PICK n \in Nat : n = tablet.devidx + 1
      BY <1>2
    <3>2. n \in tablet.devidx + 1 .. tablet.used /\ n - 1 = tablet.devidx
      BY <1>2, <2>1, <2>2, <3>1
    <3>3. tablet.buffer[(n - 1) % QueueSize] = n
      BY <2>2, <3>2
    <3> QED
      BY <3>1, <3>2, <3>3 DEF Event
  <2>4. BuffersConserved'
    <3>1. \A n \in tablet.devidx + 2 .. tablet.used : n \in tablet.devidx + 1 .. tablet.used
      BY <1>2
    <3> QED
      BY <1>2, <2>1, <2>2, <3>1 DEF BuffersConserved
  <2>5. PushedInOrder'
    <3>1. /\ Len(pushed') = tablet.devidx + 1
          /\ \A n \in 1 .. tablet.devidx : pushed'[n] = n
          /\ pushed'[tablet.devidx + 1] = tablet.devidx + 1
      BY <1>2, <2>1, <2>2, <2>3
    <3>2. \A n \in 1 .. tablet.devidx + 1 : n \in 1 .. tablet.devidx \/ n = tablet.devidx + 1
      BY <1>2
    <3> QED
      BY <2>1, <3>1, <3>2 DEF PushedInOrder
  <2> QED
    BY <1>2, <2>1, <2>2, <2>4, <2>5 DEF TabletBooks, EventsInOrder
<1> QED
  BY <1>3, <1>4, <1>5 DEF Next, Irq, Paint, Answer, TakeIrq, ServeGpu, Served, Pop, PopTake,
     PopLoad, PopStore, Rest, Submit, Snapshot, Scan

\* A head that fewer than QueueSize descriptors followed is not the head of the request
\* that is waited for.
LEMMA HeadsApart ==
  ASSUME NEW h, NEW w, NEW r \in Nat, r >= 2, 3 * r <= QueueSize,
         gpu.drvidx \in Nat, HeadOf(h, r), HeadOf(w, 1)
  PROVE  h # w
<1>1. PICK d \in Nat : h = d % QueueSize /\ d + 2 * r <= gpu.drvidx /\ gpu.drvidx <= d + 3 * r
  BY DEF HeadOf
<1>2. PICK e \in Nat : w = e % QueueSize /\ e + 2 <= gpu.drvidx /\ gpu.drvidx <= e + 3
  BY DEF HeadOf
<1>3. d < e /\ e < d + QueueSize
  BY <1>1, <1>2, Sizes
<1> QED
  BY <1>1, <1>2, <1>3, InSlots

LEMMA AnswersLater ==
  ASSUME PciTypes, NEW k \in Nat, AnswersFrom(k), k # gpu.idx
  PROVE  AnswersFrom(k + 1)
<1>1. gpu.idx \in Nat /\ gpu.requests \in Nat
  BY GpuIs DEF PciTypes
<1> QED
  BY <1>1, Sizes DEF AnswersFrom

LEMMA AnswersAnswered ==
  ASSUME PciTypes, Answer, NEW k \in Nat, AnswersFrom(k),
         HeadOf(Head(gpu.chains), 1), gpu.requests = gpu.idx + 1
  PROVE  AnswersFrom(k)'
<1>1. /\ gpu.idx \in Nat /\ gpu.requests \in Nat /\ gpu.drvidx \in Nat
      /\ gpu.ring \in [Slots -> Slots] /\ QueueSize \in Nat \ {0}
  BY GpuIs, Sizes DEF PciTypes
<1>2. /\ gpu'.idx = gpu.idx + 1 /\ gpu'.drvidx = gpu.drvidx /\ gpu'.requests = gpu.requests
      /\ gpu'.ring = [gpu.ring EXCEPT ![gpu.idx % QueueSize] = Head(gpu.chains)]
  BY AnswerIs
<1>3. gpu.idx % QueueSize \in Slots
  BY <1>1, InSlots
<1>4. k <= gpu.idx /\ 3 * (gpu.requests - k) <= QueueSize
  BY DEF AnswersFrom
<1>5. ASSUME NEW n \in Nat, k <= n, n < gpu.idx + 1
      PROVE  HeadOf(gpu'.ring[n % QueueSize], gpu.requests - n)
  <2>1. CASE n = gpu.idx
    <3>1. gpu'.ring[n % QueueSize] = Head(gpu.chains) /\ gpu.requests - n = 1
      BY <1>1, <1>2, <1>3, <2>1
    <3> QED
      BY <3>1
  <2>2. CASE n # gpu.idx
    <3>1. n < gpu.idx /\ gpu.idx < n + QueueSize
      BY <1>1, <1>4, <1>5, <2>2
    <3>2. n % QueueSize \in Slots /\ n % QueueSize # gpu.idx % QueueSize
      BY <1>1, <3>1, InSlots
    <3>3. gpu'.ring[n % QueueSize] = gpu.ring[n % QueueSize]
      BY <1>1, <1>2, <3>2
    <3>4. HeadOf(gpu.ring[n % QueueSize], gpu.requests - n)
      BY <1>5, <3>1 DEF AnswersFrom
    <3> QED
      BY <3>3, <3>4
  <2> QED
    BY <2>1, <2>2
<1>6. \A h, r : HeadOf(h, r)' <=> HeadOf(h, r)
  BY <1>2 DEF HeadOf
<1> QED
  BY <1>1, <1>2, <1>4, <1>5 DEF AnswersFrom, HeadOf

LEMMA AnswersSubmitted ==
  ASSUME PciTypes, NEW n \in Chains, Submit(n), AnswersFrom(gpu.devidx),
         gpu.requests = gpu.idx
  PROVE  AnswersFrom(gpu.devidx)' /\ HeadOf(wait.head, 1)'
<1>1. /\ gpu.idx \in Nat /\ gpu.requests \in Nat /\ gpu.drvidx \in Nat /\ gpu.devidx \in Nat
      /\ QueueSize \in Nat \ {0}
  BY GpuIs, Sizes DEF PciTypes
<1>2. /\ n \in {2, 3} /\ gpu'.drvidx = gpu.drvidx + n
      /\ wait'.head = gpu.drvidx % QueueSize
      /\ gpu'.idx = gpu.idx /\ gpu'.ring = gpu.ring /\ gpu'.devidx = gpu.devidx
      /\ gpu'.requests = gpu.requests + 1
  BY SubmitIs
<1>3. 3 * (gpu.requests - gpu.devidx + 1) <= QueueSize
  BY DEF Submit, IrqInTime
<1>4. HeadOf(wait.head, 1)'
  <2>1. gpu.drvidx + 2 <= gpu.drvidx + n /\ gpu.drvidx + n <= gpu.drvidx + 3
    BY <1>1, <1>2
  <2> QED
    BY <1>1, <1>2, <2>1 DEF HeadOf
<1>5. ASSUME NEW m \in Nat, gpu.devidx <= m, m < gpu.idx
      PROVE  HeadOf(gpu.ring[m % QueueSize], gpu.requests - m)'
  <2>1. HeadOf(gpu.ring[m % QueueSize], gpu.requests - m)
    BY <1>5 DEF AnswersFrom
  <2>2. PICK d \in Nat : /\ gpu.ring[m % QueueSize] = d % QueueSize
                         /\ d + 2 * (gpu.requests - m) <= gpu.drvidx
                         /\ gpu.drvidx <= d + 3 * (gpu.requests - m)
    BY <2>1 DEF HeadOf
  <2>3. PICK r \in Nat : r = gpu.requests - m
    BY <1>1, <1>5, SMT
  <2>4. d + 2 * (r + 1) <= gpu.drvidx + n /\ gpu.drvidx + n <= d + 3 * (r + 1)
    <3>1. d + 2 * r <= gpu.drvidx /\ gpu.drvidx <= d + 3 * r
      BY <2>2, <2>3
    <3>2. PICK v \in Nat : v = gpu.drvidx
      BY <1>1
    <3>3. d + 2 * r <= v /\ v <= d + 3 * r
      BY <3>1, <3>2
    <3>4. d + 2 * (r + 1) <= v + n /\ v + n <= d + 3 * (r + 1)
      BY <1>2, <3>3
    <3> QED
      BY <3>2, <3>4
  <2>5. gpu'.requests - m = r + 1
    BY <1>1, <1>2, <2>3
  <2> QED
    BY <1>2, <2>2, <2>4, <2>5 DEF HeadOf
<1>6. /\ gpu'.devidx <= gpu'.idx /\ 3 * (gpu'.requests - gpu'.devidx) <= QueueSize
  BY <1>1, <1>2, <1>3 DEF AnswersFrom
<1>7. \A m \in Nat : gpu'.devidx <= m /\ m < gpu'.idx =>
        HeadOf(gpu.ring[m % QueueSize], gpu.requests - m)'
  BY <1>2, <1>5
<1> QED
  BY <1>4, <1>6, <1>7 DEF AnswersFrom

\* AnswersFrom only looks at what the handler does not change.
LEMMA AnswersKept ==
  ASSUME gpu'.idx = gpu.idx, gpu'.requests = gpu.requests, gpu'.ring = gpu.ring,
         gpu'.drvidx = gpu.drvidx
  PROVE  /\ \A k : AnswersFrom(k) => (AnswersFrom(k))'
         /\ \A h, r : HeadOf(h, r) => (HeadOf(h, r))'
<1>1. \A h, r : HeadOf(h, r) => (HeadOf(h, r))'
  BY DEF HeadOf
<1> QED
  BY <1>1 DEF AnswersFrom

LEMMA GpuBooksPreserved ==
  ASSUME PciInv, Next
  PROVE  GpuBooks'
<1> USE DEF Goto
<1>1. PciTypes /\ GpuBooks
  BY DEF PciInv
<1>2. /\ gpu.idx \in Nat /\ gpu.requests \in Nat /\ gpu.drvidx \in Nat /\ gpu.devidx \in Nat
      /\ gpu.chains \in Seq(Slots) /\ wait.desc \in Nat /\ wait.head \in Slots
  BY <1>1, GpuIs, WaitIs DEF PciTypes
<1>3. CASE /\ gpu' = gpu /\ wait' = wait
           /\ pc' = pc \/ {pc, pc'} \cap {"snapshot", "scan"} = {}
  <2>1. (Waiting' <=> Waiting) /\ (pc' = "scan" => pc = "scan")
    BY <1>3 DEF Waiting
  <2>2. /\ \A k : AnswersFrom(k) => (AnswersFrom(k))'
        /\ \A h, r : HeadOf(h, r) => (HeadOf(h, r))'
    BY <1>3, AnswersKept
  <2> QED
    BY <1>1, <1>3, <2>1, <2>2 DEF GpuBooks
<1>4. CASE Answer
  <2>1. /\ Waiting /\ gpu.chains = <<wait.head>> /\ gpu.requests = gpu.idx + 1
        /\ HeadOf(wait.head, 1) /\ Head(gpu.chains) = wait.head
    BY <1>1, <1>4 DEF Answer, GpuBooks
  <2>2. /\ gpu'.idx = gpu.idx + 1 /\ gpu'.drvidx = gpu.drvidx /\ gpu'.requests = gpu.requests
        /\ gpu'.chains = Tail(gpu.chains) /\ gpu'.devidx = gpu.devidx
        /\ wait' = wait /\ pc' = pc
    BY <1>1, <1>4, AnswerIs DEF Answer
  <2>3. gpu'.chains = <<>>
    BY <2>1, <2>2
  <2>4. ASSUME NEW k \in Nat, AnswersFrom(k)
        PROVE  (AnswersFrom(k))'
    BY <1>1, <1>4, <2>1, <2>4, AnswersAnswered
  <2>5. HeadOf(wait.head, 1)'
    BY <2>1, <2>2 DEF HeadOf
  <2>6. AnswersFrom(gpu.devidx)'
    BY <1>1, <1>2, <2>2, <2>4 DEF GpuBooks
  <2>7. pc' = "scan" => AnswersFrom(wait.desc)'
    BY <1>1, <1>2, <2>2, <2>4 DEF GpuBooks
  <2> QED
    BY <1>1, <1>2, <2>1, <2>2, <2>3, <2>5, <2>6, <2>7 DEF GpuBooks, Waiting
<1>5. CASE ServeGpu
  <2>1. /\ gpu'.chains = gpu.chains /\ gpu'.idx = gpu.idx /\ gpu'.ring = gpu.ring
        /\ gpu'.drvidx = gpu.drvidx /\ gpu'.requests = gpu.requests
        /\ wait' = wait /\ pc' = pc
        /\ \/ gpu'.devidx = gpu.devidx
           \/ gpu.devidx # gpu.idx /\ gpu'.devidx = gpu.devidx + 1
    BY <1>1, <1>5, ServeGpuIs DEF ServeGpu
  <2>2. /\ \A k : AnswersFrom(k) => (AnswersFrom(k))'
        /\ \A h, r : HeadOf(h, r) => (HeadOf(h, r))'
    BY <2>1, AnswersKept
  <2>3. AnswersFrom(gpu'.devidx)
    BY <1>1, <1>2, <2>1, AnswersLater DEF GpuBooks
  <2> QED
    BY <1>1, <2>1, <2>2, <2>3 DEF GpuBooks, Waiting
<1>6. ASSUME NEW n \in Chains, Submit(n)
      PROVE  GpuBooks'
  <2>1. pc = "draw" /\ pc' = "snapshot"
    BY <1>6 DEF Submit
  <2>2. gpu.chains = <<>> /\ gpu.requests = gpu.idx /\ AnswersFrom(gpu.devidx)
    BY <1>1, <2>1 DEF GpuBooks, Waiting
  <2>3. /\ gpu'.chains = Append(gpu.chains, wait'.head) /\ gpu'.idx = gpu.idx
        /\ gpu'.requests = gpu.requests + 1
    BY <1>1, <1>6, SubmitIs
  <2>4. gpu'.chains = <<wait'.head>> /\ gpu'.requests > 0
    BY <1>2, <2>2, <2>3
  <2>5. AnswersFrom(gpu.devidx)' /\ HeadOf(wait.head, 1)'
    BY <1>1, <1>6, <2>2, AnswersSubmitted
  <2> QED
    BY <2>1, <2>2, <2>3, <2>4, <2>5 DEF GpuBooks, Waiting
<1>7. CASE Snapshot
  <2>1. /\ wait'.head = wait.head /\ wait'.desc = gpu.devidx /\ gpu' = gpu
        /\ pc = "snapshot" /\ pc' = "scan"
    BY <1>1, <1>7, WaitSteps DEF Snapshot
  <2>2. /\ \A k : AnswersFrom(k) => (AnswersFrom(k))'
        /\ \A h, r : HeadOf(h, r) => (HeadOf(h, r))'
    BY <2>1, AnswersKept
  <2> QED
    BY <1>1, <2>1, <2>2 DEF GpuBooks, Waiting
<1>8. CASE Scan
  <2>1. /\ AnswersFrom(wait.desc) /\ wait.desc # gpu.idx /\ pc = "scan" /\ gpu' = gpu
        /\ HeadOf(wait.head, 1)
    BY <1>1, <1>8 DEF Scan, GpuBooks, Waiting
  <2>2. /\ \A k : AnswersFrom(k) => (AnswersFrom(k))'
        /\ \A h, r : HeadOf(h, r) => (HeadOf(h, r))'
    BY <2>1, AnswersKept
  <2>3. CASE Found /\ pc' = "draw"
    <3>1. gpu.chains = <<>> /\ gpu.requests = gpu.idx
      <4>1. SUFFICES ASSUME gpu.requests = gpu.idx + 1
                     PROVE  FALSE
        BY <1>1 DEF GpuBooks
      <4>2. wait.desc < gpu.idx /\ 3 * (gpu.requests - wait.desc) <= QueueSize
        BY <1>2, <2>1 DEF AnswersFrom
      <4>3. PICK r \in Nat : r = gpu.requests - wait.desc
        BY <1>2, <4>1, <4>2
      <4>4. r >= 2 /\ 3 * r <= QueueSize
        BY <1>2, <4>1, <4>2, <4>3
      <4>5. HeadOf(gpu.ring[wait.desc % QueueSize], r)
        <5>1. \A n \in Nat : wait.desc <= n /\ n < gpu.idx =>
                HeadOf(gpu.ring[n % QueueSize], gpu.requests - n)
          BY <2>1 DEF AnswersFrom
        <5>2. wait.desc <= wait.desc
          BY <1>2
        <5>3. HeadOf(gpu.ring[wait.desc % QueueSize], gpu.requests - wait.desc)
          BY <1>2, <4>2, <5>1, <5>2
        <5> QED
          BY <4>3, <5>3
      <4>6. gpu.ring[wait.desc % QueueSize] # wait.head
        BY <1>2, <2>1, <4>4, <4>5, HeadsApart
      <4> QED
        BY <2>3, <4>6 DEF Found
    <3> QED
      BY <1>1, <2>1, <2>2, <2>3, <3>1 DEF GpuBooks, Waiting
  <2>4. CASE pc' = "scan" /\ wait'.head = wait.head /\ wait'.desc = wait.desc + 1
    <3>1. AnswersFrom(wait.desc + 1)
      BY <1>1, <1>2, <2>1, AnswersLater
    <3> QED
      BY <1>1, <2>1, <2>2, <2>4, <3>1 DEF GpuBooks, Waiting
  <2> QED
    BY <1>1, <1>8, <2>3, <2>4, WaitSteps
<1> QED
  BY <1>3, <1>4, <1>5, <1>6, <1>7, <1>8 DEF Next, Irq, Paint, Emit, TakeIrq, ServeEvent,
     Served, Pop, PopTake, PopLoad, PopStore, Rest

\* The inductive invariant of the tablet, the GPU and their interrupt.
THEOREM PciInvariant == Spec => []PciInv
<1>1. Init => PciInv
  BY PciInitial
<1>2. PciInv /\ [Next]_vars => PciInv'
  <2>1. ASSUME PciInv, Next
        PROVE  PciInv'
    BY <2>1, PciTypesPreserved, TabletBooksPreserved, GpuBooksPreserved DEF PciInv
  <2>2. ASSUME PciInv, UNCHANGED vars
        PROVE  PciInv'
    <3>1. /\ tablet' = tablet /\ gpu' = gpu /\ isr' = isr /\ irq' = irq /\ ring' = ring
          /\ pc' = pc /\ count' = count /\ wait' = wait /\ pushed' = pushed
          /\ popped' = popped
      BY <2>2 DEF vars
    <3>2. PciTypes' /\ PopCounts' /\ TabletBooks'
      BY <2>2, <3>1 DEF PciInv, PciTypes, PopCounts, TabletBooks, EventsInOrder,
         BuffersConserved, PushedInOrder
    <3>3. GpuBooks'
      BY <2>2, <3>1, AnswersKept DEF PciInv, GpuBooks, Waiting
    <3> QED
      BY <3>2, <3>3 DEF PciInv
  <2> QED
    BY <2>1, <2>2
<1> QED
  BY <1>1, <1>2, PTL DEF Spec

\* However the interrupt comes between the accesses of ring_pop and of virtio_gpu_wait,
\* no buffer of the tablet is lost and each event is given to ring_push once and in
\* order (pci.c:83-95, virtio_inp.c:72-84) ...
THEOREM EventsAlwaysInOrder == Spec => []EventsInOrder
<1>1. PciInv => EventsInOrder
  BY DEF PciInv, TabletBooks
<1> QED
  BY <1>1, PciInvariant, PTL

\* ... virtio_gpu_wait only returns when its own request is answered, whatever is left
\* of older answers in the used ring (virtio_gpu.c:105-119) ...
THEOREM AnswerAlwaysOurs == Spec => []AnswerIsOurs
<1>1. PciInv => AnswerIsOurs
  BY DEF PciInv, GpuBooks, Waiting, AnswerIsOurs
<1> QED
  BY <1>1, PciInvariant, PTL

\* ... and the ring of events never counts more than it has room for, nor less than
\* none (ringbuff.c:22-71).
THEOREM PciTypesAlways == Spec => []TypeOK
<1>1. PciInv => TypeOK
  <2>1. ASSUME PciInv
        PROVE  TypeOK
    <3>1. PciTypes
      BY <2>1 DEF PciInv
    <3>2. /\ ring.at \in 0 .. Capacity - 1 /\ ring.num \in 0 .. Capacity
          /\ tablet.used \in Nat /\ gpu.requests \in Nat
          /\ gpu.chains \in Seq(Slots) /\ gpu.ring \in [Slots -> Slots]
      BY <3>1, RingIs, TabletIs, GpuIs DEF PciTypes
    <3> QED
      BY <3>1, <3>2, Sizes DEF PciTypes, TypeOK
  <2> QED
    BY <2>1
<1> QED
  BY <1>1, PciInvariant, PTL

----------------------------------------------------------------------------
(* The random number device *)

RngConstants == BlockQueue \in Nat \ {0} /\ Word \in Nat \ {0} /\ BlockQueue <= Word

LEMMA RngConstantsGood == RngConstants
BY DevicesAssumption DEF RngConstants

\* One request at a time: it is in the descriptor at_idx until that is published, and
\* then in the last one that was published.
RngInv ==
  /\ Rng!TypeOK /\ Rng!OwnBuffers
  /\ Rng!Used \in {Rng!Published, Rng!Published - 1} /\ filled \in Seq(Nat)
  /\ fill = "publish" => /\ Rng!Used = Rng!Published
                         /\ idx \in Rng!Table /\ desc[idx] = Rng!Published + 1
  /\ Rng!Used < Rng!Published => desc[avail[Rng!Published]] = Rng!Published

LEMMA RngStep ==
  ASSUME RngConstants, RngInv, Rng!Next
  PROVE  RngInv'
<1> USE DEF Rng!TypeOK, Rng!OwnBuffers, Rng!Used, Rng!Published, Rng!Table, Rng!Goto,
            RngConstants, RngInv
<1>1. Len(avail) \in Nat /\ Len(filled) \in Nat
  OBVIOUS
<1>2. CASE Rng!Fill
  <2>1. desc' \in [0 .. BlockQueue - 1 -> 0 .. BlockQueue] /\ desc'[idx] = Len(avail) + 1
    BY <1>1, <1>2 DEF Rng!Fill
  <2>2. Len(filled) = Len(avail) /\ avail' = avail /\ filled' = filled /\ idx' = idx
    BY <1>2 DEF Rng!Fill
  <2> QED
    BY <1>1, <1>2, <2>1, <2>2 DEF Rng!Fill
<1>3. CASE Rng!Publish
  <2>1. /\ avail' = Append(avail, idx) /\ desc' = desc /\ filled' = filled /\ idx' = idx
        /\ idx \in 0 .. BlockQueue - 1 /\ Len(filled) = Len(avail)
        /\ desc[idx] = Len(avail) + 1
    BY <1>3 DEF Rng!Publish
  <2>2. /\ avail' \in Seq(0 .. BlockQueue - 1) /\ Len(avail') = Len(avail) + 1
        /\ avail'[Len(avail) + 1] = idx
    BY <1>1, <2>1
  <2> QED
    BY <1>1, <1>3, <2>1, <2>2 DEF Rng!Publish
<1>4. CASE Rng!Advance
  <2>1. (idx + 1) % BlockQueue \in 0 .. Word - 1
    OBVIOUS
  <2> QED
    BY <1>1, <1>4, <2>1 DEF Rng!Advance
<1>5. CASE Rng!Count
  <2>1. Len(filled) % Word \in 0 .. Word - 1
    BY <1>1
  <2> QED
    BY <1>1, <1>5, <2>1 DEF Rng!Count
<1>6. CASE Rng!Answer
  <2>1. /\ Len(filled) + 1 = Len(avail) /\ desc' = desc /\ avail' = avail /\ idx' = idx
        /\ fill' = fill /\ filled' = Append(filled, desc[avail[Len(filled) + 1]])
    BY <1>1, <1>6 DEF Rng!Answer
  <2>2. filled' = Append(filled, Len(avail))
    BY <1>1, <2>1
  <2>3. /\ filled' \in Seq(Nat) /\ Len(filled') = Len(avail)
        /\ \A n \in 1 .. Len(filled) : filled'[n] = n
        /\ filled'[Len(filled) + 1] = Len(avail)
    BY <1>1, <2>1, <2>2
  <2>4. \A n \in 1 .. Len(filled') : filled'[n] = n
    BY <1>1, <2>1, <2>3
  <2> QED
    BY <1>1, <1>6, <2>1, <2>3, <2>4
<1> QED
  BY <1>2, <1>3, <1>4, <1>5, <1>6 DEF Rng!Next

\* Each call of rng_fill gets the bytes of its own request when callers wait for them,
\* although at_idx lags behind the answers (virtio.c:79-90).
THEOREM RngInvariant == Rng!Spec => []RngInv
<1> USE RngConstantsGood
<1>1. Rng!Init => RngInv
  BY DEF RngConstants, RngInv, Rng!Init, Rng!TypeOK, Rng!OwnBuffers, Rng!Used,
     Rng!Published, Rng!Table
<1>2. RngInv /\ [Rng!Next]_Rng!vars => RngInv'
  <2>1. ASSUME RngInv, UNCHANGED Rng!vars
        PROVE  RngInv'
    BY <2>1 DEF Rng!vars, RngInv, Rng!TypeOK, Rng!OwnBuffers, Rng!Used, Rng!Published,
       Rng!Table
  <2> QED
    BY <2>1, RngStep
<1> QED
  BY <1>1, <1>2, PTL DEF Rng!Spec

----------------------------------------------------------------------------
(* The console *)

LEMMA SameConsole ==
  /\ ConsoleProofs!Init = Serial!Init /\ ConsoleProofs!Next = Serial!Next
  /\ ConsoleProofs!vars = Serial!vars
BY DEF
     Serial!Init, ConsoleProofs!Init, Serial!Next, ConsoleProofs!Next,
     Serial!vars, ConsoleProofs!vars, Serial!NoChar, ConsoleProofs!NoChar,
     Serial!Readers, ConsoleProofs!Readers, Serial!Irq, ConsoleProofs!Irq,
     Serial!Loop, ConsoleProofs!Loop, Serial!GetChar, ConsoleProofs!GetChar,
     Serial!Type, ConsoleProofs!Type, Serial!TakeIrq, ConsoleProofs!TakeIrq,
     Serial!IrqByte, ConsoleProofs!IrqByte, Serial!IrqReturn,
     ConsoleProofs!IrqReturn, Serial!PutLock, ConsoleProofs!PutLock,
     Serial!PutStore, ConsoleProofs!PutStore, Serial!PutCount,
     ConsoleProofs!PutCount, Serial!Nothing, ConsoleProofs!Nothing, Serial!Wfi,
     ConsoleProofs!Wfi, Serial!Consume, ConsoleProofs!Consume, Serial!GetLock,
     ConsoleProofs!GetLock, Serial!GetRead, ConsoleProofs!GetRead,
     Serial!GetCount, ConsoleProofs!GetCount, Serial!Poll, ConsoleProofs!Poll,
     Serial!ring, ConsoleProofs!ring, Serial!history, ConsoleProofs!history,
     Serial!InOS, ConsoleProofs!InOS, Serial!Goto, ConsoleProofs!Goto,
     Serial!Lock, ConsoleProofs!Lock, Serial!Room, ConsoleProofs!Room,
     Serial!Unlock, ConsoleProofs!Unlock, Serial!Edit, ConsoleProofs!Edit,
     Serial!NextStart, ConsoleProofs!NextStart

LEMMA SameKept ==
  /\ ConsoleProofs!InOrder = Serial!InOrder
  /\ ConsoleProofs!NothingVanishes = Serial!NothingVanishes
  /\ ConsoleProofs!TypeOK = Serial!TypeOK
BY DEF
     Serial!InOrder, ConsoleProofs!InOrder, Serial!NothingVanishes,
     ConsoleProofs!NothingVanishes, Serial!TypeOK, ConsoleProofs!TypeOK,
     Serial!Contents, ConsoleProofs!Contents, Serial!InFlight,
     ConsoleProofs!InFlight, Serial!Ids, ConsoleProofs!Ids, Serial!NoChar,
     ConsoleProofs!NoChar, Serial!Readers, ConsoleProofs!Readers, Serial!InOS,
     ConsoleProofs!InOS, Serial!ToSet, ConsoleProofs!ToSet

LEMMA SameConsoleSpec == Serial!Spec => ConsoleProofs!Spec
<1>1. Serial!Init => ConsoleProofs!Init
  BY SameConsole
<1>2. [Serial!Next]_Serial!vars => [ConsoleProofs!Next]_ConsoleProofs!vars
  BY SameConsole DEF Serial!vars, ConsoleProofs!vars
<1> QED
  BY <1>1, <1>2, PTL DEF Serial!Spec, ConsoleProofs!Spec

LEMMA ConsoleConstantsGood == ConsoleProofs!SbiConsoleConstants
BY DevicesAssumption DEF ConsoleProofs!SbiConsoleConstants, ConsoleProofs!Readers

\* Characters stay in order and none vanishes, for any number of harts that read and
\* rings of any size (ring_buff.c, uart.c) ...
THEOREM CharactersKeptThm == Serial!Spec => []CharactersKept
<1>1. ConsoleProofs!SbiConsoleConstants
  BY ConsoleConstantsGood
<1>2. ConsoleProofs!Spec
        => [](ConsoleProofs!TypeOK /\ ConsoleProofs!InOrder /\ ConsoleProofs!NothingVanishes)
  BY <1>1, ConsoleProofs!CharactersAlwaysKept
<1>3. ConsoleProofs!TypeOK /\ ConsoleProofs!InOrder /\ ConsoleProofs!NothingVanishes
        => CharactersKept
  BY SameKept DEF CharactersKept
<1> QED
  BY <1>2, <1>3, SameConsoleSpec, PTL

\* ... and the ring with its lock is a bounded FIFO (ring_buff.c:11-34).
THEOREM RingIsFifoThm == Serial!Spec => RingIsFifo
<1>1. ConsoleProofs!SbiConsoleConstants
  BY ConsoleConstantsGood
<1>2. ConsoleProofs!Spec => ConsoleProofs!RingIsFifo
  BY <1>1, ConsoleProofs!RingAlwaysFifo
<1>3. ConsoleProofs!RingIsFifo => RingIsFifo
  BY DEF RingIsFifo,
     Serial!Fifo!Spec, Serial!Fifo!Init, Serial!Fifo!Next, Serial!Fifo!Put,
     Serial!Fifo!Get, ConsoleProofs!Fifo!Spec, ConsoleProofs!Fifo!Init,
     ConsoleProofs!Fifo!Next, ConsoleProofs!Fifo!Put, ConsoleProofs!Fifo!Get,
     Serial!Contents, ConsoleProofs!Contents, Serial!Ids, ConsoleProofs!Ids,
     Serial!NoChar, ConsoleProofs!NoChar, Serial!Readers, ConsoleProofs!Readers,
     Serial!RingIsFifo, ConsoleProofs!RingIsFifo
<1> QED
  BY <1>2, <1>3, SameConsoleSpec, PTL

----------------------------------------------------------------------------
(* The block devices *)

DiskProofs == INSTANCE VirtioBlkProofs WITH
  QueueSize <- BlockQueue, Name <- "blk", dev <- blk, Acknowledged <- TRUE, MaxRequests <- 1

MinixProofs == INSTANCE VirtioBlkProofs WITH
  QueueSize <- BlockQueue, Name <- "minix", dev <- minix, Acknowledged <- FALSE,
  MaxRequests <- MaxReads

Ext4Proofs == INSTANCE VirtioBlkProofs WITH
  QueueSize <- BlockQueue, Name <- "ext4", dev <- ext4, Acknowledged <- FALSE,
  MaxRequests <- MaxReads

BlocksInv == DiskProofs!DevInv /\ MinixProofs!DevInv /\ Ext4Proofs!DevInv

LEMMA BlkConstantsGood ==
  DiskProofs!BlkConstants /\ MinixProofs!BlkConstants /\ Ext4Proofs!BlkConstants
BY DevicesAssumption DEF DiskProofs!BlkConstants, MinixProofs!BlkConstants,
   Ext4Proofs!BlkConstants

LEMMA SameDisk ==
  /\ Blocks!Disk!Init = DiskProofs!Init /\ Blocks!Disk!Idle = DiskProofs!Idle
  /\ Blocks!Disk!Next = DiskProofs!Next
  /\ Blocks!Disk!TypeOK = DiskProofs!TypeOK
  /\ Blocks!Disk!ChainsWhole = DiskProofs!ChainsWhole
BY DEF
     Blocks!Disk!Init, DiskProofs!Init, Blocks!Disk!Next, DiskProofs!Next,
     Blocks!Disk!TypeOK, DiskProofs!TypeOK, Blocks!Disk!ChainsWhole,
     DiskProofs!ChainsWhole, Blocks!Disk!Idle, DiskProofs!Idle, Blocks!Disk!Descs,
     DiskProofs!Descs, Blocks!Disk!Blank, DiskProofs!Blank, Blocks!Disk!Rw,
     DiskProofs!Rw, Blocks!Disk!Serve, DiskProofs!Serve, Blocks!Disk!Isr,
     DiskProofs!Isr, Blocks!Disk!Published, DiskProofs!Published, Blocks!Disk!Chain,
     DiskProofs!Chain, Blocks!Disk!Parts, DiskProofs!Parts, Blocks!Disk!Start,
     DiskProofs!Start, Blocks!Disk!Pick, DiskProofs!Pick, Blocks!Disk!Fill,
     DiskProofs!Fill, Blocks!Disk!Load, DiskProofs!Load, Blocks!Disk!Bump,
     DiskProofs!Bump, Blocks!Disk!Publish, DiskProofs!Publish, Blocks!Disk!Poll,
     DiskProofs!Poll, Blocks!Disk!InFlight, DiskProofs!InFlight,
     Blocks!Disk!Picking, DiskProofs!Picking, Blocks!Disk!At, DiskProofs!At,
     Blocks!Disk!Descriptor, DiskProofs!Descriptor, Blocks!Disk!Follows,
     DiskProofs!Follows, Blocks!Disk!Filling, DiskProofs!Filling,
     Blocks!Disk!Offset, DiskProofs!Offset

LEMMA SameMinix ==
  /\ Blocks!Minix!Init = MinixProofs!Init /\ Blocks!Minix!Idle = MinixProofs!Idle
  /\ Blocks!Minix!Next = MinixProofs!Next
  /\ Blocks!Minix!TypeOK = MinixProofs!TypeOK
  /\ Blocks!Minix!ChainsWhole = MinixProofs!ChainsWhole
BY DEF
     Blocks!Minix!Init, MinixProofs!Init, Blocks!Minix!Next, MinixProofs!Next,
     Blocks!Minix!TypeOK, MinixProofs!TypeOK, Blocks!Minix!ChainsWhole,
     MinixProofs!ChainsWhole, Blocks!Minix!Idle, MinixProofs!Idle,
     Blocks!Minix!Descs, MinixProofs!Descs, Blocks!Minix!Blank, MinixProofs!Blank,
     Blocks!Minix!Rw, MinixProofs!Rw, Blocks!Minix!Serve, MinixProofs!Serve,
     Blocks!Minix!Isr, MinixProofs!Isr, Blocks!Minix!Published,
     MinixProofs!Published, Blocks!Minix!Chain, MinixProofs!Chain,
     Blocks!Minix!Parts, MinixProofs!Parts, Blocks!Minix!Start, MinixProofs!Start,
     Blocks!Minix!Pick, MinixProofs!Pick, Blocks!Minix!Fill, MinixProofs!Fill,
     Blocks!Minix!Load, MinixProofs!Load, Blocks!Minix!Bump, MinixProofs!Bump,
     Blocks!Minix!Publish, MinixProofs!Publish, Blocks!Minix!Poll, MinixProofs!Poll,
     Blocks!Minix!InFlight, MinixProofs!InFlight, Blocks!Minix!Picking,
     MinixProofs!Picking, Blocks!Minix!At, MinixProofs!At, Blocks!Minix!Descriptor,
     MinixProofs!Descriptor, Blocks!Minix!Follows, MinixProofs!Follows,
     Blocks!Minix!Filling, MinixProofs!Filling, Blocks!Minix!Offset,
     MinixProofs!Offset

LEMMA SameExt4 ==
  /\ Blocks!Ext4!Init = Ext4Proofs!Init /\ Blocks!Ext4!Idle = Ext4Proofs!Idle
  /\ Blocks!Ext4!Next = Ext4Proofs!Next
  /\ Blocks!Ext4!TypeOK = Ext4Proofs!TypeOK
  /\ Blocks!Ext4!ChainsWhole = Ext4Proofs!ChainsWhole
BY DEF
     Blocks!Ext4!Init, Ext4Proofs!Init, Blocks!Ext4!Next, Ext4Proofs!Next,
     Blocks!Ext4!TypeOK, Ext4Proofs!TypeOK, Blocks!Ext4!ChainsWhole,
     Ext4Proofs!ChainsWhole, Blocks!Ext4!Idle, Ext4Proofs!Idle, Blocks!Ext4!Descs,
     Ext4Proofs!Descs, Blocks!Ext4!Blank, Ext4Proofs!Blank, Blocks!Ext4!Rw,
     Ext4Proofs!Rw, Blocks!Ext4!Serve, Ext4Proofs!Serve, Blocks!Ext4!Isr,
     Ext4Proofs!Isr, Blocks!Ext4!Published, Ext4Proofs!Published, Blocks!Ext4!Chain,
     Ext4Proofs!Chain, Blocks!Ext4!Parts, Ext4Proofs!Parts, Blocks!Ext4!Start,
     Ext4Proofs!Start, Blocks!Ext4!Pick, Ext4Proofs!Pick, Blocks!Ext4!Fill,
     Ext4Proofs!Fill, Blocks!Ext4!Load, Ext4Proofs!Load, Blocks!Ext4!Bump,
     Ext4Proofs!Bump, Blocks!Ext4!Publish, Ext4Proofs!Publish, Blocks!Ext4!Poll,
     Ext4Proofs!Poll, Blocks!Ext4!InFlight, Ext4Proofs!InFlight,
     Blocks!Ext4!Picking, Ext4Proofs!Picking, Blocks!Ext4!At, Ext4Proofs!At,
     Blocks!Ext4!Descriptor, Ext4Proofs!Descriptor, Blocks!Ext4!Follows,
     Ext4Proofs!Follows, Blocks!Ext4!Filling, Ext4Proofs!Filling,
     Blocks!Ext4!Offset, Ext4Proofs!Offset

LEMMA SameIdle == DiskProofs!Idle = MinixProofs!Idle /\ DiskProofs!Idle = Ext4Proofs!Idle
BY DEF DiskProofs!Idle, MinixProofs!Idle, Ext4Proofs!Idle, DiskProofs!Parts,
   MinixProofs!Parts, Ext4Proofs!Parts

\* A step of one device, or of a call to it, is a step of somebody else for the others.
LEMMA BlocksStep ==
  ASSUME BlocksInv, [Blocks!Next]_Blocks!vars
  PROVE  BlocksInv'
<1> USE BlkConstantsGood
<1>1. DiskProofs!DevInv /\ MinixProofs!DevInv /\ Ext4Proofs!DevInv
  BY DEF BlocksInv
<1>2. CASE DiskProofs!Next /\ minix' = minix /\ ext4' = ext4
  <2>1. DiskProofs!DevInv'
    BY <1>1, <1>2, DiskProofs!BlkStep
  <2>2. call' = call \/ (call'.dev = "blk" /\ (call.dev # "blk" => call.pc = "idle"))
    BY <1>1, <1>2, DiskProofs!BlkCall
  <2>3. MinixProofs!DevInv'
    BY <1>1, <1>2, <2>2, MinixProofs!OthersStep
  <2>4. Ext4Proofs!DevInv'
    BY <1>1, <1>2, <2>2, Ext4Proofs!OthersStep
  <2> QED
    BY <2>1, <2>3, <2>4 DEF BlocksInv
<1>3. CASE MinixProofs!Next /\ blk' = blk /\ ext4' = ext4
  <2>1. MinixProofs!DevInv'
    BY <1>1, <1>3, MinixProofs!BlkStep
  <2>2. call' = call \/ (call'.dev = "minix" /\ (call.dev # "minix" => call.pc = "idle"))
    BY <1>1, <1>3, MinixProofs!BlkCall
  <2>3. DiskProofs!DevInv'
    BY <1>1, <1>3, <2>2, DiskProofs!OthersStep
  <2>4. Ext4Proofs!DevInv'
    BY <1>1, <1>3, <2>2, Ext4Proofs!OthersStep
  <2> QED
    BY <2>1, <2>3, <2>4 DEF BlocksInv
<1>4. CASE Ext4Proofs!Next /\ blk' = blk /\ minix' = minix
  <2>1. Ext4Proofs!DevInv'
    BY <1>1, <1>4, Ext4Proofs!BlkStep
  <2>2. call' = call \/ (call'.dev = "ext4" /\ (call.dev # "ext4" => call.pc = "idle"))
    BY <1>1, <1>4, Ext4Proofs!BlkCall
  <2>3. DiskProofs!DevInv'
    BY <1>1, <1>4, <2>2, DiskProofs!OthersStep
  <2>4. MinixProofs!DevInv'
    BY <1>1, <1>4, <2>2, MinixProofs!OthersStep
  <2> QED
    BY <2>1, <2>3, <2>4 DEF BlocksInv
<1>5. CASE UNCHANGED Blocks!vars
  <2>1. blk' = blk /\ minix' = minix /\ ext4' = ext4 /\ call' = call
    BY <1>5 DEF Blocks!vars
  <2> QED
    BY <1>1, <2>1, DiskProofs!OthersStep, MinixProofs!OthersStep, Ext4Proofs!OthersStep
       DEF BlocksInv
<1>6. CASE Blocks!Next
  <2>1. CASE Blocks!DiskStep
    BY <1>2, <2>1, SameDisk DEF Blocks!DiskStep
  <2>2. CASE Blocks!MinixStep
    BY <1>3, <2>2, SameMinix DEF Blocks!MinixStep
  <2>3. CASE Blocks!Ext4Step
    BY <1>4, <2>3, SameExt4 DEF Blocks!Ext4Step
  <2> QED
    BY <1>6, <2>1, <2>2, <2>3 DEF Blocks!Next
<1> QED
  BY <1>5, <1>6

\* The books of the three disks: whatever the interleaving of calls and devices, at_idx
\* counts three for each request, and the open requests lie apart in the table
\* (virtioblk.c:91-142).
THEOREM BlocksInvariant == Blocks!Spec => []BlocksInv
<1>1. Blocks!Init => BlocksInv
  <2>1. SUFFICES ASSUME Blocks!Init PROVE BlocksInv
    OBVIOUS
  <2>2. /\ DiskProofs!Init /\ MinixProofs!Init /\ Ext4Proofs!Init
        /\ call = DiskProofs!Idle
    BY <2>1, SameDisk, SameMinix, SameExt4 DEF Blocks!Init, Blocks!MinixInit, Blocks!Ext4Init
  <2> QED
    BY <2>2, SameIdle, BlkConstantsGood, DiskProofs!BlkInitial, MinixProofs!BlkInitial,
       Ext4Proofs!BlkInitial DEF BlocksInv
<1>2. BlocksInv /\ [Blocks!Next]_Blocks!vars => BlocksInv'
  BY BlocksStep
<1> QED
  BY <1>1, <1>2, PTL DEF Blocks!Spec

LEMMA BlocksGood == BlocksInv => Blocks!TypeOK /\ Blocks!ChainsWhole
<1>1. SUFFICES ASSUME BlocksInv PROVE Blocks!TypeOK /\ Blocks!ChainsWhole
  OBVIOUS
<1>2. DiskProofs!TypeOK /\ MinixProofs!TypeOK /\ Ext4Proofs!TypeOK
  BY <1>1, BlkConstantsGood, DiskProofs!BlkTypes, MinixProofs!BlkTypes, Ext4Proofs!BlkTypes
     DEF BlocksInv
<1>3. DiskProofs!ChainsWhole /\ MinixProofs!ChainsWhole /\ Ext4Proofs!ChainsWhole
  BY <1>1, BlkConstantsGood, DiskProofs!BlkChains, MinixProofs!BlkChains,
     Ext4Proofs!BlkChains DEF BlocksInv
<1> QED
  BY <1>2, <1>3, SameDisk, SameMinix, SameExt4 DEF Blocks!TypeOK, Blocks!ChainsWhole

----------------------------------------------------------------------------
(* All of the devices *)

\* A device only finds whole requests behind the heads it is given, the disks whole chains
\* and the random number device the buffer of the call (virtioblk.c:91-142, virtio.c:79-90).
THEOREM ChainsAlwaysWhole == Blocks!Spec /\ Rng!Spec => []ChainsWhole
<1>1. BlocksInv /\ RngInv => ChainsWhole
  BY BlocksGood DEF RngInv, ChainsWhole
<1> QED
  BY <1>1, BlocksInvariant, RngInvariant, PTL

\* Types of all four groups of devices.
THEOREM DevicesTypes == Spec /\ Blocks!Spec /\ Rng!Spec /\ Serial!Spec => []TypesOK
<1>1. Spec => []TypeOK
  BY PciTypesAlways
<1>2. Serial!Spec => []Serial!TypeOK
  <2>1. ConsoleProofs!Spec
          => [](ConsoleProofs!TypeOK /\ ConsoleProofs!InOrder /\ ConsoleProofs!NothingVanishes)
    BY ConsoleConstantsGood, ConsoleProofs!CharactersAlwaysKept
  <2>2. ConsoleProofs!TypeOK => Serial!TypeOK
    BY SameKept
  <2> QED
    BY <2>1, <2>2, SameConsoleSpec, PTL
<1>3. TypeOK /\ BlocksInv /\ RngInv /\ Serial!TypeOK => TypesOK
  BY BlocksGood DEF RngInv, TypesOK
<1> QED
  BY <1>1, <1>2, <1>3, BlocksInvariant, RngInvariant, PTL

----------------------------------------------------------------------------
(* The picture and the display *)

Squares == 0 .. width * height - 1

Rects == [x : Nat, y : Nat, width : Nat, height : Nat]

\* The picture is of the size that paint() draws for, or larger, no command was refused,
\* and the pen was across no edge.
Fits == refused = 0 /\ cut = FALSE /\ width * Unit >= 640 /\ height * Unit >= 480

ScreenTypes ==
  /\ width \in Nat /\ height \in Nat /\ refused \in Nat /\ strip \in 1 .. 7
  /\ cut \in BOOLEAN /\ penX \in Nat /\ penY \in Nat /\ rect \in Rects
  /\ resource = [exists |-> resource.exists, backed |-> resource.backed,
                 scanout |-> resource.scanout, picture |-> resource.picture]
  /\ draw \notin {"transfer", "flush", "again", "loop"} => strip <= 6
  /\ draw = "info" => width = 0
  /\ draw \notin {"info", "failed"} =>
       /\ pixels = [c \in Squares |-> pixels[c]]
       /\ shown = [c \in Squares |-> shown[c]]

\* How far gpu_init has got, as the GPU sees it.
Prepared ==
  /\ draw \notin {"info", "create", "failed"} => resource.exists = TRUE
  /\ draw \notin {"info", "create", "attach", "failed"} => resource.backed = TRUE
  /\ draw \notin {"info", "create", "attach", "scanout", "failed"} => resource.scanout = TRUE

\* What was filled since the last redraw lies in rect, and each command brings it on.
Drawn ==
  /\ draw = "draw" => \A c \in Squares : resource.picture[c] = pixels[c]
  /\ draw \in {"palette", "loop", "again"} => shown = pixels
  /\ draw \in {"transfer", "flush"} =>
       \A c \in Squares : shown[c] = pixels[c] \/ c \in Screen!Cells(rect)
  /\ draw = "transfer" => Screen!Inside(rect) \/ shown = pixels
  /\ draw = "flush" => /\ Screen!Inside(rect)
                       /\ \A c \in Screen!Cells(rect) : resource.picture[c] = pixels[c]

ScreenInv == ScreenTypes /\ (Fits => Prepared /\ Drawn)

\* Rows and columns.
LEMMA RowAndColumn ==
  ASSUME NEW w \in Nat \ {0}, NEW h \in Nat, NEW c \in 0 .. w * h - 1
  PROVE  /\ c \div w \in 0 .. h - 1 /\ c % w \in 0 .. w - 1
         /\ c = (c \div w) * w + (c % w)
<1>1. PICK q, r : q = c \div w /\ r = c % w
  OBVIOUS
<1>2. q \in Int /\ r \in 0 .. w - 1 /\ c = w * q + r
  BY <1>1
<1>3. PICK p, a : p = w * q /\ a = w * h
  OBVIOUS
<1>4. p \in Int /\ a \in Int /\ c < a /\ c = p + r /\ c >= 0
  BY <1>2, <1>3
<1>5. q > h \/ q = h => p >= a
  <2>1. q > h => w * q - w * h >= w
    BY <1>2, DiskProofs!Times
  <2> QED
    BY <1>2, <1>3, <1>4, <2>1
<1>6. q < 0 => p <= 0 - w
  <2>1. 0 > q => w * 0 - w * q >= w
    BY <1>2, DiskProofs!Times
  <2> QED
    BY <1>2, <1>3, <1>4, <2>1
<1>7. q * w = w * q
  BY <1>2
<1>8. q < h
  BY <1>2, <1>4, <1>5
<1>9. q >= 0
  BY <1>2, <1>4, <1>6
<1>10. q \in 0 .. h - 1 /\ c = q * w + r
  BY <1>2, <1>3, <1>4, <1>7, <1>8, <1>9
<1> QED
  BY <1>1, <1>2, <1>10

LEMMA CellPlace ==
  ASSUME NEW w \in Nat \ {0}, NEW row \in Nat, NEW col \in 0 .. w - 1
  PROVE  (row * w + col) \div w = row /\ (row * w + col) % w = col
<1>1. PICK c \in Nat : c = row * w + col
  OBVIOUS
<1>2. PICK q, r : q = c \div w /\ r = c % w
  OBVIOUS
<1>3. q \in Int /\ r \in 0 .. w - 1 /\ c = w * q + r
  BY <1>1, <1>2
<1>4. PICK p, a : p = w * q /\ a = w * row
  OBVIOUS
<1>5. p \in Int /\ a \in Int /\ c = p + r /\ c = a + col
  BY <1>1, <1>3, <1>4
<1>6. q > row => p - a >= w
  BY <1>3, <1>4, DiskProofs!Times
<1>7. row > q => a - p >= w
  BY <1>3, <1>4, DiskProofs!Times
<1>8. q = row
  BY <1>3, <1>5, <1>6, <1>7
<1> QED
  BY <1>1, <1>2, <1>3, <1>4, <1>5, <1>8

LEMMA CellsOf ==
  ASSUME width \in Nat \ {0}, height \in Nat, NEW r \in Rects, NEW c
  PROVE  /\ c \in Screen!Cells(r) => c \in Squares
         /\ c \in Squares /\ r = Screen!Whole => c \in Screen!Cells(r)
<1>1. c \in Screen!Cells(r) => c \in Squares
  BY DEF Screen!Cells, Squares
<1>2. ASSUME c \in Squares, r = Screen!Whole
      PROVE  c \in Screen!Cells(r)
  <2>1. c \div width \in 0 .. height - 1 /\ c % width \in 0 .. width - 1
    BY <1>2, RowAndColumn DEF Squares
  <2>2. r.x = 0 /\ r.y = 0 /\ r.width = width /\ r.height = height
    BY <1>2 DEF Screen!Whole, Screen!Rect
  <2> QED
    BY <1>2, <2>1, <2>2 DEF Screen!Cells, Squares
<1> QED
  BY <1>1, <1>2

\* The offset into the backing is that of the rectangle's first square, and the GPU goes on
\* by a row of the picture.
LEMMA TransferCopies ==
  ASSUME ScreenTypes, width # 0, draw \notin {"info", "failed"}, NEW r \in Rects, NEW offset,
         offset = Screen!Offset(r) \/ (r = Screen!Whole /\ offset = 0),
         resource' = Screen!Transfer(r, offset)
  PROVE  /\ resource' = [exists |-> resource.exists, backed |-> resource.backed,
                         scanout |-> resource.scanout, picture |-> resource'.picture]
         /\ \A c \in Squares : resource'.picture[c] = IF c \in Screen!Cells(r) THEN pixels[c]
                                                      ELSE resource.picture[c]
<1>1. width \in Nat \ {0} /\ height \in Nat /\ DOMAIN pixels = Squares
  BY DEF ScreenTypes
<1>2. offset = r.x + r.y * width
  BY <1>1 DEF Screen!Offset, Screen!Whole, Screen!Rect
<1>3. ASSUME NEW c \in Squares
      PROVE  offset + Screen!Cell((c \div width) - r.y, (c % width) - r.x) = c
  <2>1. PICK w, q, d, y, x :
          w = width /\ q = c \div width /\ d = c % width /\ y = r.y /\ x = r.x
    OBVIOUS
  <2>2. w \in Nat \ {0} /\ q \in Nat /\ d \in Nat /\ y \in Nat /\ x \in Nat /\ c = q * w + d
    <3>1. /\ c \div width \in 0 .. height - 1 /\ c % width \in 0 .. width - 1
          /\ c = (c \div width) * width + (c % width)
      BY <1>1, RowAndColumn DEF Squares
    <3> QED
      BY <1>1, <2>1, <3>1 DEF Rects
  <2>3. (q - y) * w = q * w - y * w
    <3>1. \A a, b \in Nat, n \in Nat \ {0} : (a - b) * n = a * n - b * n
      OBVIOUS
    <3> QED
      BY <2>2, <3>1
  <2>4. q * w \in Nat /\ y * w \in Nat
    BY <2>1, <2>2
  <2>5. (x + y * w) + ((q - y) * w + (d - x)) = c
    BY <2>2, <2>3, <2>4
  <2> QED
    BY <1>2, <2>1, <2>5 DEF Screen!Cell
<1>4. PICK m : m = [c \in Squares |->
                      IF c \in Screen!Cells(r)
                      THEN pixels[offset + Screen!Cell((c \div width) - r.y, (c % width) - r.x)]
                      ELSE resource.picture[c]]
  OBVIOUS
<1>5. resource' = [resource EXCEPT !.picture = m]
  BY <1>1, <1>4 DEF Screen!Transfer
<1>6. \A c \in Squares : m[c] = IF c \in Screen!Cells(r) THEN pixels[c] ELSE resource.picture[c]
  BY <1>3, <1>4
<1>7. PICK old : old = [exists |-> resource.exists, backed |-> resource.backed,
                        scanout |-> resource.scanout, picture |-> resource.picture]
                 /\ resource = old
  BY DEF ScreenTypes
<1>8. resource' = [exists |-> resource.exists, backed |-> resource.backed,
                   scanout |-> resource.scanout, picture |-> m]
  BY <1>5, <1>7
<1> QED
  BY <1>6, <1>8

LEMMA FlushShows ==
  ASSUME ScreenTypes, draw \notin {"info", "failed"}, resource.scanout = TRUE, NEW r,
         shown' = Screen!Flush(r)
  PROVE  shown' = [c \in Squares |->
                     IF c \in Screen!Cells(r) THEN resource.picture[c] ELSE shown[c]]
<1>1. DOMAIN pixels = Squares
  BY DEF ScreenTypes
<1> QED
  BY <1>1 DEF Screen!Flush

\* fill_rect stays in the rectangle, and in the picture.
LEMMA FillStays ==
  ASSUME ScreenTypes, width # 0, draw \notin {"info", "failed"}, NEW r \in Rects, NEW ink,
         NEW m, m = Screen!fill_rect(r, ink)
  PROVE  /\ m = [c \in Squares |-> m[c]]
         /\ \A c \in Squares : m[c] = pixels[c] \/ c \in Screen!Cells(r)
         /\ Screen!Cells(r) = {} => m = pixels
<1>1. width \in Nat \ {0} /\ height \in Nat /\ pixels = [c \in Squares |-> pixels[c]]
  BY DEF ScreenTypes
<1>2. PICK bottom, right :
        /\ bottom = (IF r.y + r.height > height THEN height ELSE r.y + r.height)
        /\ right = (IF r.x + r.width > width THEN width ELSE r.x + r.width)
  OBVIOUS
<1> DEFINE there ==
      {Screen!Cell(row, col) : row \in r.y .. bottom - 1, col \in r.x .. right - 1}
<1>3. m = [c \in Squares |-> IF c \in there THEN ink ELSE pixels[c]]
  BY <1>1, <1>2 DEF Screen!fill_rect
<1>4. ASSUME NEW c \in Squares, c \in there
      PROVE  c \in Screen!Cells(r)
  <2>1. PICK row \in r.y .. bottom - 1, col \in r.x .. right - 1 : c = row * width + col
    BY <1>2, <1>4 DEF Screen!Cell
  <2>2. /\ row \in Nat /\ row \in r.y .. r.y + r.height - 1
        /\ col \in 0 .. width - 1 /\ col \in r.x .. r.x + r.width - 1
    BY <1>1, <1>2 DEF Rects
  <2>3. c \div width = row /\ c % width = col
    BY <1>1, <2>1, <2>2, CellPlace
  <2> QED
    BY <2>2, <2>3 DEF Screen!Cells, Squares
<1> HIDE DEF there
<1>5. Screen!Cells(r) = {} => m = pixels
  BY <1>1, <1>3, <1>4
<1> QED
  BY <1>3, <1>4, <1>5

\* The strips of colours lie in the picture, rounded to units as they are.
LEMMA Rounded ==
  ASSUME NEW a \in Nat, NEW b \in Nat
  PROVE  /\ a \div Unit \in Nat /\ b \div Unit \in Nat
         /\ \A w \in Nat : a + b <= w * Unit => (a \div Unit) + (b \div Unit) <= w
<1>1. PICK U \in Nat \ {0} : U = Unit
  BY ScreenAssumption
<1>2. PICK p \in Nat, r \in 0 .. U - 1 : a = U * p + r /\ p = a \div U
  <2>1. /\ a = U * (a \div U) + (a % U)
        /\ a \div U \in Nat /\ a % U \in 0 .. U - 1
    OBVIOUS
  <2> QED
    BY <2>1
<1>3. PICK q \in Nat, s \in 0 .. U - 1 : b = U * q + s /\ q = b \div U
  <2>1. /\ b = U * (b \div U) + (b % U)
        /\ b \div U \in Nat /\ b % U \in 0 .. U - 1
    OBVIOUS
  <2> QED
    BY <2>1
<1>4. ASSUME NEW w \in Nat, a + b <= w * U
      PROVE  p + q <= w
  <2>1. PICK x, y, z : x = U * p /\ y = U * q /\ z = U * w
    OBVIOUS
  <2>2. x \in Int /\ y \in Int /\ z \in Int /\ w * U = z
    BY <2>1
  <2>3. U * (p + q) = x + y
    BY <2>1
  <2>4. p + q > w => U * (p + q) - U * w >= U
    BY DiskProofs!Times
  <2> QED
    BY <1>2, <1>3, <1>4, <2>1, <2>2, <2>3, <2>4
<1> QED
  BY <1>1, <1>2, <1>3, <1>4

LEMMA StripsInside ==
  ASSUME width \in Nat, height \in Nat, NEW i \in 1 .. 6, NEW r,
         r = Screen!Rect(Screen!Strips[i][1] \div Unit, 0, Screen!Strips[i][2] \div Unit,
                         80 \div Unit)
  PROVE  r \in Rects /\ (width * Unit >= 640 /\ height * Unit >= 480 => Screen!Inside(r))
<1>1. PICK a \in Nat, b \in Nat :
        a = Screen!Strips[i][1] /\ b = Screen!Strips[i][2] /\ a + b <= 640
  BY DEF Screen!Strips
<1>2. /\ a \div Unit \in Nat /\ b \div Unit \in Nat /\ 80 \div Unit \in Nat
      /\ a + b <= width * Unit => (a \div Unit) + (b \div Unit) <= width
      /\ 0 + 80 <= height * Unit => (0 \div Unit) + (80 \div Unit) <= height
      /\ 0 \div Unit \in Nat
  BY Rounded
<1>3. PICK U \in Nat \ {0} : U = Unit
  BY ScreenAssumption
<1>4. width * U \in Int /\ height * U \in Int
  BY <1>3
<1> QED
  BY <1>1, <1>2, <1>3, <1>4 DEF Screen!Rect, Screen!Inside, Rects

Commands == Screen!Create2D \/ Screen!AttachBacking \/ Screen!SetScanout \/ Screen!FirstTransfer
            \/ Screen!FirstFlush \/ Screen!RedrawTransfer \/ Screen!RedrawFlush
            \/ Screen!RedrawAgain

\* A command changes neither the picture in memory nor what paint() has.
LEMMA CommandKeeps ==
  ASSUME Commands, ScreenTypes
  PROVE  /\ UNCHANGED <<width, height, pixels, strip, rect, penX, penY, cut>>
         /\ refused' \in {refused, refused + 1}
         /\ draw \notin {"info", "failed", "background", "palette", "loop"}
         /\ draw' # "info"
         /\ draw' \notin {"transfer", "flush", "again", "loop"} => strip <= 6
         /\ Squares' = Squares
<1> USE DEF ScreenTypes, Screen!Command, Screen!Keeps, Screen!drawing, Squares
<1>1. CASE Screen!Create2D
  BY <1>1 DEF Screen!Create2D
<1>2. CASE Screen!AttachBacking
  BY <1>2 DEF Screen!AttachBacking
<1>3. CASE Screen!SetScanout
  BY <1>3 DEF Screen!SetScanout
<1>4. CASE Screen!FirstTransfer
  BY <1>4 DEF Screen!FirstTransfer
<1>5. CASE Screen!FirstFlush
  BY <1>5 DEF Screen!FirstFlush
<1>6. CASE Screen!RedrawTransfer
  BY <1>6 DEF Screen!RedrawTransfer, Screen!Back
<1>7. CASE Screen!RedrawFlush
  BY <1>7 DEF Screen!RedrawFlush
<1>8. CASE Screen!RedrawAgain
  BY <1>8 DEF Screen!RedrawAgain, Screen!Back
<1> QED
  BY <1>1, <1>2, <1>3, <1>4, <1>5, <1>6, <1>7, <1>8 DEF Commands

\* What the GPU has after a command.
LEMMA CommandResource ==
  ASSUME Commands, ScreenTypes
  PROVE  /\ resource' = [exists |-> resource'.exists, backed |-> resource'.backed,
                         scanout |-> resource'.scanout, picture |-> resource'.picture]
         /\ shown' = [c \in Squares |-> shown'[c]]
<1>1. PICK a, b, d, p : a = resource.exists /\ b = resource.backed /\ d = resource.scanout
                        /\ p = resource.picture
  OBVIOUS
<1>2. resource = [exists |-> a, backed |-> b, scanout |-> d, picture |-> p]
  BY <1>1 DEF ScreenTypes
<1>3. draw \notin {"info", "failed"}
  BY CommandKeeps
<1>4. shown = [c \in Squares |-> shown[c]] /\ DOMAIN pixels = Squares
  BY <1>3 DEF ScreenTypes
<1>5. \/ resource' = resource
      \/ resource' = [resource EXCEPT !.exists = TRUE, !.picture = shown]
      \/ resource' = [resource EXCEPT !.backed = TRUE]
      \/ resource' = [resource EXCEPT !.scanout = TRUE]
      \/ \E m : resource' = [resource EXCEPT !.picture = m]
  BY DEF Commands, Screen!Create2D, Screen!AttachBacking, Screen!SetScanout,
     Screen!FirstTransfer, Screen!FirstFlush, Screen!RedrawTransfer, Screen!RedrawFlush,
     Screen!RedrawAgain, Screen!Command, Screen!Transfer
<1>6. shown' = shown \/ \E r : shown' = Screen!Flush(r)
  BY DEF Commands, Screen!Create2D, Screen!AttachBacking, Screen!SetScanout,
     Screen!FirstTransfer, Screen!FirstFlush, Screen!RedrawTransfer, Screen!RedrawFlush,
     Screen!RedrawAgain, Screen!Command
<1>7. \E e, f, g, h : resource' = [exists |-> e, backed |-> f, scanout |-> g, picture |-> h]
  BY <1>2, <1>5
<1>8. \E f : shown' = [c \in Squares |-> f[c]]
  BY <1>4, <1>6 DEF Screen!Flush
<1> QED
  BY <1>7, <1>8

LEMMA FillShape ==
  ASSUME ScreenTypes, draw \notin {"info", "failed"}, NEW r, NEW ink
  PROVE  Screen!fill_rect(r, ink) = [c \in Squares |-> Screen!fill_rect(r, ink)[c]]
<1>1. DOMAIN pixels = Squares
  BY DEF ScreenTypes
<1>2. \E f : Screen!fill_rect(r, ink) = [c \in Squares |-> f[c]]
  <2> DEFINE bottom == IF r.y + r.height > height THEN height ELSE r.y + r.height
             right  == IF r.x + r.width > width THEN width ELSE r.x + r.width
             there  ==
               {Screen!Cell(row, col) : row \in r.y .. bottom - 1, col \in r.x .. right - 1}
  <2>1. Screen!fill_rect(r, ink) = [c \in Squares |-> IF c \in there THEN ink ELSE pixels[c]]
    BY <1>1 DEF Screen!fill_rect
  <2> HIDE DEF there
  <2>2. PICK f : f = [c \in Squares |-> IF c \in there THEN ink ELSE pixels[c]]
    OBVIOUS
  <2>3. f = [c \in Squares |-> f[c]]
    BY <2>2
  <2> QED
    BY <2>1, <2>2, <2>3
<1> QED
  BY <1>2

LEMMA ScreenTypesStep ==
  ASSUME ScreenTypes, Screen!Next
  PROVE  ScreenTypes'
<1>1. CASE Screen!DisplayInfo
  <2>1. /\ UNCHANGED <<resource, strip, rect, penX, penY, cut>>
        /\ draw' \in {"create", "failed"}
        /\ strip <= 6
    BY <1>1 DEF Screen!DisplayInfo, Screen!drawing, ScreenTypes
  <2>2. CASE draw' = "create"
    <3>1. PICK d \in Displays : width' = d[1] /\ height' = d[2]
      BY <1>1, <2>2 DEF Screen!DisplayInfo
    <3>2. width' \in Nat /\ height' \in Nat
      BY <3>1, ScreenAssumption
    <3>3. pixels' = [c \in Squares' |-> "zero"] /\ shown' = pixels' /\ refused' = refused
      BY <1>1, <2>2 DEF Screen!DisplayInfo, Squares
    <3> QED
      BY <2>1, <2>2, <3>2, <3>3 DEF ScreenTypes
  <2>3. CASE draw' = "failed"
    <3>1. UNCHANGED <<width, height>> /\ refused' = refused + 1
      BY <1>1, <2>3 DEF Screen!DisplayInfo
    <3> QED
      BY <2>1, <2>3, <3>1 DEF ScreenTypes
  <2> QED
    BY <2>1, <2>2, <2>3
<1>2. CASE Commands
  BY <1>2, CommandKeeps, CommandResource DEF ScreenTypes
<1>3. CASE Screen!Background
  <2>1. /\ UNCHANGED <<width, height, resource, shown, strip, rect, penX, penY, cut, refused>>
        /\ draw = "background" /\ draw' = "first" /\ Squares' = Squares
    BY <1>3 DEF Screen!Background, Screen!drawing, Squares
  <2>2. pixels' = [c \in Squares |-> "white"]
    BY <1>3, <2>1 DEF Screen!Background, ScreenTypes
  <2> QED
    BY <2>1, <2>2 DEF ScreenTypes
<1>4. CASE Screen!Palette
  <2>1. /\ UNCHANGED <<width, height, resource, shown, penX, penY, cut, refused>>
        /\ draw = "palette" /\ draw' = "transfer" /\ Squares' = Squares /\ strip' = strip + 1
        /\ \E ink : pixels' = Screen!fill_rect(rect', ink)
    BY <1>4 DEF Screen!Palette, Screen!Fills, Squares
  <2>2. pixels' = [c \in Squares |-> pixels'[c]]
    BY <2>1, FillShape
  <2>3. strip \in 1 .. 6
    BY <2>1 DEF ScreenTypes
  <2>4. rect' = Screen!Rect(Screen!Strips[strip][1] \div Unit, 0,
                            Screen!Strips[strip][2] \div Unit, 80 \div Unit)
    BY <1>4 DEF Screen!Palette, Screen!Fills
  <2>5. rect' \in Rects
    BY <2>3, <2>4, StripsInside DEF ScreenTypes
  <2> QED
    BY <2>1, <2>2, <2>3, <2>5 DEF ScreenTypes
<1>5. CASE Screen!Turn
  <2>1. /\ UNCHANGED <<width, height, resource, shown, strip, refused>>
        /\ draw = "loop" /\ draw' \in {"loop", "transfer"} /\ Squares' = Squares
        /\ cut' \in BOOLEAN
    BY <1>5 DEF Screen!Turn, Screen!Fills, Squares, ScreenTypes
  <2>2. penX' \in Nat /\ penY' \in Nat
    <3>1. \A v \in Coordinates : (v \div Full) * (640 \div Unit) \in Nat
                                 /\ (v \div Full) * (480 \div Unit) \in Nat
      <4>1. \A v \in Nat, n \in Nat \ {0} : v \div n \in Nat
        OBVIOUS
      <4>2. \A v, n \in Nat : v * n \in Nat
        OBVIOUS
      <4> QED
        BY <4>1, <4>2, ScreenAssumption
    <3>2. \/ UNCHANGED <<penX, penY>>
          \/ \E v \in Coordinates : penX' = (v \div Full) * (640 \div Unit) /\ penY' = penY
          \/ \E v \in Coordinates : penY' = (v \div Full) * (480 \div Unit) /\ penX' = penX
      BY <1>5 DEF Screen!Turn
    <3> QED
      BY <3>1, <3>2 DEF ScreenTypes
  <2>3. \/ /\ rect' = Screen!Rect(penX', penY', Pen, Pen) /\ draw' = "transfer"
           /\ pixels' = Screen!fill_rect(rect', color')
        \/ UNCHANGED <<rect, pixels, draw>>
    BY <1>5 DEF Screen!Turn, Screen!Fills
  <2>4. pixels' = [c \in Squares |-> pixels'[c]]
    <3>1. Screen!fill_rect(rect', color')
            = [c \in Squares |-> Screen!fill_rect(rect', color')[c]]
      BY <2>1, FillShape
    <3> QED
      BY <2>1, <2>3, <3>1 DEF ScreenTypes
  <2>5. rect' \in Rects
    BY <2>2, <2>3, ScreenAssumption DEF ScreenTypes, Rects, Screen!Rect
  <2> QED
    BY <2>1, <2>2, <2>4, <2>5 DEF ScreenTypes
<1> QED
  BY <1>1, <1>2, <1>3, <1>4, <1>5 DEF Screen!Next, Commands

\* Of a rectangle that is filled all is shown but what lies in it.
LEMMA FillBrings ==
  ASSUME ScreenTypes, Prepared, Drawn, width # 0,
         draw \in {"palette", "loop"}, draw' = "transfer",
         UNCHANGED <<width, height, resource, shown>>, rect' \in Rects,
         \E ink : pixels' = Screen!fill_rect(rect', ink),
         ~Screen!Across(rect')
  PROVE  Prepared' /\ Drawn'
<1>1. PICK r, ink : r = rect' /\ pixels' = Screen!fill_rect(r, ink)
  OBVIOUS
<1>2. r \in Rects /\ draw \notin {"info", "failed"} /\ shown = pixels
  BY <1>1 DEF Drawn
<1>3. /\ \A c \in Squares : pixels'[c] = pixels[c] \/ c \in Screen!Cells(r)
      /\ Screen!Inside(r) \/ pixels' = pixels
  BY <1>1, <1>2, FillStays DEF Screen!Across
<1>4. Squares' = Squares
  BY DEF Squares
<1>5. \A c : c \in Screen!Cells(r) <=> (c \in Screen!Cells(rect))'
  BY <1>1 DEF Screen!Cells
<1>6. Screen!Inside(r) <=> (Screen!Inside(rect))'
  BY <1>1 DEF Screen!Inside
<1>7. Prepared'
  BY DEF Prepared
<1>8. \A c \in Squares' : shown'[c] = pixels'[c] \/ (c \in Screen!Cells(rect))'
  BY <1>2, <1>3, <1>4, <1>5
<1>9. (Screen!Inside(rect))' \/ shown' = pixels'
  BY <1>2, <1>3, <1>6
<1>10. Drawn'
  BY <1>8, <1>9 DEF Drawn
<1> QED
  BY <1>7, <1>10

\* Each command brings the display nearer to the picture.
LEMMA CommandsBring ==
  ASSUME ScreenTypes, Prepared, Drawn, Commands, width # 0, refused' = refused
  PROVE  Prepared' /\ Drawn'
<1>1. /\ UNCHANGED <<width, height, pixels, rect>> /\ Squares' = Squares
      /\ draw \notin {"info", "failed"} /\ refused # refused + 1
      /\ rect \in Rects
  BY CommandKeeps DEF ScreenTypes
<1>2. \A c : c \in Screen!Cells(rect) <=> (c \in Screen!Cells(rect))'
  BY <1>1 DEF Screen!Cells
<1>3. Screen!Inside(rect) <=> (Screen!Inside(rect))'
  BY <1>1 DEF Screen!Inside
<1>4. Screen!Whole \in Rects /\ Screen!Inside(Screen!Whole)
  BY DEF ScreenTypes, Screen!Whole, Screen!Rect, Rects, Screen!Inside
<1>5. \A c \in Squares : c \in Screen!Cells(Screen!Whole)
  BY <1>4, CellsOf DEF ScreenTypes
<1>6. CASE Screen!Create2D
  <2>1. PICK a, b, d, p : resource = [exists |-> a, backed |-> b, scanout |-> d, picture |-> p]
    BY DEF ScreenTypes
  <2>2. draw' = "attach" /\ resource' = [resource EXCEPT !.exists = TRUE, !.picture = shown]
    BY <1>1, <1>6 DEF Screen!Create2D, Screen!Command, Screen!Accepted
  <2>3. resource'.exists = TRUE
    BY <2>1, <2>2
  <2> QED
    BY <2>2, <2>3 DEF Prepared, Drawn
<1>7. CASE Screen!AttachBacking
  <2>1. PICK a, b, d, p : resource = [exists |-> a, backed |-> b, scanout |-> d, picture |-> p]
    BY DEF ScreenTypes
  <2>2. draw = "attach" /\ resource.exists = TRUE
    BY <1>7 DEF Prepared, Screen!AttachBacking, Screen!Command
  <2>3. draw' = "scanout" /\ resource' = [resource EXCEPT !.backed = TRUE]
    BY <1>1, <1>7, <2>2 DEF Screen!AttachBacking, Screen!Command, Screen!Accepted
  <2>4. resource'.exists = TRUE /\ resource'.backed = TRUE
    BY <2>1, <2>2, <2>3
  <2> QED
    BY <2>3, <2>4 DEF Prepared, Drawn
<1>8. CASE Screen!SetScanout
  <2>1. PICK a, b, d, p : resource = [exists |-> a, backed |-> b, scanout |-> d, picture |-> p]
    BY DEF ScreenTypes
  <2>2. draw = "scanout" /\ resource.exists = TRUE /\ resource.backed = TRUE
    BY <1>8 DEF Prepared, Screen!SetScanout, Screen!Command
  <2>3. draw' = "background" /\ resource' = [resource EXCEPT !.scanout = TRUE]
    BY <1>1, <1>8, <2>2 DEF Screen!SetScanout, Screen!Command, Screen!Accepted
  <2>4. resource'.exists = TRUE /\ resource'.backed = TRUE /\ resource'.scanout = TRUE
    BY <2>1, <2>2, <2>3
  <2> QED
    BY <2>3, <2>4 DEF Prepared, Drawn
<1>9. ASSUME draw \notin {"create", "attach", "scanout"}
      PROVE  /\ resource.exists = TRUE /\ resource.backed = TRUE /\ resource.scanout = TRUE
             /\ \A r : Screen!Accepted(r) <=> Screen!Inside(r)
  <2>1. resource.exists = TRUE /\ resource.backed = TRUE /\ resource.scanout = TRUE
    BY <1>1, <1>9, CommandKeeps DEF Prepared
  <2> QED
    BY <1>9, <2>1 DEF Screen!Accepted
<1>10. CASE Screen!FirstTransfer
  <2>1. draw = "first"
    BY <1>10 DEF Screen!FirstTransfer, Screen!Command
  <2>2. draw' = "draw" /\ resource' = Screen!Transfer(Screen!Whole, 0)
    BY <1>1, <1>4, <1>9, <1>10, <2>1 DEF Screen!FirstTransfer, Screen!Command
  <2>3. /\ resource'.exists = resource.exists /\ resource'.backed = resource.backed
        /\ resource'.scanout = resource.scanout
        /\ \A c \in Squares : resource'.picture[c] = pixels[c]
    BY <1>1, <1>4, <1>5, <2>2, TransferCopies
  <2> QED
    BY <1>1, <1>9, <2>1, <2>2, <2>3 DEF Prepared, Drawn
<1>11. CASE Screen!FirstFlush
  <2>1. draw = "draw"
    BY <1>11 DEF Screen!FirstFlush, Screen!Command
  <2>2. draw' = "palette" /\ shown' = Screen!Flush(Screen!Whole) /\ resource' = resource
    BY <1>1, <1>4, <1>9, <1>11, <2>1 DEF Screen!FirstFlush, Screen!Command
  <2>3. shown' = [c \in Squares |-> IF c \in Screen!Cells(Screen!Whole) THEN resource.picture[c]
                                    ELSE shown[c]]
    BY <1>1, <1>9, <2>1, <2>2, FlushShows
  <2>4. /\ pixels = [c \in Squares |-> pixels[c]]
        /\ \A c \in Squares : resource.picture[c] = pixels[c]
    BY <1>1, <2>1 DEF ScreenTypes, Drawn
  <2>5. shown' = pixels'
    BY <1>1, <1>5, <2>3, <2>4
  <2> QED
    BY <1>9, <2>1, <2>2, <2>5 DEF Prepared, Drawn
<1>12. CASE Screen!RedrawTransfer
  <2>1. draw = "transfer" /\ \A c \in Squares : shown[c] = pixels[c] \/ c \in Screen!Cells(rect)
    BY <1>12 DEF Screen!RedrawTransfer, Screen!Command, Drawn
  <2>2. CASE Screen!Inside(rect)
    <3>1. /\ draw' = "flush" /\ shown' = shown
          /\ resource' = Screen!Transfer(rect, Screen!Offset(rect))
      BY <1>1, <1>9, <1>12, <2>1, <2>2 DEF Screen!RedrawTransfer, Screen!Command
    <3>2. /\ resource'.exists = resource.exists /\ resource'.backed = resource.backed
          /\ resource'.scanout = resource.scanout
          /\ \A c \in Squares : c \in Screen!Cells(rect) => resource'.picture[c] = pixels[c]
      BY <1>1, <3>1, TransferCopies
    <3>3. \A c : (c \in Screen!Cells(rect))' => c \in Squares
      BY <1>1, <1>2 DEF Screen!Cells, Squares
    <3>4. \A c \in (Screen!Cells(rect))' : resource'.picture[c] = pixels'[c]
      BY <1>1, <1>2, <3>2, <3>3
    <3>5. \A c \in Squares' : shown'[c] = pixels'[c] \/ (c \in Screen!Cells(rect))'
      BY <1>1, <1>2, <2>1, <3>1
    <3>6. (Screen!Inside(rect))'
      BY <1>3, <2>2
    <3>7. Drawn'
      BY <3>1, <3>4, <3>5, <3>6 DEF Drawn
    <3> QED
      BY <1>9, <2>1, <3>1, <3>2, <3>7 DEF Prepared
  <2>3. CASE ~Screen!Inside(rect)
    <3>1. draw' \in {"palette", "loop"} /\ resource' = resource /\ shown' = shown
      BY <1>1, <1>9, <1>12, <2>1, <2>3 DEF Screen!RedrawTransfer, Screen!Command, Screen!Back
    <3>2. shown' = pixels'
      BY <1>1, <2>1, <2>3, <3>1 DEF Drawn
    <3> QED
      BY <1>9, <2>1, <3>1, <3>2 DEF Prepared, Drawn
  <2> QED
    BY <2>2, <2>3
<1>13. CASE Screen!RedrawFlush
  <2>1. /\ draw = "flush" /\ Screen!Inside(rect)
        /\ \A c \in Squares : shown[c] = pixels[c] \/ c \in Screen!Cells(rect)
        /\ \A c \in Screen!Cells(rect) : resource.picture[c] = pixels[c]
    BY <1>13 DEF Screen!RedrawFlush, Screen!Command, Drawn
  <2>2. draw' = "again" /\ shown' = Screen!Flush(rect) /\ resource' = resource
    BY <1>1, <1>9, <1>13, <2>1 DEF Screen!RedrawFlush, Screen!Command
  <2>3. shown' = [c \in Squares |-> IF c \in Screen!Cells(rect) THEN resource.picture[c]
                                    ELSE shown[c]]
    BY <1>1, <1>9, <2>1, <2>2, FlushShows
  <2>4. pixels = [c \in Squares |-> pixels[c]]
    BY <1>1 DEF ScreenTypes
  <2>5. shown' = pixels'
    BY <1>1, <2>1, <2>3, <2>4
  <2> QED
    BY <1>9, <2>1, <2>2, <2>5 DEF Prepared, Drawn
<1>14. CASE Screen!RedrawAgain
  <2>1. draw = "again" /\ shown = pixels
    BY <1>14 DEF Screen!RedrawAgain, Screen!Command, Drawn
  <2>2. draw' \in {"palette", "loop"} /\ shown' = shown
    BY <1>14 DEF Screen!RedrawAgain, Screen!Command, Screen!Back
  <2>3. resource' = resource \/ resource' = Screen!Transfer(rect, Screen!Offset(rect))
    BY <1>14 DEF Screen!RedrawAgain, Screen!Command
  <2>4. /\ resource'.exists = resource.exists /\ resource'.backed = resource.backed
        /\ resource'.scanout = resource.scanout
    BY <1>1, <2>3, TransferCopies
  <2> QED
    BY <1>1, <1>9, <2>1, <2>2, <2>4 DEF Prepared, Drawn
<1> QED
  BY <1>6, <1>7, <1>8, <1>10, <1>11, <1>12, <1>13, <1>14 DEF Commands

LEMMA ScreenDrawnStep ==
  ASSUME ScreenTypes, Screen!Next, Fits => Prepared /\ Drawn, Fits'
  PROVE  Prepared' /\ Drawn'
<1>1. CASE Screen!DisplayInfo
  <2>1. draw' \in {"create", "failed"}
    BY <1>1 DEF Screen!DisplayInfo
  <2> QED
    BY <2>1 DEF Prepared, Drawn
<1>2. ASSUME ~Screen!DisplayInfo
      PROVE  Prepared' /\ Drawn'
  <2>1. width' = width /\ height' = height /\ (refused' = refused \/ refused' = refused + 1)
        /\ cut = FALSE
    BY <1>2, CommandKeeps DEF Screen!Next, Commands, Screen!Background, Screen!Palette,
       Screen!Turn, Screen!Fills, Screen!drawing, Fits, ScreenTypes
  <2>2. refused' = refused /\ Fits
    BY <2>1 DEF ScreenTypes, Fits
  <2>3. Prepared /\ Drawn
    BY <2>2
  <2>4. width # 0
    <3>1. PICK U \in Nat \ {0} : U = Unit
      BY ScreenAssumption
    <3> QED
      BY <2>2, <3>1 DEF Fits
  <2>5. CASE Commands
    BY <2>2, <2>3, <2>4, <2>5, CommandsBring
  <2>6. CASE Screen!Background
    <3>1. draw = "background" /\ draw' = "first" /\ resource' = resource
      BY <2>6 DEF Screen!Background
    <3> QED
      BY <2>3, <3>1 DEF Prepared, Drawn
  <2>7. CASE Screen!Palette
    <3>1. /\ UNCHANGED <<width, height, resource, shown>>
          /\ draw = "palette" /\ draw' = "transfer"
          /\ \E ink : pixels' = Screen!fill_rect(rect', ink)
      BY <2>7 DEF Screen!Palette, Screen!Fills
    <3>2. rect' = Screen!Rect(Screen!Strips[strip][1] \div Unit, 0,
                              Screen!Strips[strip][2] \div Unit, 80 \div Unit)
      BY <2>7 DEF Screen!Palette, Screen!Fills
    <3>3. strip \in 1 .. 6 /\ width \in Nat /\ height \in Nat
      BY <3>1 DEF ScreenTypes
    <3>4. rect' \in Rects /\ Screen!Inside(rect')
      BY <2>2, <3>2, <3>3, StripsInside DEF Fits
    <3>5. ~Screen!Across(rect')
      BY <3>4 DEF Screen!Across
    <3> QED
      BY <2>3, <2>4, <3>1, <3>4, <3>5, FillBrings
  <2>8. CASE Screen!Turn
    <3>1. UNCHANGED <<width, height, resource, shown>> /\ draw = "loop"
      BY <2>8 DEF Screen!Turn
    <3>2. CASE draw' = "transfer"
      <4>1. /\ cut' = (cut \/ Screen!Across(rect'))
            /\ \E ink : pixels' = Screen!fill_rect(rect', ink)
        BY <2>8, <3>1, <3>2 DEF Screen!Turn, Screen!Fills
      <4>2. rect' \in Rects /\ ~Screen!Across(rect')
        BY <4>1, ScreenTypesStep DEF ScreenTypes, Fits
      <4> QED
        BY <2>3, <2>4, <3>1, <3>2, <4>1, <4>2, FillBrings
    <3>3. CASE draw' # "transfer"
      <4>1. UNCHANGED <<rect, pixels, draw>>
        BY <2>8, <3>3 DEF Screen!Turn, Screen!Fills
      <4> QED
        BY <2>3, <3>1, <4>1 DEF Prepared, Drawn
    <3> QED
      BY <3>2, <3>3
  <2> QED
    BY <1>2, <2>5, <2>6, <2>7, <2>8 DEF Screen!Next, Commands
<1> QED
  BY <1>1, <1>2

\* Types, and the way of a rectangle from the picture to the display.
THEOREM ScreenInvariant == Screen!Spec => []ScreenInv
<1>1. Screen!Init => ScreenInv
  <2> SUFFICES ASSUME Screen!Init PROVE ScreenInv
    OBVIOUS
  <2>1. rect \in Rects
    BY Rounded DEF Screen!Init, Screen!Rect, Rects
  <2>2. penX \in Nat /\ penY \in Nat /\ width \in Nat /\ height \in Nat /\ refused \in Nat
    BY ScreenAssumption DEF Screen!Init
  <2>3. cut = FALSE /\ draw = "info" /\ strip = 1 /\ width = 0
    BY DEF Screen!Init
  <2>4. resource = [exists |-> resource.exists, backed |-> resource.backed,
                    scanout |-> resource.scanout, picture |-> resource.picture]
    BY DEF Screen!Init
  <2>5. cut \in BOOLEAN
    BY <2>3
  <2>6. ScreenTypes
    <3>1. strip \in 1 .. 7
      BY <2>3
    <3> QED
      BY <2>1, <2>2, <2>3, <2>4, <2>5, <3>1 DEF ScreenTypes
  <2>7. ~Fits
    <3>1. PICK U \in Nat \ {0} : U = Unit
      BY ScreenAssumption
    <3> QED
      BY <3>1 DEF Fits, Screen!Init
  <2> QED
    BY <2>6, <2>7 DEF ScreenInv
<1>2. ScreenInv /\ [Screen!Next]_(Screen!vars) => ScreenInv'
  <2>1. CASE Screen!Next
    BY <2>1, ScreenTypesStep, ScreenDrawnStep DEF ScreenInv
  <2>2. CASE UNCHANGED Screen!vars
    BY <2>2 DEF Screen!vars, ScreenInv, ScreenTypes, Fits, Prepared, Drawn, Squares,
       Screen!Cells, Screen!Inside
  <2> QED
    BY <2>1, <2>2
<1> QED
  BY <1>1, <1>2, PTL DEF Screen!Spec

\* On a display that is large enough, with no command refused, all that was filled is shown
\* whenever the loop of paint comes round, for any size of display and any events
\* (virtio_gpu.c:238-284, paint.c:28-134).
THEOREM ShownAlwaysDrawn == Screen!Spec => []ShownIsDrawn
<1>1. ScreenInv => ShownIsDrawn
  BY DEF ScreenInv, Fits, Drawn, ShownIsDrawn, Screen!ShownIsDrawn
<1> QED
  BY <1>1, ScreenInvariant, PTL

----------------------------------------------------------------------------
(* The enumeration of the bus *)

ListOf(n) == Registers[Bus!Kind(n)]

SizeOf(n, r) == size[Bus!Kind(n)][r]

Untouched(n) == n # work.node /\ \A r \in Bus!RegistersOf(n) : base[n][r] = None

Touched == {n \in Bus!Nodes : ~Untouched(n)}

BusTypes ==
  /\ size \in SizeChoices
  /\ bus \in [Ports -> 0 .. Cardinality(Ports)]
  /\ DOMAIN base = Bus!Nodes
  /\ \A n \in Bus!Nodes : base[n] \in [Bus!RegistersOf(n) -> Bus!BridgeWindow \cup {None}]
  /\ free \in Nat /\ shares \in Nat /\ step \in 1 .. 8
  /\ DOMAIN config = Bus!Structs /\ \A s \in Bus!Structs : DOMAIN config[s] = Bus!Pointers

\* The ports are numbered in their order, from the first one on.
PortsRanked ==
  \A p \in Ports :
    /\ bus[p] \in {0, Bus!Rank(p)}
    /\ bus[p] = 0 => \A q \in Ports : p < q => bus[q] = 0

\* What is left of the list at work begins with its k-th register, and has room in the share.
WorkFrom(k) ==
  /\ work = [node |-> work.node, left |-> SubSeq(ListOf(work.node), k, Len(ListOf(work.node)))]
  /\ \A i \in 1 .. Len(ListOf(work.node)) : base[work.node][ListOf(work.node)[i]] = None <=> k <= i
  /\ Stride * shares <= free
  /\ free + 2 * Pad * (Len(ListOf(work.node)) + 1 - k) <= Stride * shares + Stride

WorkHalfway ==
  \/ work = Bus!Idle /\ free = Stride * shares
  \/ work.node \in Bus!Nodes /\ \E k \in 1 .. Len(ListOf(work.node)) + 1 : WorkFrom(k)

\* All addresses are in earlier shares, or in front of the padding.
BelowFree ==
  \A v \in Bus!Allocated : Bus!To(v) < Stride * shares \/ Bus!To(v) + Pad < free

\* Every share belongs to another node, one to the host bridge.
HostShare == IF Bus!Host \in drivers THEN 1 ELSE 0

SharesCounted ==
  shares + (IF work = Bus!Idle THEN 0 ELSE 1) <= Cardinality(Touched) + HostShare

\* A node has all its addresses or none, unless it is at work; none before it is found.
NodesWhole ==
  /\ \A n \in Bus!Nodes : n # work.node =>
       \/ \A r \in Bus!RegistersOf(n) : base[n][r] = None
       \/ \A r \in Bus!RegistersOf(n) : base[n][r] # None
  /\ \A p \in Ports : bus[p] = 0 => Untouched(<<0, p>>)
  /\ \A d \in Bus!Devices : Machine[d] \notin drivers => Untouched(d)

\* The first device of an id is the one that was registered.
FirstsTaken ==
  \A d \in Bus!Devices : Bus!FirstOfId(d) /\ Machine[d] \in drivers => ~Untouched(d)

WalkOver == step > 1 => Bus!New = {} /\ Bus!Unconfigured = {}

\* What the structures point to, by the ports' ranks.
Pointed ==
  \A i \in 1 .. step - 1 : \A p \in Ports :
    Bus!Rank(p) = Bus!Setup[i].bus =>
      \A q \in Bus!Pointers \ (IF Bus!Setup[i].struct = "rng" THEN {"device"} ELSE {}) :
        /\ config[Bus!Setup[i].struct][q] # None
        /\ config[Bus!Setup[i].struct][q] = base[<<p, Bus!Setup[i].slot>>][ConfigBar]

BusInv ==
  /\ BusTypes /\ PortsRanked /\ WorkHalfway /\ BelowFree /\ SharesCounted
  /\ NodesWhole /\ FirstsTaken /\ WalkOver /\ Pointed /\ Bus!WindowsApart

\* A set of numbers that is not empty has a least one.
LEMMA LeastNat ==
  ASSUME NEW S \in SUBSET Nat, S # {}
  PROVE  \E m \in S : \A k \in S : m <= k
<1>1. IsWellFoundedOn(OpToRel(<, Nat), Nat)
  BY NatLessThanWellFounded
<1>2. PICK m \in S : \A k \in S : <<k, m>> \notin OpToRel(<, Nat)
  BY <1>1, WFMin
<1>3. \A k \in S : ~(k < m)
  BY <1>2 DEF OpToRel
<1>4. \A k \in S : m <= k
  BY <1>3
<1> QED
  BY <1>4

\* PciEnum counts with the same Cardinality.
LEMMA SameCounts ==
  \A S : Bus!Cardinality(S) = Cardinality(S) /\ (Bus!IsFiniteSet(S) <=> IsFiniteSet(S))
BY DEF Cardinality, Bus!Cardinality, IsFiniteSet, Bus!IsFiniteSet

\* What the machine of src/Makefile is known to be.
LEMMA BusConstants ==
  /\ IsFiniteSet(Ports) /\ Ports \subseteq Nat \ {0}
  /\ Bus!Devices \subseteq Ports \X (0 .. 31) /\ IsFiniteSet(Bus!Nodes)
  /\ Stride \in Nat /\ Pad \in Nat /\ None \notin Bus!BridgeWindow /\ None \notin Bus!Nodes
  /\ Stride * (Cardinality(Bus!Nodes) + 1) <= Bus!BridgeEnd /\ Cardinality(Bus!Nodes) \in Nat
  /\ Bus!BridgeEnd \in Nat /\ \A d \in Bus!Devices : Machine[d] # Bus!Host
<1>1. IsFiniteSet(Ports) /\ IsFiniteSet(Bus!Devices)
  BY EnumerationAssumption, SameCounts DEF Bus!MachineFits
<1>2. IsFiniteSet({0} \X Ports)
  BY <1>1, FS_Product, FS_Singleton
<1>3. IsFiniteSet(Bus!Nodes)
  BY <1>1, <1>2, FS_Union DEF Bus!Nodes
<1>4. /\ Ports \subseteq Nat \ {0} /\ Bus!Devices \subseteq Ports \X (0 .. 31)
      /\ Stride \in Nat /\ Pad \in Nat /\ None \notin Bus!BridgeWindow /\ None \notin Bus!Nodes
      /\ \A d \in Bus!Devices : Machine[d] # Bus!Host
  BY EnumerationAssumption DEF Bus!MachineFits, Bus!WindowsFit
<1>5. Stride * (Cardinality(Bus!Nodes) + 1) <= Bus!BridgeEnd
  BY SameCounts, EnumerationAssumption DEF Bus!WindowsFit
<1>6. Bus!BridgeEnd \in Nat
  BY DEF Bus!BridgeEnd
<1> QED
  BY <1>1, <1>3, <1>4, <1>5, <1>6, FS_CardinalityType

\* The registers of a device: each once in its list, no larger than the padding, and with it
\* they fit into a share.
LEMMA ListFacts ==
  ASSUME NEW n \in Bus!Nodes
  PROVE  /\ ListOf(n) \in Seq(Bus!RegistersOf(n)) /\ Len(ListOf(n)) \in Nat \ {0}
         /\ DOMAIN ListOf(n) = 1 .. Len(ListOf(n))
         /\ \A i \in 1 .. Len(ListOf(n)) : ListOf(n)[i] \in Bus!RegistersOf(n)
         /\ \A r \in Bus!RegistersOf(n) : \E i \in 1 .. Len(ListOf(n)) : r = ListOf(n)[i]
         /\ \A i, j \in 1 .. Len(ListOf(n)) : ListOf(n)[i] = ListOf(n)[j] => i = j
         /\ 2 * Pad * Len(ListOf(n)) <= Stride
         /\ \A s \in SizeChoices : \A r \in Bus!RegistersOf(n) :
              s[Bus!Kind(n)][r] \in 1 .. Pad /\ Stride % s[Bus!Kind(n)][r] = 0
<1>1. /\ ListOf(n) \in Seq(Bus!RegistersOf(n)) /\ ListOf(n) # <<>>
      /\ \A i, j \in 1 .. Len(ListOf(n)) : ListOf(n)[i] = ListOf(n)[j] => i = j
      /\ 2 * Pad * Len(ListOf(n)) <= Stride
      /\ \A s \in SizeChoices : \A r \in Bus!RegistersOf(n) :
           s[Bus!Kind(n)][r] \in 1 .. Pad /\ Stride % s[Bus!Kind(n)][r] = 0
  BY EnumerationAssumption DEF Bus!WindowsFit, ListOf
<1>2. \A r \in Bus!RegistersOf(n) : \E i \in 1 .. Len(ListOf(n)) : r = ListOf(n)[i]
  BY DEF Bus!RegistersOf, ListOf
<1>3. Len(ListOf(n)) \in Nat \ {0} /\ DOMAIN ListOf(n) = 1 .. Len(ListOf(n))
  BY <1>1
<1> QED
  BY <1>1, <1>2, <1>3

\* The registers that have an address,
LEMMA AllocatedIs ==
  \A v : v \in Bus!Allocated <=>
    /\ v = <<v[1], v[2]>> /\ v[1] \in Bus!Nodes /\ v[2] \in Bus!RegistersOf(v[1])
    /\ base[v[1]][v[2]] # None
BY DEF Bus!Allocated

\* and those that have one after a step.
LEMMA AllocatedThen ==
  \A v : v \in Bus!Allocated' <=>
    /\ v = <<v[1], v[2]>> /\ v[1] \in Bus!Nodes /\ v[2] \in Bus!RegistersOf(v[1])
    /\ base'[v[1]][v[2]] # None
BY DEF Bus!Allocated

\* The share that is filled lies behind the bridges.
LEMMA ShareFits ==
  ASSUME BusTypes, SharesCounted, work # Bus!Idle
  PROVE  shares + 1 <= Cardinality(Bus!Nodes) + 1
<1>1. Touched \in SUBSET Bus!Nodes
  BY DEF Touched
<1>2. Cardinality(Touched) <= Cardinality(Bus!Nodes) /\ Cardinality(Touched) \in Nat
  BY <1>1, BusConstants, FS_Subset, FS_CardinalityType
<1> QED
  BY <1>2, BusConstants DEF SharesCounted, HostShare, BusTypes

\* What pci_allocate_bar makes of the free address f, in the share from s on.
LEMMA MaskIs ==
  ASSUME NEW f \in Nat, NEW z \in Nat \ {0}, NEW s \in Nat,
         Stride % z = 0, Stride * s <= f
  PROVE  /\ Bus!Masked(f, z) \in Nat /\ Stride * s <= Bus!Masked(f, z)
         /\ Bus!Masked(f, z) <= f /\ f < Bus!Masked(f, z) + z
<1>1. PICK q \in Nat : Stride = z * q
  <2>1. PICK t \in Nat : t = Stride
    BY BusConstants
  <2>2. t = z * (t \div z) + (t % z) /\ t \div z \in Nat
    OBVIOUS
  <2> QED
    BY <2>1, <2>2
<1>2. f = z * (f \div z) + (f % z) /\ f % z \in 0 .. z - 1 /\ f \div z \in Nat
  OBVIOUS
<1>3. Stride * s = z * (q * s) /\ q * s \in Nat
  BY <1>1
<1>4. q * s <= f \div z
  <2> DEFINE a == q * s
             b == f \div z
  <2>1. z * a < z * (b + 1)
    BY <1>2, <1>3
  <2> QED
    BY <2>1, <1>2, <1>3
<1>5. (f \div z) * z = z * (f \div z) /\ z * (q * s) <= z * (f \div z)
  BY <1>2, <1>3, <1>4
<1> QED
  BY <1>2, <1>3, <1>5 DEF Bus!Masked

\* Register r of the node at work, of size z, gets the address a.
Placed(r, z, a) ==
  /\ work # Bus!Idle /\ work.node \in Bus!Nodes /\ r \in Bus!RegistersOf(work.node)
  /\ base[work.node][r] = None /\ z = SizeOf(work.node, r) /\ z \in 1 .. Pad
  /\ a \in Nat /\ a <= free /\ free < a + z /\ Stride * shares <= a /\ a + z <= Bus!BridgeEnd
  /\ base' = [base EXCEPT ![work.node] = [@ EXCEPT ![r] = a]]
  /\ free' = free + z + Pad /\ work'.node = work.node /\ work' # Bus!Idle
  /\ UNCHANGED <<size, bus, drivers, shares, step, config>>

\* The list at work loses its first register.
LEMMA SuffixTail ==
  ASSUME NEW S, NEW l \in Seq(S), NEW k \in 1 .. Len(l)
  PROVE  /\ SubSeq(l, k, Len(l)) # <<>> /\ Head(SubSeq(l, k, Len(l))) = l[k]
         /\ Tail(SubSeq(l, k, Len(l))) = SubSeq(l, k + 1, Len(l))
<1>1. Len(l) \in Nat /\ SubSeq(l, k, Len(l)) \in Seq(S)
  OBVIOUS
<1>2. Len(SubSeq(l, k, Len(l))) = Len(l) - k + 1 /\ SubSeq(l, k, Len(l))[1] = l[k]
  BY <1>1
<1>3. Tail(SubSeq(l, k, Len(l))) = SubSeq(l, k + 1, Len(l))
  <2>1. Tail(SubSeq(l, k, Len(l))) = [i \in 1 .. Len(l) - k |-> l[k + i]]
    BY <1>1, <1>2
  <2>2. SubSeq(l, k + 1, Len(l)) = [i \in 1 .. Len(l) - k |-> l[k + i]]
    BY <1>1
  <2> QED
    BY <2>1, <2>2
<1>4. SubSeq(l, k, Len(l)) # <<>>
  BY <1>1, <1>2
<1>5. Head(SubSeq(l, k, Len(l))) = l[k]
  BY <1>1, <1>2, <1>4
<1> QED
  BY <1>3, <1>4, <1>5

\* Room for one register less, and for the whole share.
LEMMA RoomLeft ==
  ASSUME NEW f \in Nat, NEW z \in 1 .. Pad, NEW l \in Nat, NEW k \in 1 .. l, NEW s \in Nat,
         Pad \in Nat, f + 2 * Pad * (l + 1 - k) <= s
  PROVE  /\ f + z + Pad + 2 * Pad * (l + 1 - (k + 1)) <= s
         /\ f + z + Pad <= s
<1>1. l + 1 - k = (l - k) + 1 /\ l - k \in Nat /\ l + 1 - (k + 1) = l - k
  OBVIOUS
<1>2. 2 * Pad * ((l - k) + 1) = 2 * Pad * (l - k) + 2 * Pad /\ 2 * Pad * (l - k) \in Nat
  BY <1>1
<1>3. f + 2 * Pad * (l - k) + 2 * Pad <= s
  BY <1>1, <1>2
<1>4. PICK m \in Nat : m = 2 * Pad * (l - k)
  BY <1>2
<1>5. f + z + Pad + m <= s
  BY <1>3, <1>4
<1> QED
  BY <1>1, <1>4, <1>5

\* A share that is counted lies behind the bridges as a whole.
LEMMA WholeShare ==
  ASSUME NEW s \in Nat, NEW c \in Nat, s + 1 <= c, Stride * c <= Bus!BridgeEnd
  PROVE  Stride * s + Stride <= Bus!BridgeEnd /\ Stride * s + Stride \in Nat
<1>1. PICK t \in Nat : t = Stride
  BY BusConstants
<1>2. Bus!BridgeEnd \in Nat
  BY BusConstants
<1>3. t * (s + 1) <= t * c
  OBVIOUS
<1>4. t * (s + 1) = t * s + t /\ t * s + t \in Nat /\ t * c \in Nat
  OBVIOUS
<1> QED
  BY <1>2, <1>1, <1>3, <1>4

\* No address is None.
LEMMA NoneApart == \A a \in Nat : a < Bus!BridgeEnd => a # None
<1>1. None \notin 0 .. Bus!BridgeEnd - 1
  BY BusConstants DEF Bus!BridgeWindow
<1>2. Bus!BridgeEnd \in Nat
  BY BusConstants
<1> QED
  BY <1>1, <1>2

\* pci_allocate_bar cuts the free address down to a multiple of the size; the register keeps
\* inside the share and in front of the free address (pci.c:607-633).
LEMMA AllocateBarIs ==
  ASSUME BusInv, Bus!AllocateBar
  PROVE  \E k \in 1 .. Len(ListOf(work.node)) :
           /\ WorkFrom(k) /\ WorkFrom(k + 1)'
           /\ \E z, a \in Nat : Placed(ListOf(work.node)[k], z, a)
<1>1. work # Bus!Idle /\ work.left # <<>>
  BY DEF Bus!AllocateBar, Bus!Idle
<1>2. work.node \in Bus!Nodes
  BY <1>1 DEF BusInv, WorkHalfway
<1> DEFINE n == work.node
           l == ListOf(work.node)
<1>3. PICK j \in 1 .. Len(l) + 1 : WorkFrom(j)
  BY <1>1 DEF BusInv, WorkHalfway
<1>4. l \in Seq(Bus!RegistersOf(n)) /\ Len(l) \in Nat /\ j \in Nat
  BY <1>2, ListFacts
<1>5. j # Len(l) + 1
  <2> SUFFICES ASSUME j = Len(l) + 1 PROVE FALSE
    OBVIOUS
  <2>1. SubSeq(l, j, Len(l)) = <<>>
    BY <1>4
  <2> QED
    BY <1>1, <1>3, <2>1 DEF WorkFrom
<1>6. PICK k \in 1 .. Len(l) : WorkFrom(k)
  BY <1>3, <1>4, <1>5
<1>7. PICK r, z : r = l[k] /\ z = SizeOf(n, r)
  OBVIOUS
<1>8. /\ r \in Bus!RegistersOf(n) /\ z \in 1 .. Pad /\ Stride % z = 0 /\ base[n][r] = None
  <2>1. r \in Bus!RegistersOf(n)
    BY <1>2, <1>7, ListFacts
  <2>2. size \in SizeChoices
    BY DEF BusInv, BusTypes
  <2>3. z \in 1 .. Pad /\ Stride % z = 0
    BY <1>2, <1>7, <2>1, <2>2, ListFacts DEF SizeOf
  <2>4. base[n][r] = None
    BY <1>4, <1>6, <1>7 DEF WorkFrom
  <2> QED
    BY <2>1, <2>3, <2>4
<1>9. /\ free \in Nat /\ shares \in Nat /\ Stride \in Nat /\ Pad \in Nat
      /\ Bus!BridgeEnd \in Nat
  BY BusConstants DEF BusInv, BusTypes
<1>10. Stride * shares <= free
  BY <1>6 DEF WorkFrom
<1>11. PICK a : a = Bus!Masked(free, z)
  OBVIOUS
<1>12. a \in Nat /\ Stride * shares <= a /\ a <= free /\ free < a + z
  <2>1. z \in Nat \ {0}
    BY <1>8, <1>9
  <2> QED
    BY <1>8, <1>9, <1>10, <1>11, <2>1, MaskIs
<1>13. PICK e \in Nat : e = Stride * shares + Stride
  BY <1>9
<1>14. /\ free + z + Pad + 2 * Pad * (Len(l) + 1 - (k + 1)) <= e
       /\ free + z + Pad <= e
  <2>1. free + 2 * Pad * (Len(l) + 1 - k) <= e
    BY <1>6, <1>13 DEF WorkFrom
  <2> QED
    BY <1>4, <1>8, <1>9, <2>1, RoomLeft
<1>15. e <= Bus!BridgeEnd
  <2>1. shares + 1 <= Cardinality(Bus!Nodes) + 1 /\ Cardinality(Bus!Nodes) \in Nat
    BY <1>1, ShareFits, BusConstants DEF BusInv
  <2> QED
    BY <1>9, <1>13, <2>1, BusConstants, WholeShare
<1>16. a + z <= Bus!BridgeEnd
  BY <1>8, <1>9, <1>12, <1>14, <1>15
<1>17. /\ base' = [base EXCEPT ![n] = [@ EXCEPT ![r] = a]] /\ free' = free + z + Pad
       /\ work' = [node |-> n, left |-> Tail(work.left)]
       /\ UNCHANGED <<size, bus, drivers, shares, step, config>>
  <2>1. Head(work.left) = r
    <3>1. work.left = SubSeq(l, k, Len(l))
      BY <1>6 DEF WorkFrom
    <3> QED
      BY <1>4, <1>7, <3>1, SuffixTail
  <2>2. work' = [work EXCEPT !.left = Tail(@)] /\ work = [node |-> n, left |-> work.left]
    BY <1>6 DEF Bus!AllocateBar, WorkFrom
  <2>3. work' = [node |-> n, left |-> Tail(work.left)]
    BY <2>2
  <2>4. z = size[Bus!Kind(work.node)][r]
    BY <1>7 DEF SizeOf
  <2>5. free' = free + Bus!Padded(z)
    BY <2>1, <2>4 DEF Bus!AllocateBar
  <2>6. base' = [base EXCEPT ![n][r] = a]
    BY <1>11, <2>1, <2>4 DEF Bus!AllocateBar
  <2>7. free' = free + z + Pad
    BY <1>8, <1>9, <2>5 DEF Bus!Padded
  <2> QED
    BY <2>3, <2>6, <2>7 DEF Bus!AllocateBar
<1>18. work'.node = n /\ work' # Bus!Idle
  BY <1>2, <1>17, BusConstants DEF Bus!Idle
<1>19. Placed(r, z, a)
  BY <1>1, <1>2, <1>7, <1>8, <1>12, <1>16, <1>17, <1>18 DEF Placed
<1>20. WorkFrom(k + 1)'
  <2>1. work' = [node |-> n, left |-> SubSeq(l, k + 1, Len(l))]
    <3>1. work.left = SubSeq(l, k, Len(l))
      BY <1>6 DEF WorkFrom
    <3>2. Tail(work.left) = SubSeq(l, k + 1, Len(l))
      BY <1>4, <3>1, SuffixTail
    <3> QED
      BY <1>17, <3>2
  <2>2. ListOf(work.node)' = l
    BY <1>18 DEF ListOf
  <2>3. \A i \in 1 .. Len(l) : base'[n][l[i]] = None <=> k + 1 <= i
    <3>1. base'[n] = [base[n] EXCEPT ![r] = a]
      BY <1>2, <1>17 DEF BusInv, BusTypes
    <3>2. \A i \in 1 .. Len(l) : l[i] \in DOMAIN base[n] /\ (l[i] = r <=> i = k)
      BY <1>2, <1>7, ListFacts DEF BusInv, BusTypes
    <3>3. a # None
      <4>1. z \in Nat /\ 1 <= z
        BY <1>8, <1>9
      <4>2. a < Bus!BridgeEnd
        BY <1>9, <1>12, <1>16, <4>1
      <4> QED
        BY <1>12, <4>2, NoneApart
    <3>4. \A i \in 1 .. Len(l) : base[n][l[i]] = None <=> k <= i
      BY <1>6 DEF WorkFrom
    <3>5. \A i \in 1 .. Len(l) : base'[n][l[i]] = IF i = k THEN a ELSE base[n][l[i]]
      BY <3>1, <3>2
    <3> QED
      BY <1>4, <3>3, <3>4, <3>5
  <2>4. Stride * shares' <= free'
    <3>1. PICK u \in Nat : u = Stride * shares
      BY <1>9
    <3> QED
      BY <1>8, <1>9, <1>10, <1>17, <3>1
  <2>5. free' + 2 * Pad * (Len(l) + 1 - (k + 1)) <= Stride * shares' + Stride
    BY <1>13, <1>14, <1>17
  <2> QED
    BY <1>18, <2>1, <2>2, <2>3, <2>4, <2>5 DEF WorkFrom
<1> QED
  BY <1>6, <1>7, <1>8, <1>9, <1>12, <1>19, <1>20

\* A window is where its address says, and not empty.
LEMMA WindowIs ==
  ASSUME BusTypes, NEW v \in Bus!Allocated
  PROVE  /\ Bus!From(v) \in Nat /\ Bus!From(v) < Bus!BridgeEnd /\ Bus!To(v) \in Nat
         /\ Bus!From(v) <= Bus!To(v)
<1>1. v[1] \in Bus!Nodes /\ v[2] \in Bus!RegistersOf(v[1]) /\ base[v[1]][v[2]] # None
  BY AllocatedIs DEF BusTypes
<1>2. Bus!From(v) \in Bus!BridgeWindow
  BY <1>1 DEF Bus!From, BusTypes
<1>3. PICK e \in Nat : e = Bus!BridgeEnd
  BY BusConstants
<1>4. Bus!From(v) \in Nat /\ Bus!From(v) < Bus!BridgeEnd
  BY <1>2, <1>3 DEF Bus!BridgeWindow
<1>5. size[Bus!Kind(v[1])][v[2]] \in 1 .. Pad /\ Pad \in Nat
  BY <1>1, ListFacts, BusConstants DEF BusTypes
<1> QED
  BY <1>4, <1>5 DEF Bus!To

\* One register given an address: the types,
LEMMA PlacedTypes ==
  ASSUME BusTypes, NEW r, NEW z, NEW a, Placed(r, z, a)
  PROVE  BusTypes'
<1>1. a \in Bus!BridgeWindow
  <2>1. z \in Nat /\ 1 <= z /\ a \in Nat /\ Bus!BridgeEnd \in Nat /\ a + z <= Bus!BridgeEnd
    BY BusConstants DEF Placed
  <2> QED
    BY <2>1 DEF Bus!BridgeWindow
<1>2. free' \in Nat
  BY BusConstants DEF Placed, BusTypes
<1>3. DOMAIN base' = Bus!Nodes
  BY DEF Placed, BusTypes
<1>4. ASSUME NEW n \in Bus!Nodes
      PROVE  base'[n] \in [Bus!RegistersOf(n) -> Bus!BridgeWindow \cup {None}]
  <2>1. base[n] \in [Bus!RegistersOf(n) -> Bus!BridgeWindow \cup {None}]
    BY DEF BusTypes
  <2>2. base'[n] = IF n = work.node THEN [base[n] EXCEPT ![r] = a] ELSE base[n]
    BY DEF Placed, BusTypes
  <2> QED
    BY <1>1, <2>1, <2>2
<1> QED
  BY <1>2, <1>3, <1>4 DEF Placed, BusTypes

\* the windows, which are those from before and the new one,
LEMMA PlacedAllocated ==
  ASSUME BusTypes, NEW r, NEW z, NEW a, Placed(r, z, a), NEW v \in Bus!Allocated'
  PROVE  \/ Bus!From(v)' = a /\ Bus!To(v)' = a + z - 1 /\ v = <<work.node, r>>
         \/ v \in Bus!Allocated /\ Bus!From(v)' = Bus!From(v) /\ Bus!To(v)' = Bus!To(v)
<1>1. /\ v = <<v[1], v[2]>> /\ v[1] \in Bus!Nodes /\ v[2] \in Bus!RegistersOf(v[1])
      /\ base'[v[1]][v[2]] # None
  BY AllocatedThen
<1>2. size' = size
  BY DEF Placed
<1>3. CASE v[1] = work.node /\ v[2] = r
  <2>1. base'[v[1]][v[2]] = a
    BY <1>1, <1>3 DEF Placed, BusTypes
  <2>2. Bus!From(v)' = a
    BY <2>1 DEF Bus!From
  <2>3. Bus!To(v)' = a + z - 1
    BY <1>2, <1>3, <2>2 DEF Bus!To, Placed, SizeOf
  <2> QED
    BY <1>1, <1>3, <2>2, <2>3
<1>4. CASE ~(v[1] = work.node /\ v[2] = r)
  <2>1. base'[v[1]][v[2]] = base[v[1]][v[2]]
    BY <1>1, <1>4 DEF Placed, BusTypes
  <2>2. v \in Bus!Allocated
    BY <1>1, <2>1, AllocatedIs DEF BusTypes
  <2>3. Bus!From(v)' = Bus!From(v) /\ Bus!To(v)' = Bus!To(v)
    BY <1>2, <2>1 DEF Bus!From, Bus!To
  <2> QED
    BY <2>2, <2>3
<1> QED
  BY <1>3, <1>4

\* A new address lies behind all that were given before.
LEMMA PlacedAbove ==
  ASSUME BusTypes, BelowFree, NEW r, NEW z, NEW a, Placed(r, z, a), NEW v \in Bus!Allocated
  PROVE  Bus!To(v) < a /\ Bus!To(v) + Pad < free'
<1>1. /\ Bus!To(v) \in Nat /\ free \in Nat /\ Pad \in Nat /\ z \in 1 .. Pad
      /\ a \in Nat /\ a <= free /\ free < a + z /\ free' = free + z + Pad
  BY WindowIs, BusConstants DEF BusTypes, Placed
<1>2. PICK s \in Nat : s = Stride * shares
  BY BusConstants DEF BusTypes
<1>3. Bus!To(v) < s \/ Bus!To(v) + Pad < free
  BY <1>2 DEF BelowFree
<1>4. s <= a
  BY <1>2 DEF Placed
<1> QED
  BY <1>1, <1>3, <1>4

\* and they stay apart.
LEMMA PlacedApart ==
  ASSUME BusTypes, BelowFree, Bus!WindowsApart, NEW r, NEW z, NEW a, Placed(r, z, a)
  PROVE  Bus!WindowsApart' /\ BelowFree'
<1>1. /\ free \in Nat /\ Pad \in Nat /\ z \in 1 .. Pad /\ Bus!BridgeEnd \in Nat
      /\ a \in Nat /\ a <= free /\ a + z <= Bus!BridgeEnd /\ free' = free + z + Pad
  BY BusConstants DEF BusTypes, Placed
<1>2. BelowFree'
  <2> SUFFICES ASSUME NEW v \in Bus!Allocated'
               PROVE  Bus!To(v)' + Pad < free'
    BY DEF BelowFree
  <2>1. CASE Bus!To(v)' = a + z - 1
    BY <1>1, <2>1
  <2>2. CASE v \in Bus!Allocated /\ Bus!To(v)' = Bus!To(v)
    BY <2>2, PlacedAbove
  <2> QED
    BY <2>1, <2>2, PlacedAllocated
<1>3. ASSUME NEW v \in Bus!Allocated'
      PROVE  Bus!From(v)' \in Bus!BridgeWindow /\ Bus!To(v)' \in Bus!BridgeWindow
  <2>1. CASE Bus!From(v)' = a /\ Bus!To(v)' = a + z - 1
    <3>1. a \in 0 .. Bus!BridgeEnd - 1 /\ a + z - 1 \in 0 .. Bus!BridgeEnd - 1
      BY <1>1
    <3> QED
      BY <2>1, <3>1 DEF Bus!BridgeWindow
  <2>2. CASE v \in Bus!Allocated /\ Bus!From(v)' = Bus!From(v) /\ Bus!To(v)' = Bus!To(v)
    BY <2>2 DEF Bus!WindowsApart
  <2> QED
    BY <2>1, <2>2, PlacedAllocated
<1>4. ASSUME NEW v \in Bus!Allocated', NEW w \in Bus!Allocated', v # w
      PROVE  Bus!To(v)' < Bus!From(w)' \/ Bus!To(w)' < Bus!From(v)'
  <2>1. CASE v \in Bus!Allocated /\ Bus!From(v)' = Bus!From(v) /\ Bus!To(v)' = Bus!To(v)
    <3>1. CASE w \in Bus!Allocated /\ Bus!From(w)' = Bus!From(w) /\ Bus!To(w)' = Bus!To(w)
      BY <1>4, <2>1, <3>1 DEF Bus!WindowsApart
    <3>2. CASE Bus!From(w)' = a
      BY <2>1, <3>2, PlacedAbove
    <3> QED
      BY <3>1, <3>2, PlacedAllocated
  <2>2. CASE Bus!From(v)' = a /\ v = <<work.node, r>>
    <3>1. w \in Bus!Allocated /\ Bus!From(w)' = Bus!From(w) /\ Bus!To(w)' = Bus!To(w)
      BY <1>4, <2>2, PlacedAllocated
    <3> QED
      BY <2>2, <3>1, PlacedAbove
  <2> QED
    BY <2>1, <2>2, PlacedAllocated
<1> QED
  BY <1>2, <1>3, <1>4 DEF Bus!WindowsApart

\* Only the device at work is concerned.
LEMMA PlacedUntouched ==
  ASSUME BusTypes, NEW r, NEW z, NEW a, Placed(r, z, a), NEW n \in Bus!Nodes
  PROVE  /\ Untouched(n)' <=> Untouched(n)
         /\ n # work.node => base'[n] = base[n]
         /\ n = work.node => ~Untouched(n)
BY DEF Placed, BusTypes, Untouched

\* A register of another device keeps its address, and the one at work had none.
LEMMA PlacedKeeps ==
  ASSUME BusTypes, NEW r, NEW z, NEW a, Placed(r, z, a), NEW n \in Bus!Nodes,
         NEW q, base[n][q] # None, q \in Bus!RegistersOf(n)
  PROVE  base'[n][q] = base[n][q]
BY DEF Placed, BusTypes

\* The devices of pci_init, by the rank of their port.
LEMMA SetupDevice ==
  ASSUME NEW i \in 1 .. 7
  PROVE  \E p \in Ports :
           /\ Bus!Rank(p) = Bus!Setup[i].bus /\ <<p, Bus!Setup[i].slot>> \in Bus!Devices
           /\ Machine[<<p, Bus!Setup[i].slot>>] = Bus!IdOf(Bus!Setup[i].struct)
           /\ ConfigBar \in Bus!RegistersOf(<<p, Bus!Setup[i].slot>>)
           /\ Bus!Setup[i].allocate \/ Bus!FirstOfId(<<p, Bus!Setup[i].slot>>)
<1>1. Len(Bus!Setup) = 7
  BY DEF Bus!Setup
<1> QED
  BY <1>1, EnumerationAssumption DEF Bus!MachineFits

\* The ranks of the ports are positive and different.
LEMMA RanksApart ==
  ASSUME NEW p \in Ports, NEW q \in Ports
  PROVE  /\ Bus!Rank(p) \in Nat \ {0} /\ Bus!Rank(p) <= Cardinality(Ports)
         /\ p < q => Bus!Rank(p) < Bus!Rank(q)
         /\ Bus!Rank(p) = Bus!Rank(q) => p = q
<1> DEFINE upTo(x) == {y \in Ports : y <= x}
<1>1. ASSUME NEW x \in Ports
      PROVE  /\ IsFiniteSet(upTo(x)) /\ Bus!Rank(x) = Cardinality(upTo(x))
             /\ Bus!Rank(x) \in Nat \ {0} /\ Bus!Rank(x) <= Cardinality(Ports)
  <2>1. Bus!Rank(x) = Cardinality(upTo(x))
    BY SameCounts DEF Bus!Rank
  <2>2. upTo(x) \in SUBSET Ports /\ x \in upTo(x)
    BY BusConstants
  <2>3. IsFiniteSet(upTo(x)) /\ Cardinality(upTo(x)) <= Cardinality(Ports)
    BY <2>2, BusConstants, FS_Subset
  <2>4. Cardinality(upTo(x)) \in Nat /\ Cardinality(upTo(x)) # 0
    BY <2>2, <2>3, FS_CardinalityType, FS_EmptySet
  <2> QED
    BY <2>1, <2>3, <2>4
<1>2. ASSUME NEW x \in Ports, NEW y \in Ports, x < y
      PROVE  Bus!Rank(x) < Bus!Rank(y)
  <2>1. upTo(x) \in SUBSET upTo(y) /\ y \in upTo(y) /\ y \notin upTo(x)
    <3>1. \A u \in Ports : u \in Nat
      BY BusConstants
    <3> QED
      BY <1>2, <3>1
  <2>2. Cardinality(upTo(x)) <= Cardinality(upTo(y)) /\ Cardinality(upTo(x)) # Cardinality(upTo(y))
    BY <1>1, <2>1, FS_Subset
  <2>3. Bus!Rank(x) <= Bus!Rank(y) /\ Bus!Rank(x) # Bus!Rank(y)
    BY <1>1, <2>2
  <2>4. Bus!Rank(x) \in Nat /\ Bus!Rank(y) \in Nat
    BY <1>1
  <2> QED
    BY <2>3, <2>4
<1>3. ASSUME Bus!Rank(p) = Bus!Rank(q) PROVE p = q
  <2>1. p \in Nat /\ q \in Nat
    BY BusConstants
  <2>2. /\ p < q => Bus!Rank(p) < Bus!Rank(q)
        /\ q < p => Bus!Rank(q) < Bus!Rank(p)
    BY <1>2
  <2>3. Bus!Rank(p) \in Nat /\ Bus!Rank(q) \in Nat
    BY <1>1
  <2> QED
    BY <1>3, <2>1, <2>2, <2>3
<1> QED
  BY <1>1, <1>2, <1>3

\* What a structure points to is an address that was given.
LEMMA PointedGiven ==
  ASSUME BusTypes, Pointed, NEW i \in 1 .. step - 1, NEW p \in Ports,
         Bus!Rank(p) = Bus!Setup[i].bus
  PROVE  /\ <<p, Bus!Setup[i].slot>> \in Bus!Nodes
         /\ ConfigBar \in Bus!RegistersOf(<<p, Bus!Setup[i].slot>>)
         /\ base[<<p, Bus!Setup[i].slot>>][ConfigBar] # None
<1>1. i \in 1 .. 7
  BY DEF BusTypes
<1>2. /\ <<p, Bus!Setup[i].slot>> \in Bus!Devices
      /\ ConfigBar \in Bus!RegistersOf(<<p, Bus!Setup[i].slot>>)
  BY <1>1, SetupDevice, RanksApart
<1>3. "common" \in Bus!Pointers \ (IF Bus!Setup[i].struct = "rng" THEN {"device"} ELSE {})
  BY DEF Bus!Pointers
<1> QED
  BY <1>2, <1>3 DEF Pointed, Bus!Nodes

\* pci_allocate_bar keeps the invariant (pci.c:607-633).
LEMMA AllocateBarStep ==
  ASSUME BusInv, Bus!AllocateBar
  PROVE  BusInv'
<1>1. PICK k \in 1 .. Len(ListOf(work.node)) :
        /\ WorkFrom(k + 1)' /\ \E z, a \in Nat : Placed(ListOf(work.node)[k], z, a)
  BY AllocateBarIs
<1>2. PICK r, z, a : Placed(r, z, a)
  BY <1>1
<1>3. BusTypes' /\ Bus!WindowsApart' /\ BelowFree'
  BY <1>2, PlacedTypes, PlacedApart DEF BusInv
<1>4. PortsRanked' /\ WalkOver'
  BY <1>2 DEF BusInv, PortsRanked, WalkOver, Placed, Bus!New, Bus!Unconfigured
<1>5. WorkHalfway'
  <2>1. work'.node \in Bus!Nodes /\ ListOf(work.node)' = ListOf(work.node)
    BY <1>2 DEF Placed, ListOf
  <2>2. Len(ListOf(work.node)) \in Nat
    BY <1>2, ListFacts DEF Placed
  <2>3. k + 1 \in 1 .. Len(ListOf(work.node)) + 1
    BY <2>2
  <2> QED
    BY <1>1, <2>1, <2>3 DEF WorkHalfway
<1>6. SharesCounted'
  <2>1. Touched' = Touched
    BY <1>2, PlacedUntouched DEF Touched, BusInv
  <2> QED
    BY <1>2, <2>1 DEF SharesCounted, HostShare, BusInv, Placed
<1>7. NodesWhole'
  <2>1. /\ \A p \in Ports : <<0, p>> \in Bus!Nodes
        /\ \A d \in Bus!Devices : d \in Bus!Nodes
    BY DEF Bus!Nodes
  <2>2. bus' = bus /\ drivers' = drivers /\ work'.node = work.node
    BY <1>2 DEF Placed
  <2>3. \A n \in Bus!Nodes : n # work.node => base'[n] = base[n]
    BY <1>2, PlacedUntouched DEF BusInv
  <2>4. \A n \in Bus!Nodes : Untouched(n)' <=> Untouched(n)
    BY <1>2, PlacedUntouched DEF BusInv
  <2>5. \A p \in Ports : bus'[p] = 0 => Untouched(<<0, p>>)'
    BY <2>1, <2>2, <2>4 DEF BusInv, NodesWhole
  <2>6. \A d \in Bus!Devices : Machine[d] \notin drivers' => Untouched(d)'
    BY <2>1, <2>2, <2>4 DEF BusInv, NodesWhole
  <2> QED
    BY <2>2, <2>3, <2>5, <2>6 DEF BusInv, NodesWhole
<1>8. FirstsTaken'
  <2>1. \A d \in Bus!Devices : d \in Bus!Nodes
    BY DEF Bus!Nodes
  <2>2. \A n \in Bus!Nodes : Untouched(n)' <=> Untouched(n)
    BY <1>2, PlacedUntouched DEF BusInv
  <2> QED
    BY <1>2, <2>1, <2>2 DEF FirstsTaken, BusInv, Placed
<1>9. Pointed'
  <2>1. step' = step /\ config' = config
    BY <1>2 DEF Placed
  <2> SUFFICES ASSUME NEW i \in 1 .. step - 1, NEW p \in Ports, Bus!Rank(p) = Bus!Setup[i].bus,
                      NEW q \in Bus!Pointers \
                                  (IF Bus!Setup[i].struct = "rng" THEN {"device"} ELSE {})
               PROVE  /\ config[Bus!Setup[i].struct][q] # None
                      /\ config[Bus!Setup[i].struct][q] = base'[<<p, Bus!Setup[i].slot>>][ConfigBar]
    BY <2>1 DEF Pointed
  <2>2. base'[<<p, Bus!Setup[i].slot>>][ConfigBar] = base[<<p, Bus!Setup[i].slot>>][ConfigBar]
    BY <1>2, PointedGiven, PlacedKeeps DEF BusInv
  <2> QED
    BY <2>2 DEF BusInv, Pointed
<1> QED
  BY <1>3, <1>4, <1>5, <1>6, <1>7, <1>8, <1>9 DEF BusInv

\* pci_allocate_bar begins with the registers of device n, which has no address yet.
Begun(n) ==
  /\ work = Bus!Idle /\ n \in Bus!Nodes /\ \A r \in Bus!RegistersOf(n) : base[n][r] = None
  /\ work' = [node |-> n, left |-> ListOf(n)]
  /\ UNCHANGED <<size, base, free, shares, step, config>>

\* While no device is at work, untouched are those without an address.
LEMMA IdleUntouched ==
  ASSUME work = Bus!Idle, NEW n \in Bus!Nodes
  PROVE  n # work.node /\ (Untouched(n) <=> \A r \in Bus!RegistersOf(n) : base[n][r] = None)
<1>1. work.node = None /\ n # None
  BY BusConstants DEF Bus!Idle
<1> QED
  BY <1>1 DEF Untouched

\* The list of a device that is begun has its whole share before it.
LEMMA BegunKeeps ==
  ASSUME BusInv, NEW n, Begun(n), drivers \subseteq drivers'
  PROVE  /\ WorkHalfway' /\ BelowFree' /\ Bus!WindowsApart' /\ SharesCounted'
         /\ work'.node = n /\ work' # Bus!Idle
         /\ \A m \in Bus!Nodes : Untouched(m)' <=> m # n /\ Untouched(m)
<1>1. work'.node = n /\ work' # Bus!Idle
  BY BusConstants DEF Begun, Bus!Idle
<1>2. \A m \in Bus!Nodes : Untouched(m)' <=> m # n /\ Untouched(m)
  <2>1. base' = base
    BY DEF Begun
  <2>2. \A m \in Bus!Nodes : m # work.node
    BY IdleUntouched DEF Begun
  <2> QED
    BY <1>1, <2>1, <2>2 DEF Untouched
<1>3. BelowFree' /\ Bus!WindowsApart'
  BY DEF BusInv, BelowFree, Bus!WindowsApart, Begun, Bus!Allocated, Bus!From, Bus!To
<1>4. WorkHalfway'
  <2>1. /\ ListOf(n) \in Seq(Bus!RegistersOf(n)) /\ Len(ListOf(n)) \in Nat \ {0}
        /\ \A i \in 1 .. Len(ListOf(n)) : ListOf(n)[i] \in Bus!RegistersOf(n)
    BY ListFacts DEF Begun
  <2>2. SubSeq(ListOf(n), 1, Len(ListOf(n))) = ListOf(n)
    BY <2>1
  <2>3. ListOf(work.node)' = ListOf(n)
    BY <1>1 DEF ListOf
  <2>4. \A i \in 1 .. Len(ListOf(n)) : base'[n][ListOf(n)[i]] = None /\ 1 <= i
    BY <2>1 DEF Begun
  <2>5. PICK s \in Nat, t \in Nat : s = Stride * shares /\ t = Stride
    BY BusConstants DEF BusInv, BusTypes
  <2>6. free = s /\ free' = free /\ shares' = shares
    BY <2>5, BusConstants DEF BusInv, WorkHalfway, Begun, Bus!Idle
  <2>7. s + 2 * Pad * (Len(ListOf(n)) + 1 - 1) <= s + t
    <3>1. 2 * Pad * Len(ListOf(n)) <= t
      BY <2>5, ListFacts DEF Begun
    <3>2. Len(ListOf(n)) + 1 - 1 = Len(ListOf(n))
      BY <2>1
    <3>3. PICK x \in Nat, y \in Nat : x = Pad /\ y = Len(ListOf(n))
      BY <2>1, BusConstants
    <3>4. PICK u \in Nat : u = 2 * Pad * Len(ListOf(n))
      <4>1. 2 * x * y \in Nat
        OBVIOUS
      <4> QED
        BY <3>3, <4>1
    <3> QED
      BY <2>5, <3>1, <3>2, <3>4
  <2>8. WorkFrom(1)'
    <3>1. Stride * shares' <= free'
      BY <2>5, <2>6
    <3>2. free' + 2 * Pad * (Len(ListOf(n)) + 1 - 1) <= Stride * shares' + Stride
      BY <2>5, <2>6, <2>7
    <3>3. work' = [node |-> n, left |-> SubSeq(ListOf(n), 1, Len(ListOf(n)))]
      BY <2>2 DEF Begun
    <3> QED
      BY <1>1, <2>3, <2>4, <3>1, <3>2, <3>3 DEF WorkFrom
  <2>9. 1 \in 1 .. Len(ListOf(n)) + 1
    BY <2>1
  <2> QED
    BY <1>1, <2>3, <2>8, <2>9 DEF WorkHalfway, Begun
<1>5. SharesCounted'
  <2>1. n \notin Touched /\ n \in Bus!Nodes
    BY IdleUntouched DEF Begun, Touched
  <2>2. Touched' = Touched \cup {n}
    BY <1>2, <2>1 DEF Touched
  <2>3. IsFiniteSet(Touched)
    <3>1. Touched \in SUBSET Bus!Nodes
      BY DEF Touched
    <3> QED
      BY <3>1, BusConstants, FS_Subset
  <2>4. Cardinality(Touched') = Cardinality(Touched) + 1 /\ Cardinality(Touched) \in Nat
    BY <2>1, <2>2, <2>3, FS_AddElement, FS_CardinalityType
  <2>5. shares <= Cardinality(Touched) + HostShare /\ shares' = shares /\ shares \in Nat
    BY DEF BusInv, SharesCounted, Begun, BusTypes
  <2>6. HostShare \in Nat /\ HostShare' \in Nat /\ HostShare <= HostShare'
    BY DEF HostShare
  <2>7. shares + 1 <= Cardinality(Touched') + HostShare'
    BY <2>4, <2>5, <2>6
  <2> QED
    BY <1>1, <2>5, <2>7 DEF SharesCounted
<1> QED
  BY <1>1, <1>2, <1>3, <1>4, <1>5

\* pci_config_t1 gives the next number to the next port (pci.c:218-247).
LEMMA ConfigPortStep ==
  ASSUME BusInv, Bus!ConfigPort
  PROVE  BusInv'
<1>1. Bus!Unconfigured \in SUBSET Nat /\ Bus!Unconfigured \in SUBSET Ports /\ Bus!Unconfigured # {}
  BY BusConstants DEF Bus!Unconfigured, Bus!ConfigPort
<1>2. PICK p \in Bus!Unconfigured : /\ p = Bus!FirstPort
                                    /\ \A q \in Bus!Unconfigured : p <= q
  BY <1>1, LeastNat DEF Bus!FirstPort
<1>3. p \in Ports /\ bus[p] = 0 /\ <<0, p>> \in Bus!Nodes
  BY <1>2 DEF Bus!Unconfigured, Bus!Nodes
<1>4. \A q \in Ports : q \in Nat /\ (bus[q] # 0 <=> q < p)
  <2>1. \A q \in Ports : q \in Nat
    BY BusConstants
  <2>2. \A q \in Ports : bus[q] = 0 => p <= q
    BY <1>2 DEF Bus!Unconfigured
  <2>3. \A q \in Ports : p < q => bus[q] = 0
    BY <1>3 DEF BusInv, PortsRanked
  <2>4. \A q \in Ports : q < p \/ q = p \/ p < q
    BY <1>3, <2>1
  <2> QED
    BY <1>3, <2>1, <2>2, <2>3, <2>4
<1>5. bus' = [bus EXCEPT ![p] = Bus!Rank(p)]
  <2> DEFINE U == Ports \ Bus!Unconfigured
  <2>1. {q \in Ports : q <= p} = U \cup {p}
    BY <1>3, <1>4 DEF Bus!Unconfigured
  <2>2. p \notin U /\ IsFiniteSet(U)
    <3>1. U \in SUBSET Ports
      OBVIOUS
    <3> QED
      BY <1>2, <3>1, BusConstants, FS_Subset
  <2>3. Cardinality(U \cup {p}) = Cardinality(U) + 1
    BY <2>2, FS_AddElement
  <2>4. Bus!Rank(p) = Bus!Cardinality(U) + 1
    BY <2>1, <2>3, SameCounts DEF Bus!Rank
  <2> QED
    BY <1>2, <2>4 DEF Bus!ConfigPort
<1>6. step = 1 /\ step' = 1
  BY <1>1 DEF BusInv, BusTypes, WalkOver, Bus!ConfigPort
<1>7. Untouched(<<0, p>>)
  BY <1>3 DEF BusInv, NodesWhole
<1>8. Begun(<<0, p>>)
  <2>1. work' = [node |-> <<0, p>>, left |-> ListOf(<<0, p>>)]
    BY <1>2 DEF Bus!ConfigPort, Bus!Allocate, ListOf
  <2> QED
    BY <1>3, <1>7, <2>1 DEF Begun, Bus!ConfigPort, Untouched
<1>9. /\ WorkHalfway' /\ BelowFree' /\ Bus!WindowsApart' /\ SharesCounted'
      /\ work'.node = <<0, p>> /\ work' # Bus!Idle
      /\ \A m \in Bus!Nodes : Untouched(m)' <=> m # <<0, p>> /\ Untouched(m)
  BY <1>8, BegunKeeps DEF Bus!ConfigPort
<1>10. \A q \in Ports : bus'[q] = IF q = p THEN Bus!Rank(p) ELSE bus[q]
  BY <1>5 DEF BusInv, BusTypes
<1>11. BusTypes'
  <2>1. Bus!Rank(p) \in 0 .. Cardinality(Ports)
    <3>1. Bus!Rank(p) \in Nat /\ Bus!Rank(p) <= Cardinality(Ports)
      BY <1>3, RanksApart
    <3>2. Cardinality(Ports) \in Nat
      BY BusConstants, FS_CardinalityType
    <3> QED
      BY <3>1, <3>2
  <2>2. bus' \in [Ports -> 0 .. Cardinality(Ports)]
    BY <1>5, <2>1 DEF BusInv, BusTypes
  <2> QED
    BY <2>2 DEF BusInv, BusTypes, Bus!ConfigPort
<1>12. PortsRanked'
  <2>1. \A q \in Ports : bus'[q] \in {0, Bus!Rank(q)}
    BY <1>10 DEF BusInv, PortsRanked
  <2>2. ASSUME NEW q \in Ports, bus'[q] = 0, NEW t \in Ports, q < t
        PROVE  bus'[t] = 0
    <3>1. q # p /\ bus[q] = 0
      BY <1>3, <1>10, <2>2, RanksApart
    <3>2. p < q /\ p < t
      BY <1>3, <1>4, <2>2, <3>1
    <3> QED
      BY <1>3, <1>4, <1>10, <3>2
  <2> QED
    BY <2>1, <2>2 DEF PortsRanked
<1>13. NodesWhole'
  <2>1. /\ \A q \in Ports : <<0, q>> \in Bus!Nodes
        /\ \A d \in Bus!Devices : d \in Bus!Nodes /\ d # <<0, p>>
    <3>1. \A d \in Bus!Devices : d[1] \in Ports /\ d[1] # 0
      BY BusConstants
    <3> QED
      BY <3>1 DEF Bus!Nodes
  <2>2. drivers' = drivers /\ base' = base
    BY DEF Bus!ConfigPort
  <2>3. \A n \in Bus!Nodes : \/ \A r \in Bus!RegistersOf(n) : base[n][r] = None
                             \/ \A r \in Bus!RegistersOf(n) : base[n][r] # None
    BY <1>8, IdleUntouched DEF Begun, BusInv, NodesWhole
  <2>4. \A q \in Ports : bus'[q] = 0 => bus[q] = 0 /\ q # p
    BY <1>3, <1>10, RanksApart
  <2>5. \A q \in Ports : bus'[q] = 0 => Untouched(<<0, q>>)'
    <3>1. \A q \in Ports : q # p => <<0, q>> # <<0, p>>
      OBVIOUS
    <3> QED
      BY <1>9, <2>1, <2>4, <3>1 DEF BusInv, NodesWhole
  <2>6. \A d \in Bus!Devices : Machine[d] \notin drivers => Untouched(d)'
    BY <1>9, <2>1 DEF BusInv, NodesWhole
  <2> QED
    BY <2>2, <2>3, <2>5, <2>6 DEF NodesWhole
<1>14. FirstsTaken'
  <2>1. \A d \in Bus!Devices : d \in Bus!Nodes
    BY DEF Bus!Nodes
  <2>2. drivers' = drivers
    BY DEF Bus!ConfigPort
  <2> QED
    BY <1>9, <2>1, <2>2 DEF BusInv, FirstsTaken
<1>15. WalkOver' /\ Pointed'
  BY <1>6 DEF WalkOver, Pointed
<1> QED
  BY <1>9, <1>11, <1>12, <1>13, <1>14, <1>15 DEF BusInv

\* pci_register_driver takes the first device of an id (pci.c:114-194).
LEMMA RegisterDriverStep ==
  ASSUME BusInv, Bus!RegisterDriver
  PROVE  BusInv'
<1>1. /\ \A e \in Bus!Devices : /\ e = <<e[1], e[2]>> /\ e[1] \in Ports /\ e[2] \in 0 .. 31
                                /\ e \in Bus!Nodes
      /\ \A p \in Ports : bus[p] \in Nat /\ p \in Nat
  <2>1. \A e \in Bus!Devices : e \in Ports \X (0 .. 31) /\ e \in Bus!Nodes
    BY BusConstants DEF Bus!Nodes
  <2>2. \A p \in Ports : p \in Nat
    BY BusConstants
  <2>3. \A p \in Ports : bus[p] \in Nat
    <3>1. Cardinality(Ports) \in Nat
      BY BusConstants, FS_CardinalityType
    <3> QED
      BY <3>1 DEF BusInv, BusTypes
  <2> QED
    BY <2>1, <2>2, <2>3
<1>2. Bus!New \subseteq Bus!Devices /\ Bus!New # {}
  BY DEF Bus!New, Bus!RegisterDriver
<1>3. PICK d \in Bus!New : /\ d = Bus!FirstNew
                           /\ \A e \in Bus!New : Bus!BusSlot(d) <= Bus!BusSlot(e)
  <2> DEFINE S == {Bus!BusSlot(e) : e \in Bus!New}
  <2>1. S \in SUBSET Nat /\ S # {}
    BY <1>1, <1>2 DEF Bus!BusSlot
  <2>2. PICK m \in S : \A k \in S : m <= k
    BY <2>1, LeastNat
  <2>3. PICK e \in Bus!New : m = Bus!BusSlot(e)
    BY <2>2
  <2>4. \A x \in Bus!New : Bus!BusSlot(e) <= Bus!BusSlot(x)
    BY <2>2, <2>3
  <2>5. /\ Bus!FirstNew \in Bus!New
        /\ \A x \in Bus!New : Bus!BusSlot(Bus!FirstNew) <= Bus!BusSlot(x)
    BY <2>4, Zenon DEF Bus!FirstNew
  <2> QED
    BY <2>5
<1>4. d \in Bus!Devices /\ d \in Bus!Nodes /\ bus[d[1]] # 0 /\ Machine[d] \notin drivers
  BY <1>1, <1>2 DEF Bus!New
<1>5. step = 1 /\ step' = 1
  BY <1>2 DEF BusInv, BusTypes, WalkOver, Bus!RegisterDriver
<1>6. Untouched(d)
  BY <1>4 DEF BusInv, NodesWhole
<1>7. Begun(d)
  BY <1>3, <1>4, <1>6 DEF Begun, Bus!RegisterDriver, Bus!Allocate, ListOf, Untouched
<1>8. /\ WorkHalfway' /\ BelowFree' /\ Bus!WindowsApart' /\ SharesCounted'
      /\ work'.node = d /\ work' # Bus!Idle
      /\ \A m \in Bus!Nodes : Untouched(m)' <=> m # d /\ Untouched(m)
  BY <1>7, BegunKeeps DEF Bus!RegisterDriver
<1>9. drivers' = drivers \cup {Machine[d]} /\ bus' = bus /\ base' = base
  BY <1>3 DEF Bus!RegisterDriver
<1>10. BusTypes' /\ PortsRanked'
  BY <1>9 DEF BusInv, BusTypes, PortsRanked, Bus!RegisterDriver
<1>11. NodesWhole'
  <2>1. \A p \in Ports : <<0, p>> \in Bus!Nodes /\ <<0, p>> # d
    <3>1. d[1] # 0
      BY <1>1, <1>4, BusConstants
    <3> QED
      BY <3>1 DEF Bus!Nodes
  <2>2. \A n \in Bus!Nodes : \/ \A r \in Bus!RegistersOf(n) : base[n][r] = None
                             \/ \A r \in Bus!RegistersOf(n) : base[n][r] # None
    BY <1>7, IdleUntouched DEF Begun, BusInv, NodesWhole
  <2>3. \A p \in Ports : bus[p] = 0 => Untouched(<<0, p>>)'
    BY <1>8, <2>1 DEF BusInv, NodesWhole
  <2>4. \A e \in Bus!Devices : Machine[e] \notin drivers' => e # d /\ Untouched(e)
    BY <1>9 DEF BusInv, NodesWhole
  <2>5. \A e \in Bus!Devices : Machine[e] \notin drivers' => Untouched(e)'
    BY <1>1, <1>8, <2>4
  <2> QED
    BY <1>9, <2>2, <2>3, <2>5 DEF NodesWhole
<1>12. ASSUME NEW e \in Bus!Devices, Bus!FirstOfId(e), Machine[e] = Machine[d]
       PROVE  e = d
  <2>1. 32 * Bus!Rank(e[1]) + e[2] <= 32 * Bus!Rank(d[1]) + d[2]
    BY <1>4, <1>12 DEF Bus!FirstOfId
  <2>2. PICK x, y \in Ports, s, t \in 0 .. 31 : e = <<x, s>> /\ d = <<y, t>>
    BY <1>1, <1>4
  <2>3. Bus!Rank(x) \in Nat /\ Bus!Rank(y) \in Nat /\ (y < x => Bus!Rank(y) < Bus!Rank(x))
    BY RanksApart
  <2>4. x = y \/ x < y
    <3>1. 32 * Bus!Rank(x) + s <= 32 * Bus!Rank(y) + t
      BY <2>1, <2>2
    <3>2. Bus!Rank(x) <= Bus!Rank(y)
      BY <2>3, <3>1
    <3> QED
      BY <1>1, <2>3, <3>2
  <2>5. bus[x] # 0
    BY <1>4, <2>2, <2>4 DEF BusInv, PortsRanked
  <2>6. e \in Bus!New
    BY <1>4, <1>12, <2>2, <2>5 DEF Bus!New
  <2>7. bus[x] = Bus!Rank(x) /\ bus[y] = Bus!Rank(y)
    BY <1>4, <2>2, <2>5 DEF BusInv, PortsRanked
  <2>8. 32 * Bus!Rank(y) + t <= 32 * Bus!Rank(x) + s
    BY <1>3, <2>2, <2>6, <2>7 DEF Bus!BusSlot
  <2>9. 32 * Bus!Rank(x) + s <= 32 * Bus!Rank(y) + t
    BY <2>1, <2>2
  <2>10. Bus!Rank(x) = Bus!Rank(y) /\ s = t
    BY <2>3, <2>8, <2>9
  <2> QED
    BY <2>2, <2>10, RanksApart
<1>13. FirstsTaken'
  <2> SUFFICES ASSUME NEW e \in Bus!Devices, Bus!FirstOfId(e), Machine[e] \in drivers'
               PROVE  ~Untouched(e)'
    BY DEF FirstsTaken
  <2>1. CASE Machine[e] \in drivers
    BY <1>1, <1>8, <2>1 DEF BusInv, FirstsTaken
  <2>2. CASE Machine[e] = Machine[d]
    BY <1>1, <1>8, <1>12, <2>2
  <2> QED
    BY <1>9, <2>1, <2>2
<1>14. WalkOver' /\ Pointed'
  BY <1>5 DEF WalkOver, Pointed
<1> QED
  BY <1>8, <1>10, <1>11, <1>13, <1>14 DEF BusInv

\* The host bridge takes a share, and no device has its id (pci.c:114-137, 191-192).
LEMMA RegisterHostStep ==
  ASSUME BusInv, Bus!RegisterHost
  PROVE  BusInv'
<1>1. /\ work = Bus!Idle /\ Bus!Host \notin drivers
      /\ drivers' = drivers \cup {Bus!Host} /\ shares' = shares + 1
      /\ free' = Stride * (shares + 1)
      /\ UNCHANGED <<size, bus, base, work, step, config>>
  BY DEF Bus!RegisterHost, Bus!HostIsNew
<1>2. PICK u \in Nat : /\ u = Stride * shares /\ u = free
                       /\ Stride * (shares + 1) = u + Stride
  <2>1. shares \in Nat /\ Stride \in Nat
    BY BusConstants DEF BusInv, BusTypes
  <2>2. free = Stride * shares
    <3>1. work.node = None /\ None \notin Bus!Nodes
      BY <1>1, BusConstants DEF Bus!Idle
    <3> QED
      BY <3>1, Zenon DEF BusInv, WorkHalfway
  <2>3. Stride * (shares + 1) = Stride * shares + Stride /\ Stride * shares \in Nat
    BY <2>1
  <2> QED
    BY <2>2, <2>3
<1>3. \A d \in Bus!Devices : Machine[d] \in drivers' <=> Machine[d] \in drivers
  BY <1>1, BusConstants
<1>4. \A n : Untouched(n)' <=> Untouched(n)
  BY <1>1 DEF Untouched
<1>5. BusTypes'
  <2>1. shares' \in Nat /\ free' \in Nat
    BY <1>1, <1>2, BusConstants DEF BusInv, BusTypes
  <2> QED
    BY <1>1, <2>1 DEF BusInv, BusTypes
<1>6. PortsRanked' /\ Pointed' /\ Bus!WindowsApart'
  BY <1>1 DEF BusInv, PortsRanked, Pointed, Bus!WindowsApart, Bus!Allocated, Bus!From, Bus!To
<1>7. WalkOver'
  <2>1. Bus!New' = Bus!New
    BY <1>1, <1>3 DEF Bus!New
  <2> QED
    BY <1>1, <2>1 DEF BusInv, WalkOver, Bus!Unconfigured
<1>8. WorkHalfway'
  BY <1>1 DEF WorkHalfway
<1>9. BelowFree'
  <2> SUFFICES ASSUME NEW v \in Bus!Allocated PROVE Bus!To(v) < Stride * shares'
    BY <1>1 DEF BelowFree, Bus!Allocated, Bus!To, Bus!From
  <2>1. Bus!To(v) \in Nat /\ Stride \in Nat /\ Pad \in Nat
    BY WindowIs, BusConstants DEF BusInv
  <2>2. Bus!To(v) < u \/ Bus!To(v) + Pad < u
    BY <1>2 DEF BusInv, BelowFree
  <2>3. Bus!To(v) < u + Stride
    BY <1>2, <2>1, <2>2
  <2> QED
    BY <1>1, <1>2, <2>3
<1>10. SharesCounted'
  <2>1. Touched' = Touched
    BY <1>4 DEF Touched
  <2>2. Cardinality(Touched) \in Nat /\ shares \in Nat
    <3>1. Touched \in SUBSET Bus!Nodes
      BY DEF Touched
    <3> QED
      BY <3>1, BusConstants, FS_Subset, FS_CardinalityType DEF BusInv, BusTypes
  <2>3. HostShare = 0 /\ HostShare' = 1
    BY <1>1 DEF HostShare
  <2>4. shares <= Cardinality(Touched)
    BY <1>1, <2>2, <2>3 DEF BusInv, SharesCounted
  <2>5. shares' <= Cardinality(Touched') + HostShare'
    BY <1>1, <2>1, <2>2, <2>3, <2>4
  <2>6. shares' \in Nat /\ work' = Bus!Idle
    BY <1>1, <2>2
  <2> QED
    BY <2>5, <2>6 DEF SharesCounted
<1>11. NodesWhole'
  BY <1>1, <1>3, <1>4 DEF BusInv, NodesWhole
<1>12. FirstsTaken'
  BY <1>3, <1>4 DEF BusInv, FirstsTaken
<1> QED
  BY <1>5, <1>6, <1>7, <1>8, <1>9, <1>10, <1>11, <1>12 DEF BusInv

\* Once the walk is over, the bus number of an entry of Setup leads to the device it is
\* meant for (pci.c:295-364).
LEMMA DeviceIs ==
  ASSUME BusInv, Bus!Unconfigured = {}, NEW i \in 1 .. 7, NEW p \in Ports,
         Bus!Rank(p) = Bus!Setup[i].bus
  PROVE  /\ Bus!DeviceAt(Bus!Setup[i].bus, Bus!Setup[i].slot) = <<p, Bus!Setup[i].slot>>
         /\ <<p, Bus!Setup[i].slot>> \in Bus!Devices /\ <<p, Bus!Setup[i].slot>> \in Bus!Nodes
         /\ ConfigBar \in Bus!RegistersOf(<<p, Bus!Setup[i].slot>>)
         /\ Machine[<<p, Bus!Setup[i].slot>>] = Bus!IdOf(Bus!Setup[i].struct)
         /\ Bus!Setup[i].allocate \/ Bus!FirstOfId(<<p, Bus!Setup[i].slot>>)
<1> DEFINE d == <<p, Bus!Setup[i].slot>>
<1>1. /\ d \in Bus!Devices /\ Machine[d] = Bus!IdOf(Bus!Setup[i].struct)
      /\ ConfigBar \in Bus!RegistersOf(d)
      /\ Bus!Setup[i].allocate \/ Bus!FirstOfId(d)
  BY SetupDevice, RanksApart
<1>2. \A q \in Ports : bus[q] = Bus!Rank(q)
  BY DEF BusInv, PortsRanked, Bus!Unconfigured
<1>3. \A e \in Bus!Devices : e = <<e[1], e[2]>> /\ e[1] \in Ports
  BY BusConstants
<1>4. bus[d[1]] = Bus!Setup[i].bus /\ d[2] = Bus!Setup[i].slot
  BY <1>2
<1>5. \A e \in Bus!Devices : bus[e[1]] = Bus!Setup[i].bus /\ e[2] = Bus!Setup[i].slot => e = d
  BY <1>2, <1>3, RanksApart
<1>6. Bus!DeviceAt(Bus!Setup[i].bus, Bus!Setup[i].slot) = d
  BY <1>1, <1>4, <1>5, Zenon DEF Bus!DeviceAt
<1> QED
  BY <1>1, <1>6 DEF Bus!Nodes

\* The registers of a second device of an id are allocated in pci_init (pci.c:310-364).
LEMMA AllocateHereStep ==
  ASSUME BusInv, Bus!AllocateHere
  PROVE  BusInv'
<1>1. /\ work = Bus!Idle /\ Bus!New = {} /\ Bus!Unconfigured = {} /\ step \in 1 .. 7
  BY DEF Bus!AllocateHere, Bus!Scanned, Bus!Setup, BusInv, BusTypes
<1>2. PICK p \in Ports : Bus!Rank(p) = Bus!Setup[step].bus
  BY <1>1, SetupDevice
<1>3. PICK d : d = <<p, Bus!Setup[step].slot>>
  OBVIOUS
<1>4. /\ d = Bus!DeviceAt(Bus!Setup[step].bus, Bus!Setup[step].slot)
      /\ d \in Bus!Nodes /\ ConfigBar \in Bus!RegistersOf(d)
  BY <1>1, <1>2, <1>3, DeviceIs
<1>5. \A n \in Bus!Nodes : \/ \A r \in Bus!RegistersOf(n) : base[n][r] = None
                           \/ \A r \in Bus!RegistersOf(n) : base[n][r] # None
  BY <1>1, IdleUntouched DEF BusInv, NodesWhole
<1>6. Begun(d)
  BY <1>1, <1>4, <1>5 DEF Begun, Bus!AllocateHere, Bus!Allocate, ListOf
<1>7. /\ WorkHalfway' /\ BelowFree' /\ Bus!WindowsApart' /\ SharesCounted'
      /\ work'.node = d /\ work' # Bus!Idle
      /\ \A m \in Bus!Nodes : Untouched(m)' <=> m # d /\ Untouched(m)
  BY <1>6, BegunKeeps DEF Bus!AllocateHere
<1>8. UNCHANGED <<size, bus, drivers, base, free, shares, step, config>>
  BY DEF Bus!AllocateHere
<1>9. BusTypes' /\ PortsRanked' /\ WalkOver' /\ Pointed'
  BY <1>1, <1>8 DEF BusInv, BusTypes, PortsRanked, WalkOver, Pointed, Bus!New, Bus!Unconfigured
<1>10. NodesWhole'
  <2>1. \A p1 \in Ports : bus[p1] # 0
    BY <1>1 DEF Bus!Unconfigured
  <2>2. \A e \in Bus!Devices : Machine[e] \in drivers
    BY <1>1, <2>1, BusConstants DEF Bus!New
  <2> QED
    BY <1>5, <1>8, <2>1, <2>2 DEF NodesWhole
<1>11. FirstsTaken'
  <2>1. \A e \in Bus!Devices : e \in Bus!Nodes
    BY DEF Bus!Nodes
  <2> QED
    BY <1>7, <1>8, <2>1 DEF BusInv, FirstsTaken
<1> QED
  BY <1>7, <1>9, <1>10, <1>11 DEF BusInv

\* Behind the last register of a device all of them have addresses, and the room it had
\* is not used up.
LEMMA ListDone ==
  ASSUME BusInv, work # Bus!Idle, work.left = <<>>
  PROVE  /\ work.node \in Bus!Nodes
         /\ \A r \in Bus!RegistersOf(work.node) : base[work.node][r] # None
         /\ \E r \in Bus!RegistersOf(work.node) : base[work.node][r] # None
         /\ \E u \in Nat : u = Stride * shares /\ u <= free /\ free <= u + Stride
                           /\ Stride * (shares + 1) = u + Stride
<1> DEFINE l == ListOf(work.node)
<1>1. PICK k \in 1 .. Len(l) + 1 : WorkFrom(k)
  BY DEF BusInv, WorkHalfway
<1>2. work.node \in Bus!Nodes
  BY DEF BusInv, WorkHalfway
<1>3. /\ l \in Seq(Bus!RegistersOf(work.node)) /\ Len(l) \in Nat \ {0}
      /\ \A i \in 1 .. Len(l) : l[i] \in Bus!RegistersOf(work.node)
      /\ \A r \in Bus!RegistersOf(work.node) : \E i \in 1 .. Len(l) : r = l[i]
  BY <1>2, ListFacts
<1>4. k = Len(l) + 1
  <2>1. SubSeq(l, k, Len(l)) = <<>>
    BY <1>1 DEF WorkFrom
  <2> HIDE DEF l
  <2>2. CASE k \in 1 .. Len(l)
    BY <1>3, <2>1, <2>2, SuffixTail
  <2> QED
    BY <1>3, <2>2
<1>5. \A i \in 1 .. Len(l) : base[work.node][l[i]] # None
  <2>1. \A i \in 1 .. Len(l) : base[work.node][l[i]] = None <=> k <= i
    BY <1>1 DEF WorkFrom
  <2>2. \A i \in 1 .. Len(l) : ~(k <= i)
    <3> HIDE DEF l
    <3> QED
      BY <1>3, <1>4
  <2> QED
    BY <2>1, <2>2, Zenon
<1>6. \E u \in Nat : u = Stride * shares /\ u <= free /\ free <= u + Stride
                     /\ Stride * (shares + 1) = u + Stride
  <2>1. shares \in Nat /\ free \in Nat /\ Stride \in Nat /\ Pad \in Nat
    BY BusConstants DEF BusInv, BusTypes
  <2>2. Stride * shares \in Nat /\ Stride * (shares + 1) = Stride * shares + Stride
    BY <2>1
  <2>3. PICK u \in Nat : u = Stride * shares
    BY <2>2
  <2>4. Stride * shares <= free /\ free + 2 * Pad * (Len(l) + 1 - k) <= Stride * shares + Stride
    BY <1>1 DEF WorkFrom
  <2>5. 2 * Pad * (Len(l) + 1 - k) = 0
    <3> HIDE DEF l
    <3> QED
      BY <1>3, <1>4, <2>1
  <2>6. u <= free /\ free <= u + Stride
    BY <2>1, <2>3, <2>4, <2>5
  <2> QED
    BY <2>2, <2>3, <2>6
<1>7. 1 \in 1 .. Len(l)
  BY <1>3
<1> QED
  BY <1>2, <1>3, <1>5, <1>6, <1>7

\* Behind the registers of a device the next share begins (pci.c:191-192, 244-245).
LEMMA NextShareStep ==
  ASSUME BusInv, Bus!NextShare
  PROVE  BusInv'
<1>1. /\ work # Bus!Idle /\ work.left = <<>> /\ work' = Bus!Idle
      /\ shares' = shares + 1 /\ free' = Stride * (shares + 1)
      /\ UNCHANGED <<size, bus, drivers, base, step, config>>
  BY DEF Bus!NextShare
<1>2. /\ work.node \in Bus!Nodes
      /\ \A r \in Bus!RegistersOf(work.node) : base[work.node][r] # None
      /\ \E r \in Bus!RegistersOf(work.node) : base[work.node][r] # None
  BY <1>1, ListDone
<1>3. PICK u \in Nat : /\ u = Stride * shares /\ u <= free /\ free <= u + Stride
                       /\ Stride * (shares + 1) = u + Stride
  BY <1>1, ListDone
<1>4. work'.node = None /\ \A n \in Bus!Nodes : n # None
  BY <1>1, BusConstants DEF Bus!Idle
<1>5. \A n \in Bus!Nodes : Untouched(n)' <=> Untouched(n)
  BY <1>1, <1>2, <1>4 DEF Untouched
<1>6. BusTypes'
  <2>1. shares' \in Nat /\ free' \in Nat
    BY <1>1, <1>3, BusConstants DEF BusInv, BusTypes
  <2> QED
    BY <1>1, <2>1 DEF BusInv, BusTypes
<1>7. PortsRanked' /\ WalkOver' /\ Pointed' /\ Bus!WindowsApart'
  BY <1>1 DEF BusInv, PortsRanked, WalkOver, Pointed, Bus!New, Bus!Unconfigured,
              Bus!WindowsApart, Bus!Allocated, Bus!From, Bus!To
<1>8. WorkHalfway'
  BY <1>1 DEF WorkHalfway
<1>9. BelowFree'
  <2> SUFFICES ASSUME NEW v \in Bus!Allocated PROVE Bus!To(v) < Stride * shares'
    BY <1>1 DEF BelowFree, Bus!Allocated, Bus!To, Bus!From
  <2>1. Bus!To(v) \in Nat
    BY WindowIs DEF BusInv
  <2>2. Bus!To(v) < u \/ Bus!To(v) + Pad < free
    BY <1>3 DEF BusInv, BelowFree
  <2>3. free \in Nat /\ Pad \in Nat /\ Stride \in Nat
    BY BusConstants DEF BusInv, BusTypes
  <2>4. Bus!To(v) < u + Stride
    BY <1>3, <2>1, <2>2, <2>3
  <2> QED
    BY <1>1, <1>3, <2>4
<1>10. SharesCounted'
  <2>1. Touched' = Touched
    BY <1>5 DEF Touched
  <2> QED
    BY <1>1, <2>1 DEF BusInv, BusTypes, SharesCounted, HostShare
<1>11. NodesWhole'
  <2>1. \A n \in Bus!Nodes : \/ \A r \in Bus!RegistersOf(n) : base[n][r] = None
                             \/ \A r \in Bus!RegistersOf(n) : base[n][r] # None
    BY <1>2 DEF BusInv, NodesWhole
  <2>2. /\ \A p \in Ports : <<0, p>> \in Bus!Nodes
        /\ \A d \in Bus!Devices : d \in Bus!Nodes
    BY DEF Bus!Nodes
  <2>3. \A p \in Ports : bus[p] = 0 => Untouched(<<0, p>>)'
    BY <1>5, <2>2 DEF BusInv, NodesWhole
  <2>4. \A d \in Bus!Devices : Machine[d] \notin drivers => Untouched(d)'
    BY <1>5, <2>2 DEF BusInv, NodesWhole
  <2> QED
    BY <1>1, <2>1, <2>3, <2>4 DEF NodesWhole
<1>12. FirstsTaken'
  <2>1. \A d \in Bus!Devices : d \in Bus!Nodes
    BY DEF Bus!Nodes
  <2> QED
    BY <1>1, <1>5, <2>1 DEF BusInv, FirstsTaken
<1> QED
  BY <1>6, <1>7, <1>8, <1>9, <1>10, <1>11, <1>12 DEF BusInv

\* pci_cape_ptr_check finds the structure by id and slot (pci.c:415-460).
LEMMA StructIs ==
  ASSUME NEW i \in 1 .. 7, NEW d, d[2] = Bus!Setup[i].slot,
         Machine[d] = Bus!IdOf(Bus!Setup[i].struct)
  PROVE  /\ Bus!StructOf(d) = Bus!Setup[i].struct /\ Bus!Setup[i].struct \in Bus!Structs
         /\ Machine[d] = "rng" <=> Bus!Setup[i].struct = "rng"
<1>1. Bus!Setup[i].struct \in Bus!Structs
  BY DEF Bus!Structs, Bus!Setup
<1>2. CASE i = 1
  <2>1. Machine[d] = "rng" /\ Bus!Setup[i].struct = "rng"
    BY <1>2 DEF Bus!Setup, Bus!IdOf
  <2> QED
    BY <1>1, <2>1 DEF Bus!StructOf
<1>3. CASE i = 2
  <2>1. Machine[d] = "blk" /\ Bus!Setup[i].struct = "blk" /\ d[2] = 1
    BY <1>3 DEF Bus!Setup, Bus!IdOf
  <2> QED
    BY <1>1, <2>1 DEF Bus!StructOf
<1>4. CASE i = 3
  <2>1. Machine[d] = "blk" /\ Bus!Setup[i].struct = "minix" /\ d[2] = 2
    BY <1>4 DEF Bus!Setup, Bus!IdOf
  <2> QED
    BY <1>1, <2>1 DEF Bus!StructOf
<1>5. CASE i = 4
  <2>1. Machine[d] = "blk" /\ Bus!Setup[i].struct = "ext4" /\ d[2] = 3
    BY <1>5 DEF Bus!Setup, Bus!IdOf
  <2> QED
    BY <1>1, <2>1 DEF Bus!StructOf
<1>6. CASE i = 5
  <2>1. Machine[d] = "gpu" /\ Bus!Setup[i].struct = "gpu"
    BY <1>6 DEF Bus!Setup, Bus!IdOf
  <2> QED
    BY <1>1, <2>1 DEF Bus!StructOf
<1>7. CASE i = 6
  <2>1. Machine[d] = "input" /\ Bus!Setup[i].struct = "ipt" /\ d[2] = 0
    BY <1>7 DEF Bus!Setup, Bus!IdOf
  <2> QED
    BY <1>1, <2>1 DEF Bus!StructOf
<1>8. CASE i = 7
  <2>1. Machine[d] = "input" /\ Bus!Setup[i].struct = "keyboard" /\ d[2] = 1
    BY <1>8 DEF Bus!Setup, Bus!IdOf
  <2> QED
    BY <1>1, <2>1 DEF Bus!StructOf
<1> QED
  BY <1>2, <1>3, <1>4, <1>5, <1>6, <1>7, <1>8

\* No two entries of Setup have the same structure.
LEMMA StructsApart ==
  ASSUME NEW i \in 1 .. 7, NEW j \in 1 .. 7, Bus!Setup[i].struct = Bus!Setup[j].struct
  PROVE  i = j
BY DEF Bus!Setup

\* The structures of the drivers with their pointers.
StructsShaped(c) ==
  DOMAIN c = Bus!Structs /\ \A s \in Bus!Structs : DOMAIN c[s] = Bus!Pointers

\* One pointer of one structure is set.
LEMMA PointIs ==
  ASSUME NEW c, NEW d, NEW p \in Bus!Pointers, StructsShaped(c)
  PROVE  /\ StructsShaped(Bus!Point(c, d, p))
         /\ \A s \in Bus!Structs : \A q \in Bus!Pointers :
              Bus!Point(c, d, p)[s][q] =
                IF s = Bus!StructOf(d) /\ q = p THEN base[d][ConfigBar] ELSE c[s][q]
BY DEF Bus!Point, StructsShaped

\* All that the driver of device d reads is set to the address of its register.
LEMMA DevicePointed ==
  ASSUME NEW c, NEW d, StructsShaped(c)
  PROVE  LET e == Bus!DeviceCfg(Bus!IsrCfg(Bus!NotifyCfg(Bus!CommonCfg(c, d), d), d), d)
         IN  /\ StructsShaped(e)
             /\ \A s \in Bus!Structs : \A q \in Bus!Pointers :
                  s # Bus!StructOf(d) => e[s][q] = c[s][q]
             /\ \A q \in Bus!Pointers \ (IF Machine[d] = "rng" THEN {"device"} ELSE {}) :
                  Bus!StructOf(d) \in Bus!Structs => e[Bus!StructOf(d)][q] = base[d][ConfigBar]
<1> DEFINE c1 == Bus!CommonCfg(c, d)
           c2 == Bus!NotifyCfg(c1, d)
           c3 == Bus!IsrCfg(c2, d)
           c4 == Bus!DeviceCfg(c3, d)
<1>1. Bus!Pointers = {"common", "notify", "isr", "device"}
  BY DEF Bus!Pointers
<1>2. /\ StructsShaped(c1)
      /\ \A s \in Bus!Structs : \A q \in Bus!Pointers :
           c1[s][q] = IF s = Bus!StructOf(d) /\ q = "common" THEN base[d][ConfigBar] ELSE c[s][q]
  BY <1>1, PointIs DEF Bus!CommonCfg
<1> HIDE DEF c1
<1>3. /\ StructsShaped(c2)
      /\ \A s \in Bus!Structs : \A q \in Bus!Pointers :
           c2[s][q] = IF s = Bus!StructOf(d) /\ q = "notify" THEN base[d][ConfigBar] ELSE c1[s][q]
  BY <1>1, <1>2, PointIs DEF Bus!NotifyCfg
<1> HIDE DEF c2
<1>4. /\ StructsShaped(c3)
      /\ \A s \in Bus!Structs : \A q \in Bus!Pointers :
           c3[s][q] = IF s = Bus!StructOf(d) /\ q = "isr" THEN base[d][ConfigBar] ELSE c2[s][q]
  BY <1>1, <1>3, PointIs DEF Bus!IsrCfg
<1> HIDE DEF c3
<1>5. CASE Machine[d] = "rng"
  <2>1. c4 = c3
    BY <1>5 DEF Bus!DeviceCfg
  <2> HIDE DEF c4
  <2>2. /\ StructsShaped(c4)
        /\ \A s \in Bus!Structs : \A q \in Bus!Pointers : s # Bus!StructOf(d) => c4[s][q] = c[s][q]
        /\ \A q \in Bus!Pointers \ {"device"} :
             Bus!StructOf(d) \in Bus!Structs => c4[Bus!StructOf(d)][q] = base[d][ConfigBar]
    BY <1>1, <1>2, <1>3, <1>4, <2>1
  <2> QED
    BY <1>5, <2>2 DEF c1, c2, c3, c4
<1>6. CASE Machine[d] # "rng"
  <2>1. c4 = Bus!Point(c3, d, "device")
    BY <1>6 DEF Bus!DeviceCfg
  <2> HIDE DEF c4
  <2>2. /\ StructsShaped(c4)
        /\ \A s \in Bus!Structs : \A q \in Bus!Pointers :
             c4[s][q] = IF s = Bus!StructOf(d) /\ q = "device" THEN base[d][ConfigBar] ELSE c3[s][q]
    BY <1>1, <1>4, <2>1, PointIs
  <2>3. /\ \A s \in Bus!Structs : \A q \in Bus!Pointers : s # Bus!StructOf(d) => c4[s][q] = c[s][q]
        /\ \A q \in Bus!Pointers :
             Bus!StructOf(d) \in Bus!Structs => c4[Bus!StructOf(d)][q] = base[d][ConfigBar]
    BY <1>1, <1>2, <1>3, <1>4, <2>2
  <2> QED
    BY <1>6, <2>2, <2>3 DEF c1, c2, c3, c4
<1> QED
  BY <1>5, <1>6

\* pci_cape_ptr_check sets the structure of its own device, whose registers have addresses
\* by then (pci.c:383-604).
LEMMA CapePtrCheckStep ==
  ASSUME BusInv, Bus!CapePtrCheck
  PROVE  BusInv'
<1>1. /\ work = Bus!Idle /\ Bus!New = {} /\ Bus!Unconfigured = {} /\ step \in 1 .. 7
  BY DEF Bus!CapePtrCheck, Bus!Scanned, Bus!Setup, BusInv, BusTypes
<1>2. PICK p \in Ports : Bus!Rank(p) = Bus!Setup[step].bus
  BY <1>1, SetupDevice
<1>3. PICK d : d = <<p, Bus!Setup[step].slot>>
  OBVIOUS
<1>4. /\ d = Bus!DeviceAt(Bus!Setup[step].bus, Bus!Setup[step].slot)
      /\ d \in Bus!Devices /\ d \in Bus!Nodes /\ ConfigBar \in Bus!RegistersOf(d)
      /\ Machine[d] = Bus!IdOf(Bus!Setup[step].struct)
      /\ Bus!Setup[step].allocate \/ Bus!FirstOfId(d)
  BY <1>1, <1>2, <1>3, DeviceIs
<1>5. /\ UNCHANGED <<size, bus, drivers, base, free, shares, work>> /\ step' = step + 1
      /\ Bus!Setup[step].allocate => base[d][ConfigBar] # None
      /\ config' = Bus!DeviceCfg(Bus!IsrCfg(Bus!NotifyCfg(Bus!CommonCfg(config, d), d), d), d)
  BY <1>4 DEF Bus!CapePtrCheck
<1>6. base[d][ConfigBar] # None
  <2>1. CASE Bus!FirstOfId(d)
    <3>1. \A q \in Ports : bus[q] # 0
      BY <1>1 DEF Bus!Unconfigured
    <3>2. Machine[d] \in drivers
      BY <1>1, <1>4, <3>1, BusConstants DEF Bus!New
    <3>3. ~Untouched(d)
      BY <1>4, <2>1, <3>2 DEF BusInv, FirstsTaken
    <3> QED
      BY <1>1, <1>4, <3>3, IdleUntouched DEF BusInv, NodesWhole
  <2> QED
    BY <1>4, <1>5, <2>1
<1>7. /\ Bus!StructOf(d) = Bus!Setup[step].struct /\ Bus!Setup[step].struct \in Bus!Structs
      /\ Machine[d] = "rng" <=> Bus!Setup[step].struct = "rng"
  BY <1>1, <1>3, <1>4, StructIs
<1>8. /\ StructsShaped(config')
      /\ \A s \in Bus!Structs : \A q \in Bus!Pointers :
           s # Bus!Setup[step].struct => config'[s][q] = config[s][q]
      /\ \A q \in Bus!Pointers \ (IF Bus!Setup[step].struct = "rng" THEN {"device"} ELSE {}) :
           config'[Bus!Setup[step].struct][q] = base[d][ConfigBar]
  <2>1. StructsShaped(config)
    BY DEF BusInv, BusTypes, StructsShaped
  <2> QED
    BY <1>5, <1>7, <2>1, DevicePointed
<1>9. BusTypes'
  BY <1>1, <1>5, <1>8 DEF BusInv, BusTypes, StructsShaped
<1>10. Pointed'
  <2>1. \A i \in 1 .. step' - 1 : i \in 1 .. step - 1 \/ i = step
    BY <1>1, <1>5
  <2> SUFFICES ASSUME NEW i \in 1 .. step' - 1, NEW p1 \in Ports,
                      Bus!Rank(p1) = Bus!Setup[i].bus,
                      NEW q \in Bus!Pointers \
                                  (IF Bus!Setup[i].struct = "rng" THEN {"device"} ELSE {})
               PROVE  /\ config'[Bus!Setup[i].struct][q] # None
                      /\ config'[Bus!Setup[i].struct][q]
                           = base[<<p1, Bus!Setup[i].slot>>][ConfigBar]
    BY <1>5 DEF Pointed
  <2>2. CASE i = step
    <3>1. p1 = p
      BY <1>2, <2>2, RanksApart
    <3> QED
      BY <1>3, <1>6, <1>8, <2>2, <3>1
  <2>3. CASE i \in 1 .. step - 1
    <3>1. i # step /\ i \in 1 .. 7
      BY <1>1, <2>3
    <3>2. Bus!Setup[i].struct # Bus!Setup[step].struct
      BY <1>1, <3>1, StructsApart
    <3>3. Bus!Setup[i].struct \in Bus!Structs
      BY <3>1 DEF Bus!Structs, Bus!Setup
    <3>4. config'[Bus!Setup[i].struct][q] = config[Bus!Setup[i].struct][q]
      BY <1>8, <3>2, <3>3
    <3> QED
      BY <2>3, <3>4 DEF BusInv, Pointed
  <2> QED
    BY <2>1, <2>2, <2>3
<1>11. PortsRanked' /\ WalkOver' /\ Bus!WindowsApart' /\ SharesCounted' /\ BelowFree'
  BY <1>1, <1>5 DEF BusInv, PortsRanked, WalkOver, Bus!New, Bus!Unconfigured, Bus!WindowsApart,
                    Bus!Allocated, Bus!From, Bus!To, SharesCounted, HostShare, Touched, Untouched,
                    BelowFree
<1>12. WorkHalfway'
  <2>1. work.node = None /\ None \notin Bus!Nodes
    BY <1>1, BusConstants DEF Bus!Idle
  <2>2. free = Stride * shares
    BY <2>1, Zenon DEF BusInv, WorkHalfway
  <2> QED
    BY <1>1, <1>5, <2>2 DEF WorkHalfway
<1>13. NodesWhole' /\ FirstsTaken'
  BY <1>5 DEF BusInv, NodesWhole, FirstsTaken, Untouched
<1> QED
  BY <1>9, <1>10, <1>11, <1>12, <1>13 DEF BusInv

\* Before the walk nothing is numbered, registered or allocated.
LEMMA BusInit ==
  ASSUME Bus!Init
  PROVE  BusInv
<1>1. PICK s \in SizeChoices : Bus!InitWith(s)
  BY DEF Bus!Init
<1>2. /\ size \in SizeChoices /\ bus = [p \in Ports |-> 0] /\ drivers = {}
      /\ base = [n \in Bus!Nodes |-> [r \in Bus!RegistersOf(n) |-> None]]
      /\ free = 0 /\ shares = 0 /\ work = Bus!Idle /\ step = 1
      /\ config = [e \in Bus!Structs |-> [p \in Bus!Pointers |-> None]]
  BY <1>1 DEF Bus!InitWith
<1>3. Cardinality(Ports) \in Nat
  BY BusConstants, FS_CardinalityType
<1>4. BusTypes
  BY <1>2, <1>3 DEF BusTypes
<1>5. PortsRanked /\ WalkOver /\ Pointed
  BY <1>2 DEF PortsRanked, WalkOver, Pointed
<1>6. Bus!Allocated = {}
  <2>1. \A n \in Bus!Nodes : \A r \in Bus!RegistersOf(n) : base[n][r] = None
    BY <1>2
  <2> QED
    BY <2>1, AllocatedIs
<1>7. BelowFree /\ Bus!WindowsApart
  BY <1>6 DEF BelowFree, Bus!WindowsApart
<1>8. WorkHalfway
  BY <1>2, BusConstants DEF WorkHalfway
<1>9. \A n \in Bus!Nodes : Untouched(n)
  <2>1. \A n \in Bus!Nodes : \A r \in Bus!RegistersOf(n) : base[n][r] = None
    BY <1>2
  <2> QED
    BY <1>2, <2>1, IdleUntouched
<1>10. SharesCounted
  <2>1. Touched = {}
    BY <1>9 DEF Touched
  <2> QED
    BY <1>2, <2>1, FS_EmptySet DEF SharesCounted, HostShare
<1>11. NodesWhole /\ FirstsTaken
  BY <1>2, <1>9 DEF NodesWhole, FirstsTaken, Bus!Nodes
<1> QED
  BY <1>4, <1>5, <1>7, <1>8, <1>10, <1>11 DEF BusInv

\* The walk over the bus keeps what the parts of it rest on: the ports have their numbers
\* in order, every share belongs to one device, and an address lies in the shares given
\* out so far, in front of the free one (pci.c:113-194, 218-247, 280-364, 607-633).
THEOREM Enumerated == Bus!Spec => []BusInv
<1>1. Bus!Init => BusInv
  BY BusInit
<1>2. BusInv /\ [Bus!Next]_(Bus!vars) => BusInv'
  <2> SUFFICES ASSUME BusInv, [Bus!Next]_(Bus!vars) PROVE BusInv'
    OBVIOUS
  <2>1. CASE Bus!AllocateBar
    BY <2>1, AllocateBarStep
  <2>2. CASE Bus!NextShare
    BY <2>2, NextShareStep
  <2>3. CASE Bus!ConfigPort
    BY <2>3, ConfigPortStep
  <2>4. CASE Bus!RegisterDriver
    BY <2>4, RegisterDriverStep
  <2>5. CASE Bus!AllocateHere
    BY <2>5, AllocateHereStep
  <2>6. CASE Bus!CapePtrCheck
    BY <2>6, CapePtrCheckStep
  <2>7. CASE Bus!RegisterHost
    BY <2>7, RegisterHostStep
  <2>8. CASE UNCHANGED Bus!vars
    <3>1. UNCHANGED <<size, bus, drivers, base, free, shares, work, step, config>>
      BY <2>8 DEF Bus!vars
    <3>2. BusTypes' /\ PortsRanked' /\ WalkOver' /\ Pointed'
      BY <3>1 DEF BusInv, BusTypes, PortsRanked, WalkOver, Pointed, Bus!New, Bus!Unconfigured
    <3>3. WorkHalfway'
      BY <3>1 DEF BusInv, WorkHalfway, WorkFrom, ListOf
    <3>4. BelowFree' /\ Bus!WindowsApart'
      BY <3>1 DEF BusInv, BelowFree, Bus!WindowsApart, Bus!Allocated, Bus!From, Bus!To
    <3>5. SharesCounted'
      BY <3>1 DEF BusInv, SharesCounted, HostShare, Touched, Untouched
    <3>6. NodesWhole' /\ FirstsTaken'
      BY <3>1 DEF BusInv, NodesWhole, FirstsTaken, Untouched
    <3> QED
      BY <3>2, <3>3, <3>4, <3>5, <3>6 DEF BusInv
  <2> QED
    BY <2>1, <2>2, <2>3, <2>4, <2>5, <2>6, <2>7, <2>8 DEF Bus!Next
<1> QED
  BY <1>1, <1>2, PTL DEF Bus!Spec

\* What the enumeration promises follows.
LEMMA BusInvConfigured ==
  ASSUME BusInv
  PROVE  Configured
<1>1. Bus!TypeOK
  <2>1. \A n \in Bus!Nodes : \A r \in Bus!RegistersOf(n) : size[Bus!Kind(n)][r] \in 1 .. Pad
    BY ListFacts DEF BusInv, BusTypes
  <2>2. bus \in [Ports -> 0 .. Bus!Cardinality(Ports)]
    BY SameCounts DEF BusInv, BusTypes
  <2>3. \A p, q \in Ports : bus[p] = bus[q] => p = q \/ bus[p] = 0
    BY RanksApart DEF BusInv, PortsRanked
  <2>4. step \in 1 .. Len(Bus!Setup) + 1
    BY DEF BusInv, BusTypes, Bus!Setup
  <2> QED
    BY <2>1, <2>2, <2>3, <2>4 DEF Bus!TypeOK, BusInv, BusTypes
<1>2. Bus!OwnRegisters
  <2> SUFFICES ASSUME NEW i \in 1 .. step - 1,
                      NEW q \in Bus!Pointers \
                                  (IF Bus!Setup[i].struct = "rng" THEN {"device"} ELSE {})
               PROVE  /\ config[Bus!Setup[i].struct][q] # None
                      /\ config[Bus!Setup[i].struct][q]
                           = base[Bus!DeviceAt(Bus!Setup[i].bus, Bus!Setup[i].slot)][ConfigBar]
    BY DEF Bus!OwnRegisters
  <2>1. i \in 1 .. 7 /\ step > 1
    BY DEF BusInv, BusTypes
  <2>2. PICK p \in Ports : Bus!Rank(p) = Bus!Setup[i].bus
    BY <2>1, SetupDevice
  <2>3. Bus!Unconfigured = {}
    BY <2>1 DEF BusInv, WalkOver
  <2>4. Bus!DeviceAt(Bus!Setup[i].bus, Bus!Setup[i].slot) = <<p, Bus!Setup[i].slot>>
    BY <2>1, <2>2, <2>3, DeviceIs
  <2> QED
    BY <2>2, <2>4 DEF BusInv, Pointed
<1> QED
  BY <1>1, <1>2 DEF BusInv, Configured

\* No two address registers overlap and all lie behind the bridges, and every structure
\* points to the registers of its own device, for any sizes the devices report and any
\* machine with the devices of src/Makefile (pci.c:223-245, 295-378, 607-633).
THEOREM ConfiguredAlways == Bus!Spec => []Configured
BY Enumerated, BusInvConfigured, PTL

----------------------------------------------------------------------------
(* The walk over a Minix disk *)

\* What holds at 0 and goes on from one number to the next.
LEMMA UpTo ==
  ASSUME NEW n \in Nat, NEW S, 0 \in S, \A m \in 1 .. n : m - 1 \in S => m \in S
  PROVE  0 .. n \subseteq S
<1> DEFINE bad == {m \in 0 .. n : m \notin S}
<1> SUFFICES ASSUME bad # {} PROVE FALSE
  OBVIOUS
<1>1. bad \in SUBSET Nat
  OBVIOUS
<1>2. PICK m \in bad : \A k \in bad : m <= k
  BY <1>1, LeastNat
<1>3. m \in 1 .. n /\ m - 1 \in 0 .. n
  BY <1>1
<1>4. m - 1 \notin bad
  BY <1>1, <1>2, <1>3
<1> QED
  BY <1>3, <1>4

\* What lies below the paths of a set.
Beneath(d, P) ==
  UNION {{<<Minix!EntryOf(d, p[1], k).inode, p[2] \o <<"/", Minix!EntryOf(d, p[1], k).name>> >> :
           k \in Minix!Places(d, p[1])} :
         p \in {q \in P : d.inode[q[1]].dir}}

LEMMA PathsAre ==
  ASSUME NEW d
  PROVE  /\ Minix!PathsOfLength(d)[0] = {<<1, <<>> >>}
         /\ \A l \in 1 .. Depth :
              Minix!PathsOfLength(d)[l] = Beneath(d, Minix!PathsOfLength(d)[l - 1])
<1>0. Depth \in Nat
  BY DisksAssumption
<1> DEFINE To(m, w) == /\ w = [i \in 0 .. m |-> w[i]] /\ w[0] = {<<1, <<>> >>}
                       /\ \A i \in 1 .. m : w[i] = Beneath(d, w[i - 1])
           good == {m \in 0 .. Depth : \E w : To(m, w)}
           Is(w) == w = [i \in 0 .. Depth |->
                           IF i = 0 THEN {<<1, <<>> >>} ELSE Beneath(d, w[i - 1])]
<1>1. 0 .. Depth \subseteq good
  <2>1. 0 \in good
    <3>1. To(0, [i \in 0 .. 0 |-> {<<1, <<>> >>}])
      OBVIOUS
    <3>2. 0 \in 0 .. Depth
      BY <1>0
    <3> HIDE DEF To
    <3> QED
      BY <3>1, <3>2
  <2>2. ASSUME NEW m \in 1 .. Depth, m - 1 \in good PROVE m \in good
    <3>1. PICK w : To(m - 1, w)
      BY <2>2
    <3> DEFINE v == [i \in 0 .. m |-> IF i = m THEN Beneath(d, w[m - 1]) ELSE w[i]]
    <3>2. v = [i \in 0 .. m |-> v[i]] /\ v[0] = {<<1, <<>> >>}
      BY <3>1
    <3>3. ASSUME NEW i \in 1 .. m PROVE v[i] = Beneath(d, v[i - 1])
      <4>1. i - 1 \in 0 .. m /\ i - 1 # m /\ i \in 0 .. m /\ v[i - 1] = w[i - 1]
        OBVIOUS
      <4>2. CASE i = m
        BY <4>1, <4>2
      <4>3. CASE i # m
        <5>1. i \in 1 .. m - 1
          BY <4>3
        <5> QED
          BY <3>1, <4>1, <4>3, <5>1
      <4> QED
        BY <4>2, <4>3
    <3>4. To(m, v)
      BY <3>2, <3>3
    <3>5. m \in 0 .. Depth
      OBVIOUS
    <3> HIDE DEF To, v
    <3> QED
      BY <3>4, <3>5
  <2> HIDE DEF good
  <2> QED
    BY <1>0, <2>1, <2>2, UpTo
<1>2. PICK w : To(Depth, w)
  <2>1. Depth \in good
    BY <1>0, <1>1
  <2> HIDE DEF To
  <2> QED
    BY <2>1
<1>3. Is(w)
  <2>1. ASSUME NEW i \in 0 .. Depth
        PROVE  w[i] = IF i = 0 THEN {<<1, <<>> >>} ELSE Beneath(d, w[i - 1])
    <3>1. CASE i = 0
      BY Zenon, <1>2, <3>1
    <3>2. CASE i # 0
      <4>1. i \in 1 .. Depth
        BY <1>0, <3>2
      <4> QED
        BY Zenon, <1>2, <3>2, <4>1
    <3> QED
      BY <3>1, <3>2
  <2>2. w = [i \in 0 .. Depth |-> w[i]]
    BY Zenon, <1>2
  <2> QED
    BY Zenon, <2>1, <2>2
<1>4. Minix!PathsOfLength(d) = CHOOSE f : Is(f)
  BY Zenon DEF Minix!PathsOfLength, Beneath
<1>5. Is(Minix!PathsOfLength(d))
  <2> HIDE DEF Is
  <2> QED
    BY Zenon, <1>3, <1>4
<1> DEFINE P == Minix!PathsOfLength(d)
<1>6. Is(P)
  BY <1>5
<1> HIDE DEF P
<1>7. P[0] = {<<1, <<>> >>} /\ \A l \in 1 .. Depth : P[l] = Beneath(d, P[l - 1])
  <2>1. \A i \in 0 .. Depth : P[i] = IF i = 0 THEN {<<1, <<>> >>} ELSE Beneath(d, P[i - 1])
    BY Zenon, <1>6
  <2>2. 0 \in 0 .. Depth /\ \A l \in 1 .. Depth : l \in 0 .. Depth /\ l # 0
    BY <1>0
  <2>3. P[0] = {<<1, <<>> >>}
    BY Zenon, <2>1, <2>2
  <2>4. \A l \in 1 .. Depth : P[l] = Beneath(d, P[l - 1])
    BY Zenon, <2>1, <2>2
  <2> QED
    BY Zenon, <2>3, <2>4
<1> QED
  BY <1>7 DEF P

\* One step further down the disk.
PathStep(d, x, p, k) ==
  /\ d.inode[p[1]].dir /\ k \in Minix!Places(d, p[1])
  /\ x = <<Minix!EntryOf(d, p[1], k).inode, p[2] \o <<"/", Minix!EntryOf(d, p[1], k).name>> >>

LEMMA BeneathIs ==
  ASSUME NEW d, NEW P, NEW x \in Beneath(d, P)
  PROVE  \E p \in P : \E k : PathStep(d, x, p, k)
BY Zenon DEF Beneath, PathStep

LEMMA BeneathHas ==
  ASSUME NEW d, NEW P, NEW p \in P, d.inode[p[1]].dir, NEW k \in Minix!Places(d, p[1])
  PROVE  <<Minix!EntryOf(d, p[1], k).inode, p[2] \o <<"/", Minix!EntryOf(d, p[1], k).name>> >>
           \in Beneath(d, P)
<1> DEFINE Of(q) ==
             {<<Minix!EntryOf(d, q[1], j).inode, q[2] \o <<"/", Minix!EntryOf(d, q[1], j).name>> >> :
               j \in Minix!Places(d, q[1])}
           Dirs == {q \in P : d.inode[q[1]].dir}
<1>1. <<Minix!EntryOf(d, p[1], k).inode, p[2] \o <<"/", Minix!EntryOf(d, p[1], k).name>> >> \in Of(p)
  BY Zenon
<1>2. p \in Dirs
  BY Zenon
<1>3. Of(p) \in {Of(q) : q \in Dirs}
  <2> HIDE DEF Of, Dirs
  <2> QED
    BY Zenon, <1>2
<1>4. Beneath(d, P) = UNION {Of(q) : q \in Dirs}
  BY Zenon DEF Beneath
<1> HIDE DEF Of, Dirs
<1> QED
  BY Zenon, <1>1, <1>3, <1>4

\* What paths are made of.
Words(d) ==
  {"/"} \cup UNION {{Minix!EntryOf(d, n, k).name : k \in Minix!Places(d, n)} :
                    n \in DOMAIN d.inode}

LEMMA WordsHave ==
  ASSUME NEW d, NEW n \in DOMAIN d.inode, NEW k \in Minix!Places(d, n)
  PROVE  Minix!EntryOf(d, n, k).name \in Words(d)
<1> DEFINE Of(m) == {Minix!EntryOf(d, m, j).name : j \in Minix!Places(d, m)}
           Inodes == DOMAIN d.inode
<1>1. Minix!EntryOf(d, n, k).name \in Of(n)
  BY Zenon
<1>2. Of(n) \in {Of(m) : m \in Inodes}
  <2> HIDE DEF Of
  <2> QED
    BY Zenon
<1>3. Words(d) = {"/"} \cup UNION {Of(m) : m \in Inodes}
  BY Zenon DEF Words
<1> HIDE DEF Of, Inodes
<1> QED
  BY Zenon, <1>1, <1>2, <1>3

\* A path with a slash and a name behind it.
Longer(d, t, s, name) ==
  /\ t \in Seq(Words(d)) /\ Len(t) = Len(s) + 2
  /\ \A i \in 1 .. Len(s) : t[i] = s[i]
  /\ t[Len(s) + 1] = "/" /\ t[Len(s) + 2] = name

LEMMA TwoMore ==
  ASSUME NEW d, NEW s \in Seq(Words(d)), NEW name \in Words(d)
  PROVE  Longer(d, s \o <<"/", name>>, s, name)
<1>1. \A a, b \in Words(d) : <<a, b>> \in Seq(Words(d)) /\ Len(<<a, b>>) = 2
  OBVIOUS
<1>2. "/" \in Words(d)
  BY DEF Words
<1>3. <<"/", name>> \in Seq(Words(d)) /\ Len(<<"/", name>>) = 2
  BY Zenon, <1>1, <1>2
<1> QED
  BY <1>3 DEF Longer

\* The entries of a directory.
EntryGood(d, n, k) ==
  /\ Minix!EntryOf(d, n, k).inode \in DOMAIN d.inode
  /\ Minix!EntryOf(d, n, k).name # ""
  /\ \A j \in Minix!Places(d, n) :
       Minix!EntryOf(d, n, j).name = Minix!EntryOf(d, n, k).name => j = k

LEMMA EntriesGood ==
  ASSUME NEW d, Minix!WellFormed(d), NEW n \in DOMAIN d.inode, d.inode[n].dir,
         NEW k \in Minix!Places(d, n)
  PROVE  EntryGood(d, n, k)
BY Zenon DEF Minix!WellFormed, EntryGood

PathShaped(d, x, l) ==
  /\ x = <<x[1], x[2]>> /\ x[1] \in DOMAIN d.inode
  /\ x[2] \in Seq(Words(d)) /\ Len(x[2]) = 2 * l

\* A step of which the lengths and the prefixes are known.
StepKnown(d, x, p, k, l) ==
  /\ PathShaped(d, p, l) /\ PathShaped(d, x, l + 1)
  /\ d.inode[p[1]].dir /\ k \in Minix!Places(d, p[1])
  /\ x[1] = Minix!EntryOf(d, p[1], k).inode
  /\ \A i \in 1 .. 2 * l : x[2][i] = p[2][i]
  /\ x[2][2 * l + 1] = "/" /\ x[2][2 * l + 2] = Minix!EntryOf(d, p[1], k).name

LEMMA StepsGood ==
  ASSUME NEW d, Minix!WellFormed(d), NEW l \in Nat, NEW p, PathShaped(d, p, l),
         NEW x, NEW k, PathStep(d, x, p, k)
  PROVE  StepKnown(d, x, p, k, l)
<1> DEFINE e == Minix!EntryOf(d, p[1], k)
<1>1. EntryGood(d, p[1], k)
  BY EntriesGood DEF PathStep, PathShaped
<1>2. e.inode \in DOMAIN d.inode /\ e.name \in Words(d)
  <2>1. p[1] \in DOMAIN d.inode /\ k \in Minix!Places(d, p[1])
    BY DEF PathStep, PathShaped
  <2> QED
    BY <1>1, <2>1, WordsHave DEF EntryGood
<1>3. p[2] \in Seq(Words(d)) /\ Len(p[2]) = 2 * l
  BY DEF PathShaped
<1>4. x[1] = e.inode /\ x[2] = p[2] \o <<"/", e.name>> /\ x = <<x[1], x[2]>>
  BY DEF PathStep
<1> HIDE DEF e
<1>5. /\ x[2] \in Seq(Words(d)) /\ Len(x[2]) = 2 * l + 2
      /\ \A i \in 1 .. 2 * l : x[2][i] = p[2][i]
      /\ x[2][2 * l + 1] = "/" /\ x[2][2 * l + 2] = e.name
  <2>1. Longer(d, x[2], p[2], e.name)
    BY Zenon, <1>2, <1>3, <1>4, TwoMore
  <2> QED
    BY <1>3, <2>1 DEF Longer
<1>6. PathShaped(d, x, l + 1)
  <2>1. 2 * l + 2 = 2 * (l + 1)
    OBVIOUS
  <2> QED
    BY <1>2, <1>4, <1>5, <2>1 DEF PathShaped
<1> QED
  BY <1>4, <1>5, <1>6 DEF e, StepKnown, PathStep

LEMMA PathsFrom ==
  ASSUME NEW d, NEW l \in 1 .. Depth, NEW x \in Minix!PathsOfLength(d)[l]
  PROVE  \E p \in Minix!PathsOfLength(d)[l - 1] : \E k : PathStep(d, x, p, k)
<1>1. x \in Beneath(d, Minix!PathsOfLength(d)[l - 1])
  BY Zenon, PathsAre
<1> QED
  BY Zenon, <1>1, BeneathIs

LEMMA PathsShaped ==
  ASSUME NEW d, Minix!WellFormed(d)
  PROVE  \A l \in 0 .. Depth : \A x \in Minix!PathsOfLength(d)[l] : PathShaped(d, x, l)
<1> DEFINE P == Minix!PathsOfLength(d)
           good == {l \in 0 .. Depth : \A x \in P[l] : PathShaped(d, x, l)}
<1>0. Depth \in Nat
  BY DisksAssumption
<1>1. 0 \in good
  <2>1. P[0] = {<<1, <<>> >>}
    BY Zenon, PathsAre
  <2>2. 1 \in DOMAIN d.inode
    BY DEF Minix!WellFormed
  <2>3. PathShaped(d, <<1, <<>> >>, 0)
    BY <2>2 DEF PathShaped
  <2> HIDE DEF P
  <2> QED
    BY <1>0, <2>1, <2>3
<1>2. ASSUME NEW l \in 1 .. Depth, l - 1 \in good PROVE l \in good
  <2>1. ASSUME NEW x \in P[l] PROVE PathShaped(d, x, l)
    <3>1. PICK p \in P[l - 1] : \E k : PathStep(d, x, p, k)
      BY Zenon, PathsFrom
    <3>2. PICK k : PathStep(d, x, p, k)
      BY <3>1
    <3>3. PathShaped(d, p, l - 1)
      BY <1>2
    <3>4. l - 1 \in Nat /\ l - 1 + 1 = l
      BY <1>0
    <3>5. StepKnown(d, x, p, k, l - 1)
      BY Zenon, <3>2, <3>3, <3>4, StepsGood
    <3> QED
      BY <3>4, <3>5 DEF StepKnown
  <2> HIDE DEF P
  <2> QED
    BY <1>0, <2>1
<1>3. 0 .. Depth \subseteq good
  <2> HIDE DEF good
  <2> QED
    BY <1>0, <1>1, <1>2, UpTo
<1> QED
  BY <1>3

LEMMA PathsFromKnown ==
  ASSUME NEW d, Minix!WellFormed(d), NEW l \in 0 .. Depth - 1,
         NEW x \in Minix!PathsOfLength(d)[l + 1]
  PROVE  \E p \in Minix!PathsOfLength(d)[l] : \E k : StepKnown(d, x, p, k, l)
<1>0. Depth \in Nat
  BY DisksAssumption
<1> DEFINE P == Minix!PathsOfLength(d)
<1>1. l + 1 \in 1 .. Depth /\ (l + 1) - 1 = l /\ l \in Nat /\ l \in 0 .. Depth
  BY <1>0
<1>2. \E p \in P[(l + 1) - 1] : \E k : PathStep(d, x, p, k)
  BY Zenon, <1>1, PathsFrom
<1>3. PICK p \in P[l] : \E k : PathStep(d, x, p, k)
  BY <1>1, <1>2
<1>4. PICK k : PathStep(d, x, p, k)
  BY <1>3
<1>5. PathShaped(d, p, l)
  BY Zenon, <1>1, PathsShaped
<1>6. StepKnown(d, x, p, k, l)
  BY Zenon, <1>1, <1>4, <1>5, StepsGood
<1> QED
  BY Zenon, <1>6

LEMMA SameSequence ==
  ASSUME NEW S, NEW s \in Seq(S), NEW t \in Seq(S), Len(s) = Len(t),
         \A i \in 1 .. Len(s) : s[i] = t[i]
  PROVE  s = t
OBVIOUS

\* A path leads to one inode.
LEMMA PathsLead ==
  ASSUME NEW d, Minix!WellFormed(d)
  PROVE  \A l \in 0 .. Depth : \A x, y \in Minix!PathsOfLength(d)[l] : x[2] = y[2] => x = y
<1> DEFINE P == Minix!PathsOfLength(d)
           good == {l \in 0 .. Depth : \A x, y \in P[l] : x[2] = y[2] => x = y}
<1>0. Depth \in Nat
  BY DisksAssumption
<1>1. 0 \in good
  <2>1. P[0] = {<<1, <<>> >>}
    BY Zenon, PathsAre
  <2> HIDE DEF P
  <2> QED
    BY <1>0, <2>1
<1>2. ASSUME NEW m \in 1 .. Depth, m - 1 \in good PROVE m \in good
  <2> DEFINE l == m - 1
  <2>0. l \in 0 .. Depth - 1 /\ l + 1 = m /\ l \in Nat /\ l \in 0 .. Depth
    BY <1>0
  <2>1. ASSUME NEW x \in P[m], NEW y \in P[m], x[2] = y[2] PROVE x = y
    <3> HIDE DEF l, P
    <3>0. x \in P[l + 1] /\ y \in P[l + 1]
      BY <2>0
    <3>1. PICK p \in P[l] : \E k : StepKnown(d, x, p, k, l)
      BY Zenon, <2>0, <3>0, PathsFromKnown DEF P
    <3>2. PICK k : StepKnown(d, x, p, k, l)
      BY <3>1
    <3>3. PICK q \in P[l] : \E j : StepKnown(d, y, q, j, l)
      BY Zenon, <2>0, <3>0, PathsFromKnown DEF P
    <3>4. PICK j : StepKnown(d, y, q, j, l)
      BY <3>3
    <3>5. p[2] = q[2]
      <4>1. PathShaped(d, p, l) /\ PathShaped(d, q, l)
        BY <3>2, <3>4 DEF StepKnown
      <4>2. \A i \in 1 .. 2 * l : p[2][i] = q[2][i]
        BY Zenon, <2>1, <3>2, <3>4 DEF StepKnown
      <4>3. /\ p[2] \in Seq(Words(d)) /\ q[2] \in Seq(Words(d))
            /\ Len(p[2]) = 2 * l /\ Len(q[2]) = 2 * l
        BY <4>1 DEF PathShaped
      <4>4. \A i \in 1 .. Len(p[2]) : p[2][i] = q[2][i]
        BY <4>2, <4>3
      <4>5. Len(p[2]) = Len(q[2])
        BY <4>3
      <4> QED
        BY Zenon, <4>3, <4>4, <4>5, SameSequence
    <3>6. p = q
      BY Zenon, <1>2, <3>5 DEF l
    <3>7. Minix!EntryOf(d, p[1], k).name = Minix!EntryOf(d, p[1], j).name
      BY Zenon, <2>1, <3>2, <3>4, <3>6 DEF StepKnown
    <3>8. p[1] \in DOMAIN d.inode
      BY <3>2 DEF StepKnown, PathShaped
    <3>9. d.inode[p[1]].dir /\ k \in Minix!Places(d, p[1]) /\ j \in Minix!Places(d, p[1])
      BY <3>2, <3>4, <3>6 DEF StepKnown
    <3>10. k = j
      <4>1. EntryGood(d, p[1], j)
        BY Zenon, <3>8, <3>9, EntriesGood
      <4> QED
        BY Zenon, <3>7, <3>9, <4>1 DEF EntryGood
    <3>11. x[1] = y[1]
      BY Zenon, <3>2, <3>4, <3>6, <3>10 DEF StepKnown
    <3>12. x = <<x[1], x[2]>> /\ y = <<y[1], y[2]>>
      BY Zenon, <3>2, <3>4 DEF StepKnown, PathShaped
    <3> QED
      BY <2>1, <3>11, <3>12
  <2> HIDE DEF P
  <2> QED
    BY <1>0, <2>1
<1>3. 0 .. Depth \subseteq good
  <2> HIDE DEF good
  <2> QED
    BY <1>0, <1>1, <1>2, UpTo
<1> QED
  BY <1>3

\* It starts with the paths of what lies above.
Starts(p, q, l) == Len(q) >= 2 * l /\ \A i \in 1 .. 2 * l : q[i] = p[i]

LEMMA PathsAbove ==
  ASSUME NEW d, Minix!WellFormed(d), NEW l \in 0 .. Depth
  PROVE  \A m \in 0 .. Depth : l <= m =>
           \A x \in Minix!PathsOfLength(d)[m] :
             \E y \in Minix!PathsOfLength(d)[l] : Starts(y[2], x[2], l)
<1> DEFINE P == Minix!PathsOfLength(d)
           Has(m) == \A x \in P[m] : \E y \in P[l] : Starts(y[2], x[2], l)
           good == {m \in 0 .. Depth : l <= m => Has(m)}
<1>0. Depth \in Nat
  BY DisksAssumption
<1>1. ASSUME NEW x \in P[l] PROVE Starts(x[2], x[2], l)
  <2>1. PathShaped(d, x, l)
    BY Zenon, PathsShaped
  <2> QED
    BY <2>1 DEF Starts, PathShaped
<1>2. Has(l)
  BY Zenon, <1>1
<1>3. 0 \in good
  <2>1. l <= 0 => l = 0
    BY <1>0
  <2> HIDE DEF Has
  <2> QED
    BY <1>0, <1>2, <2>1
<1>4. ASSUME NEW m \in 1 .. Depth, m - 1 \in good PROVE m \in good
  <2>1. CASE l = m
    <3> HIDE DEF Has
    <3> QED
      BY <1>0, <1>2, <2>1
  <2>2. CASE l > m
    <3> HIDE DEF Has
    <3> QED
      BY <1>0, <2>2
  <2>3. CASE l < m
    <3> DEFINE b == m - 1
    <3>1. b \in 0 .. Depth - 1 /\ b + 1 = m /\ l <= b /\ b \in Nat /\ b \in good
      BY <1>0, <1>4, <2>3
    <3>2. Has(b)
      <4> HIDE DEF Has, b
      <4> QED
        BY <3>1
    <3> HIDE DEF b
    <3>3. ASSUME NEW x \in P[m] PROVE \E y \in P[l] : Starts(y[2], x[2], l)
      <4>1. x \in P[b + 1]
        BY <3>1, Zenon
      <4>2. PICK p \in P[b] : \E k : StepKnown(d, x, p, k, b)
        BY Zenon, <3>1, <4>1, PathsFromKnown
      <4>3. PICK k : StepKnown(d, x, p, k, b)
        BY <4>2
      <4>4. PICK y \in P[l] : Starts(y[2], p[2], l)
        BY <3>2, Zenon
      <4>5. Starts(y[2], x[2], l)
        <5>1. \A i \in 1 .. 2 * b : x[2][i] = p[2][i]
          BY Zenon, <4>3 DEF StepKnown
        <5>2. Len(x[2]) = 2 * (b + 1)
          BY <4>3 DEF StepKnown, PathShaped
        <5> QED
          BY <3>1, <4>4, <5>1, <5>2 DEF Starts
      <4> QED
        BY <4>5, Zenon
    <3>4. Has(m)
      BY <3>3, Zenon
    <3> HIDE DEF Has
    <3> QED
      BY <1>0, <3>4
  <2> QED
    BY <1>0, <2>1, <2>2, <2>3
<1>5. 0 .. Depth \subseteq good
  <2> HIDE DEF good
  <2> QED
    BY <1>0, <1>3, <1>4, UpTo
<1> QED
  <2>1. \A m \in 0 .. Depth : l <= m => Has(m)
    <3> HIDE DEF Has
    <3> QED
      BY <1>5
  <2> QED
    BY <2>1, Zenon

LEMMA OnDiskIs ==
  ASSUME NEW d, NEW q
  PROVE  q \in Minix!OnDisk(d) <=> \E l \in 1 .. Depth : q \in Minix!PathsOfLength(d)[l]
<1> DEFINE P(l) == Minix!PathsOfLength(d)[l]
<1>1. Minix!OnDisk(d) = UNION {P(l) : l \in 1 .. Depth}
  BY Zenon DEF Minix!OnDisk
<1> HIDE DEF P
<1>2. q \in Minix!OnDisk(d) <=> \E l \in 1 .. Depth : q \in P(l)
  BY <1>1
<1> QED
  BY <1>2 DEF P

\* Directories lie above each other, so that none is at Depth.
LEMMA DirectoriesAbove ==
  ASSUME NEW d, Minix!WellFormed(d)
  PROVE  \A l \in 0 .. Depth : \A x \in Minix!PathsOfLength(d)[l] :
           d.inode[x[1]].dir => l < Depth
<1> DEFINE P == Minix!PathsOfLength(d)
           Above(lev) ==
             \A n \in DOMAIN d.inode : d.inode[n].dir =>
               \A k \in Minix!Places(d, n) :
                 d.inode[Minix!EntryOf(d, n, k).inode].dir =>
                   lev[n] < lev[Minix!EntryOf(d, n, k).inode]
<1>0. Depth \in Nat
  BY DisksAssumption
<1>1. PICK level \in [DOMAIN d.inode -> 1 .. Depth] : Above(level)
  BY Zenon DEF Minix!WellFormed
<1> HIDE DEF Above
<1> DEFINE Low(l) == \A x \in P[l] : d.inode[x[1]].dir => l < level[x[1]]
           good == {l \in 0 .. Depth : Low(l)}
<1>2. 0 \in good
  <2>1. P[0] = {<<1, <<>> >>}
    BY Zenon, PathsAre
  <2>2. 1 \in DOMAIN d.inode
    BY DEF Minix!WellFormed
  <2>3. level[1] \in 1 .. Depth
    BY <2>2
  <2> HIDE DEF P
  <2> QED
    BY <1>0, <2>1, <2>3
<1>3. ASSUME NEW m \in 1 .. Depth, m - 1 \in good PROVE m \in good
  <2> DEFINE l == m - 1
  <2>0. l \in 0 .. Depth - 1 /\ l + 1 = m /\ l \in Nat /\ l \in 0 .. Depth /\ Low(l)
    BY <1>0, <1>3
  <2>1. ASSUME NEW x \in P[m], d.inode[x[1]].dir PROVE m < level[x[1]]
    <3> HIDE DEF l, P
    <3>0. x \in P[l + 1]
      BY <2>0
    <3>1. PICK p \in P[l] : \E k : StepKnown(d, x, p, k, l)
      BY Zenon, <2>0, <3>0, PathsFromKnown DEF P
    <3>2. PICK k : StepKnown(d, x, p, k, l)
      BY <3>1
    <3>3. /\ p[1] \in DOMAIN d.inode /\ x[1] \in DOMAIN d.inode
          /\ d.inode[p[1]].dir /\ k \in Minix!Places(d, p[1])
          /\ x[1] = Minix!EntryOf(d, p[1], k).inode
      BY <3>2 DEF StepKnown, PathShaped
    <3>4. l < level[p[1]]
      BY Zenon, <2>0, <3>3
    <3>5. level[p[1]] < level[x[1]]
      BY Zenon, <1>1, <2>1, <3>3 DEF Above
    <3>6. level[p[1]] \in 1 .. Depth /\ level[x[1]] \in 1 .. Depth
      BY <3>3
    <3> QED
      BY <1>0, <2>0, <3>4, <3>5, <3>6
  <2>2. Low(m)
    BY Zenon, <2>1
  <2> HIDE DEF Low
  <2> QED
    BY <1>0, <2>2
<1>4. 0 .. Depth \subseteq good
  <2> HIDE DEF good
  <2> QED
    BY <1>0, <1>2, <1>3, UpTo
<1>5. ASSUME NEW l \in 0 .. Depth, NEW x \in P[l], d.inode[x[1]].dir PROVE l < Depth
  <2>1. Low(l)
    <3> HIDE DEF Low
    <3> QED
      BY <1>4
  <2>2. l < level[x[1]]
    BY Zenon, <1>5, <2>1
  <2>3. x[1] \in DOMAIN d.inode
    <3>1. PathShaped(d, x, l)
      BY Zenon, PathsShaped
    <3> QED
      BY <3>1 DEF PathShaped
  <2>4. level[x[1]] \in 1 .. Depth
    BY <2>3
  <2> QED
    BY <1>0, <2>2, <2>4
<1> QED
  BY Zenon, <1>5

LEMMA PathsDeeper ==
  ASSUME NEW d, Minix!WellFormed(d), NEW l \in 0 .. Depth,
         NEW x \in Minix!PathsOfLength(d)[l], d.inode[x[1]].dir,
         NEW k \in Minix!Places(d, x[1])
  PROVE  /\ l + 1 \in 1 .. Depth
         /\ \E y \in Minix!PathsOfLength(d)[l + 1] : StepKnown(d, y, x, k, l)
<1>0. Depth \in Nat
  BY DisksAssumption
<1>1. l < Depth
  BY Zenon, DirectoriesAbove
<1>2. l + 1 \in 1 .. Depth /\ (l + 1) - 1 = l /\ l \in Nat
  BY <1>0, <1>1
<1> DEFINE y == <<Minix!EntryOf(d, x[1], k).inode,
                  x[2] \o <<"/", Minix!EntryOf(d, x[1], k).name>> >>
<1>3. Minix!PathsOfLength(d)[l + 1] = Beneath(d, Minix!PathsOfLength(d)[(l + 1) - 1])
  BY Zenon, <1>2, PathsAre
<1>4. y \in Minix!PathsOfLength(d)[l + 1]
  <2>1. y \in Beneath(d, Minix!PathsOfLength(d)[l])
    BY Zenon, BeneathHas
  <2> HIDE DEF y
  <2> QED
    BY <1>2, <1>3, <2>1
<1>5. PathShaped(d, x, l)
  BY Zenon, PathsShaped
<1>6. PathStep(d, y, x, k)
  BY Zenon DEF PathStep
<1>7. StepKnown(d, y, x, k, l)
  BY Zenon, <1>2, <1>5, <1>6, StepsGood
<1> QED
  BY Zenon, <1>2, <1>4, <1>7

\* What is on the disk, and starts as the path of an inode does, is that inode, or it is
\* a directory and an entry of it goes on.
GoesOn(d, n, q, l) ==
  /\ d.inode[n].dir /\ Len(q) >= 2 * l + 2 /\ q[2 * l + 1] = "/"
  /\ \E k \in Minix!Places(d, n) : q[2 * l + 2] = Minix!EntryOf(d, n, k).name

LEMMA PathsGoOn ==
  ASSUME NEW d, Minix!WellFormed(d), NEW l \in 0 .. Depth,
         NEW x \in Minix!PathsOfLength(d)[l], NEW q \in Minix!OnDisk(d),
         Starts(x[2], q[2], l)
  PROVE  IF Len(q[2]) = 2 * l THEN q = x ELSE GoesOn(d, x[1], q[2], l)
<1> DEFINE P == Minix!PathsOfLength(d)
<1>0. Depth \in Nat
  BY DisksAssumption
<1>1. PICK m \in 1 .. Depth : q \in P[m]
  BY Zenon, OnDiskIs
<1>2. m \in 0 .. Depth /\ l \in Nat /\ m \in Nat
  BY <1>0
<1>3. PathShaped(d, q, m) /\ PathShaped(d, x, l)
  BY Zenon, <1>1, <1>2, PathsShaped
<1>4. /\ q[2] \in Seq(Words(d)) /\ Len(q[2]) = 2 * m
      /\ x[2] \in Seq(Words(d)) /\ Len(x[2]) = 2 * l
  BY <1>3 DEF PathShaped
<1>5. \A i \in 1 .. 2 * l : q[2][i] = x[2][i]
  BY DEF Starts
<1>6. l <= m
  BY <1>2, <1>4 DEF Starts
<1>7. CASE Len(q[2]) = 2 * l
  <2>1. m = l
    BY <1>2, <1>4, <1>7
  <2>2. Len(q[2]) = Len(x[2]) /\ \A i \in 1 .. Len(q[2]) : q[2][i] = x[2][i]
    BY <1>4, <1>5, <1>7
  <2>3. q[2] = x[2]
    BY Zenon, <1>4, <2>2, SameSequence
  <2>4. q \in P[l]
    BY <1>1, <2>1
  <2>5. q = x
    BY Zenon, <2>3, <2>4, PathsLead
  <2> QED
    BY <1>7, <2>5
<1>8. CASE Len(q[2]) # 2 * l
  <2>1. l < m /\ l \in 0 .. Depth - 1 /\ l + 1 \in 0 .. Depth /\ l + 1 <= m
    BY <1>0, <1>2, <1>4, <1>6, <1>8
  <2>2. PICK y \in P[l + 1] : Starts(y[2], q[2], l + 1)
    BY Zenon, <1>1, <1>2, <2>1, PathsAbove
  <2>3. PICK p \in P[l] : \E k : StepKnown(d, y, p, k, l)
    BY Zenon, <2>1, PathsFromKnown
  <2>4. PICK k : StepKnown(d, y, p, k, l)
    BY <2>3
  <2>5. \A i \in 1 .. 2 * l : y[2][i] = p[2][i]
    BY Zenon, <2>4 DEF StepKnown
  <2>6. Len(q[2]) >= 2 * l + 2 /\ \A i \in 1 .. 2 * l + 2 : q[2][i] = y[2][i]
    <3>1. 2 * (l + 1) = 2 * l + 2
      BY <1>2
    <3> QED
      BY <2>2, <3>1 DEF Starts
  <2>7. p = x
    <3>1. p[2] \in Seq(Words(d)) /\ Len(p[2]) = 2 * l
      BY <2>4 DEF StepKnown, PathShaped
    <3>2. Len(p[2]) = Len(x[2]) /\ \A i \in 1 .. Len(p[2]) : p[2][i] = x[2][i]
      BY <1>2, <1>4, <1>5, <2>5, <2>6, <3>1
    <3>3. p[2] = x[2]
      BY Zenon, <1>4, <3>1, <3>2, SameSequence
    <3> QED
      BY Zenon, <3>3, PathsLead
  <2>8. q[2][2 * l + 1] = y[2][2 * l + 1] /\ q[2][2 * l + 2] = y[2][2 * l + 2]
    BY <1>2, <2>6
  <2>9. GoesOn(d, x[1], q[2], l)
    BY Zenon, <2>4, <2>6, <2>7, <2>8 DEF GoesOn, StepKnown
  <2> QED
    BY <1>8, <2>9
<1> QED
  BY Zenon, <1>7, <1>8

\* The calls of minix_print, the k-th of them for an inode with a path of k - 1 names.
FrameType(d) ==
  [ino : DOMAIN d.inode, at : {"inode", "zones", "entries", "indirect", "end"},
   len : Nat, i : Nat, block : Nat]

\* The entry that a frame comes to.
Nth(f) == f.i \div 64

FrameGood(d, f, k, p) ==
  /\ k \in 1 .. Depth + 1
  /\ \E x \in Minix!PathsOfLength(d)[k - 1] : x[1] = f.ino /\ Starts(x[2], p, k - 1)
  /\ f.at = "inode" => Len(p) = 2 * (k - 1)
  /\ f.at \in {"zones", "entries", "indirect"} =>
       /\ d.inode[f.ino].dir /\ f.len = 2 * (k - 1)
       /\ Len(p) >= 2 * k - 1 /\ p[2 * k - 1] = "/"
  /\ f.at = "zones" => f.i > 6 \/ \A z \in 0 .. f.i - 1 : d.inode[f.ino].zones[z] = 0
  /\ f.at = "entries" =>
       f.i = 64 * Nth(f) /\ f.i >= 128 /\ f.block = Minix!FirstZone(d, f.ino)

\* A frame that waits for another has passed the entry of that one.
Passed(d, f, k, p) ==
  /\ f.at = "entries" /\ Nth(f) - 1 \in Minix!Places(d, f.ino)
  /\ Len(p) >= 2 * k /\ p[2 * k] = Minix!EntryOf(d, f.ino, Nth(f) - 1).name

\* The j-th entry is still to come.
Ahead(f, j) == (f.at = "zones" /\ f.i < 7) \/ (f.at = "entries" /\ j >= Nth(f))

\* The k-th frame will still print q.
Waits(d, f, k, p, q) ==
  /\ Starts(p, q[2], k - 1)
  /\ \/ f.at = "inode"
     \/ /\ Len(q[2]) >= 2 * k
        /\ \E j \in Minix!Places(d, f.ino) :
             /\ q[2][2 * k] = Minix!EntryOf(d, f.ino, j).name
             /\ Ahead(f, j)

FramesGood(d, s, p) ==
  \A k \in 1 .. Len(s) : FrameGood(d, s[k], k, p) /\ (k < Len(s) => Passed(d, s[k], k, p))

\* What the first m frames will still print.
Pending(d, s, p, m) ==
  {q \in Minix!OnDisk(d) : \E k \in 1 .. m : Waits(d, s[k], k, p, q)}

NoneTwice(t) == \A i, j \in DOMAIN t : t[i] = t[j] => i = j

WalkTypes ==
  /\ disk \in Disks /\ stack \in Seq(FrameType(disk))
  /\ path \in Seq(Words(disk)) /\ printed \in Seq(Minix!OnDisk(disk))
  /\ walk \in {"start", "walk", "out", "done"}

WalkBooks ==
  /\ walk = "start" => path = <<>> /\ printed = <<>>
  /\ walk = "walk" <=> stack # <<>>
  /\ walk = "walk" => disk.magic
  /\ taken = IF walk = "done" THEN 0 ELSE 2 + Len(stack)

WalkGoes ==
  /\ WalkTypes /\ WalkBooks
  /\ FramesGood(disk, stack, path)
  /\ NoneTwice(printed)
  /\ walk = "start" \/ ~disk.magic \/
       Minix!Printed = Minix!OnDisk(disk) \ Pending(disk, stack, path, Len(stack))

WalkInv == walker = "print" /\ third = "length" /\ Minix!OneZone(disk) => WalkGoes

\* Two paths with the first 2 * l elements in common.
Agree(p, r, l) == Len(r) \in Nat /\ Len(r) >= 2 * l /\ \A i \in 1 .. 2 * l : r[i] = p[i]

LEMMA StartsKept ==
  ASSUME NEW p, NEW r, NEW q, NEW l, Agree(p, r, l)
  PROVE  Starts(p, q, l) <=> Starts(r, q, l)
BY DEF Starts, Agree

LEMMA WaitsKept ==
  ASSUME NEW d, NEW f, NEW k, NEW p, NEW r, NEW q, Agree(p, r, k - 1)
  PROVE  Waits(d, f, k, p, q) <=> Waits(d, f, k, r, q)
<1>1. Starts(p, q[2], k - 1) <=> Starts(r, q[2], k - 1)
  BY StartsKept
<1> QED
  BY <1>1, Zenon DEF Waits

SameBelow(s, t, p, r, m) == \A k \in 1 .. m : t[k] = s[k] /\ Agree(p, r, k - 1)

LEMMA PendingKept ==
  ASSUME NEW d, NEW s, NEW t, NEW p, NEW r, NEW m \in Nat,
         SameBelow(s, t, p, r, m)
  PROVE  Pending(d, t, r, m) = Pending(d, s, p, m)
<1>1. \A k \in 1 .. m : \A q : Waits(d, s[k], k, p, q) <=> Waits(d, t[k], k, r, q)
  <2> SUFFICES ASSUME NEW k \in 1 .. m, NEW q
               PROVE  Waits(d, s[k], k, p, q) <=> Waits(d, t[k], k, r, q)
    OBVIOUS
  <2>1. t[k] = s[k] /\ Agree(p, r, k - 1)
    BY DEF SameBelow
  <2> QED
    BY Zenon, <2>1, WaitsKept
<1> QED
  BY Zenon, <1>1 DEF Pending

LEMMA PendingOneMore ==
  ASSUME NEW d, NEW s, NEW p, NEW m \in Nat, NEW q \in Minix!OnDisk(d)
  PROVE  q \in Pending(d, s, p, m + 1) <=>
           q \in Pending(d, s, p, m) \/ Waits(d, s[m + 1], m + 1, p, q)
<1>1. \A k : k \in 1 .. m + 1 <=> k \in 1 .. m \/ k = m + 1
  OBVIOUS
<1> QED
  BY Zenon, <1>1 DEF Pending

\* A frame that waits keeps what it is while those above it write behind its path.
LEMMA FrameKept ==
  ASSUME NEW d, NEW f, NEW k \in Nat \ {0}, NEW p, NEW r,
         FrameGood(d, f, k, p), Passed(d, f, k, p), Agree(p, r, k)
  PROVE  FrameGood(d, f, k, r) /\ Passed(d, f, k, r)
<1>1. PICK x \in Minix!PathsOfLength(d)[k - 1] : x[1] = f.ino /\ Starts(x[2], p, k - 1)
  BY DEF FrameGood
<1>2. Starts(x[2], r, k - 1)
  <2>1. \A i \in 1 .. 2 * (k - 1) : i \in 1 .. 2 * k
    OBVIOUS
  <2>2. Len(r) >= 2 * (k - 1)
    BY DEF Agree
  <2>3. \A i \in 1 .. 2 * (k - 1) : r[i] = p[i]
    BY <2>1, Zenon DEF Agree
  <2>4. \A i \in 1 .. 2 * (k - 1) : p[i] = x[2][i]
    BY <1>1, Zenon DEF Starts
  <2>5. \A i \in 1 .. 2 * (k - 1) : r[i] = x[2][i]
    BY <2>3, <2>4, Zenon
  <2> QED
    BY <2>2, <2>5, Zenon DEF Starts
<1>3. f.at = "entries"
  BY DEF Passed
<1>4. /\ k \in 1 .. Depth + 1
      /\ d.inode[f.ino].dir /\ f.len = 2 * (k - 1)
      /\ Len(p) >= 2 * k - 1 /\ p[2 * k - 1] = "/"
      /\ f.i = 64 * Nth(f) /\ f.i >= 128 /\ f.block = Minix!FirstZone(d, f.ino)
  BY <1>3 DEF FrameGood
<1>5. Len(r) >= 2 * k - 1 /\ r[2 * k - 1] = "/"
  BY <1>4 DEF Agree
<1>6. \E y \in Minix!PathsOfLength(d)[k - 1] : y[1] = f.ino /\ Starts(y[2], r, k - 1)
  BY <1>1, <1>2, Zenon
<1>7. FrameGood(d, f, k, r)
  BY <1>3, <1>4, <1>5, <1>6 DEF FrameGood
<1>8. Passed(d, f, k, r)
  BY DEF Passed, Agree
<1> QED
  BY <1>7, <1>8

StillGood(d, s, t, p, r, m) ==
  /\ \A k \in 1 .. m : FrameGood(d, t[k], k, r) /\ Passed(d, t[k], k, r)
  /\ Pending(d, t, r, m) = Pending(d, s, p, m)

\* The frames below the k-th are as good on another path, and wait for the same.
LEMMA BelowKept ==
  ASSUME NEW d, NEW s, NEW p, NEW r, NEW m \in Nat, NEW t,
         m < Len(s), Len(s) \in Nat, FramesGood(d, s, p), Agree(p, r, m),
         \A k \in 1 .. m : t[k] = s[k]
  PROVE  StillGood(d, s, t, p, r, m)
<1>1. ASSUME NEW k \in 1 .. m PROVE FrameGood(d, t[k], k, r) /\ Passed(d, t[k], k, r)
  <2>1. k \in 1 .. Len(s) /\ k < Len(s) /\ k \in Nat \ {0}
    OBVIOUS
  <2>2. FrameGood(d, s[k], k, p) /\ Passed(d, s[k], k, p)
    BY Zenon, <2>1 DEF FramesGood
  <2>3. Agree(p, r, k)
    <3>1. k \in Nat /\ k <= m
      OBVIOUS
    <3>2. Len(r) \in Nat /\ Len(r) >= 2 * m /\ \A i \in 1 .. 2 * m : r[i] = p[i]
      BY DEF Agree
    <3>3. Len(r) >= 2 * k /\ \A i \in 1 .. 2 * k : i \in 1 .. 2 * m
      BY <3>1, <3>2
    <3> QED
      BY Zenon, <3>2, <3>3 DEF Agree
  <2>4. FrameGood(d, s[k], k, r) /\ Passed(d, s[k], k, r)
    BY Zenon, <2>1, <2>2, <2>3, FrameKept
  <2> QED
    BY <2>4
<1>2. SameBelow(s, t, p, r, m)
  BY DEF Agree, SameBelow
<1>3. Pending(d, t, r, m) = Pending(d, s, p, m)
  BY <1>2, PendingKept
<1> QED
  BY Zenon, <1>1, <1>3 DEF StillGood

\* The frame at the top is another: what is pending is what the others wait for, and it.
LEMMA TopReplaced ==
  ASSUME NEW d, NEW F, NEW s \in Seq(F), s # <<>>, NEW p, NEW r, NEW f \in F,
         FramesGood(d, s, p), Agree(p, r, Len(s) - 1), FrameGood(d, f, Len(s), r)
  PROVE  LET t == [s EXCEPT ![Len(s)] = f]
         IN  /\ FramesGood(d, t, r)
             /\ Pending(d, t, r, Len(s) - 1) = Pending(d, s, p, Len(s) - 1)
<1> DEFINE m == Len(s) - 1
           t == [s EXCEPT ![Len(s)] = f]
<1>1. m \in Nat /\ m + 1 = Len(s) /\ Len(s) \in Nat /\ m < Len(s)
  OBVIOUS
<1>2. t \in Seq(F) /\ Len(t) = Len(s) /\ t[m + 1] = f /\ \A k \in 1 .. m : t[k] = s[k]
  OBVIOUS
<1> HIDE DEF m, t
<1>3. Agree(p, r, m)
  BY DEF m
<1>4. StillGood(d, s, t, p, r, m)
  BY Zenon, <1>1, <1>2, <1>3, BelowKept
<1>5. FrameGood(d, t[m + 1], m + 1, r)
  BY <1>1, <1>2
<1>6. \A k \in 1 .. Len(t) : k \in 1 .. m \/ (k = m + 1 /\ ~(k < Len(t)))
  BY <1>1, <1>2
<1>7. FramesGood(d, t, r)
  BY Zenon, <1>4, <1>5, <1>6 DEF FramesGood, StillGood
<1> QED
  BY <1>4, <1>7 DEF m, t, StillGood

LEMMA FirstZoneIs ==
  ASSUME NEW d, NEW n, NEW i \in 0 .. 6, d.inode[n].zones[i] # 0,
         \A z \in 0 .. i - 1 : d.inode[n].zones[z] = 0
  PROVE  Minix!FirstZone(d, n) = d.inode[n].zones[i]
<1> DEFINE used == {z \in 0 .. 6 : d.inode[n].zones[z] # 0}
           c == CHOOSE z \in used : \A y \in used : z <= y
<1>1. i \in used /\ \A y \in used : i <= y
  OBVIOUS
<1>2. c \in used /\ \A y \in used : c <= y
  <2> HIDE DEF used
  <2> QED
    BY Zenon, <1>1
<1>3. c = i
  <2> HIDE DEF c
  <2>1. used \subseteq Nat
    OBVIOUS
  <2>2. c <= i /\ i <= c /\ c \in Nat /\ i \in Nat
    BY <1>1, <1>2, <2>1
  <2> QED
    BY <2>2
<1>4. Minix!FirstZone(d, n) = d.inode[n].zones[c]
  BY Zenon DEF Minix!FirstZone
<1> QED
  BY <1>3, <1>4, Zenon

\* The one at the top.
AtTop(f, n) ==
  /\ n = Len(stack) /\ n \in Nat \ {0} /\ f = stack[n] /\ f = Minix!Top
  /\ f \in FrameType(disk) /\ FrameGood(disk, f, n, path)
  /\ Minix!WellFormed(disk) /\ disk.magic /\ walk = "walk"
  /\ f.ino \in DOMAIN disk.inode /\ f.i \in Nat /\ f.block \in Nat
  /\ disk.inode[f.ino].dir \in BOOLEAN /\ disk.inode[f.ino].size \in Nat
  /\ disk.inode[f.ino].zones \in [0 .. 9 -> Nat]
  /\ n \in 1 .. Depth + 1 /\ Len(path) \in Nat /\ Len(path) >= 2 * (n - 1)

LEMMA TopIs ==
  ASSUME WalkGoes, walk = "walk", NEW f, f = Minix!Top
  PROVE  AtTop(f, Len(stack))
<1>1. /\ disk \in Disks /\ stack \in Seq(FrameType(disk)) /\ stack # <<>>
      /\ disk.magic /\ FramesGood(disk, stack, path) /\ path \in Seq(Words(disk))
  BY DEF WalkGoes, WalkTypes, WalkBooks
<1>2. Len(stack) \in Nat \ {0} /\ Len(stack) \in 1 .. Len(stack)
  BY <1>1
<1>3. f = stack[Len(stack)]
  BY DEF Minix!Top
<1>4. f \in FrameType(disk)
  BY <1>1, <1>2, <1>3
<1>5. FrameGood(disk, f, Len(stack), path)
  BY Zenon, <1>1, <1>2, <1>3 DEF FramesGood
<1>6. Minix!WellFormed(disk)
  BY Zenon, <1>1, DisksAssumption
<1>7. f.ino \in DOMAIN disk.inode /\ f.i \in Nat /\ f.block \in Nat
  BY <1>4 DEF FrameType
<1>8. /\ disk.inode[f.ino].dir \in BOOLEAN /\ disk.inode[f.ino].size \in Nat
      /\ disk.inode[f.ino].zones \in [0 .. 9 -> Nat]
  BY Zenon, <1>6, <1>7 DEF Minix!WellFormed
<1>9. Len(stack) \in 1 .. Depth + 1
  BY <1>5 DEF FrameGood
<1>10. Len(path) \in Nat /\ Len(path) >= 2 * (Len(stack) - 1)
  <2>1. Len(path) >= 2 * (Len(stack) - 1)
    BY <1>5 DEF FrameGood, Starts
  <2> QED
    BY <1>1, <2>1
<1> QED
  BY <1>1, <1>2, <1>3, <1>4, <1>5, <1>6, <1>7, <1>8, <1>9, <1>10 DEF AtTop

\* Nothing but the frame at the top changes, and what it waits for does not.
OnlyTop(f, g) ==
  /\ stack' = [stack EXCEPT ![Len(stack)] = g]
  /\ g \in FrameType(disk) /\ FrameGood(disk, g, Len(stack), path)
  /\ \A q \in Minix!OnDisk(disk) :
       Waits(disk, g, Len(stack), path, q) <=> Waits(disk, f, Len(stack), path, q)
  /\ UNCHANGED <<disk, walk, path, printed, taken>>

LEMMA OnlyTopKeeps ==
  ASSUME WalkGoes, walk = "walk", NEW f, f = Minix!Top, NEW g, OnlyTop(f, g)
  PROVE  WalkGoes'
<1> DEFINE n == Len(stack)
           t == [stack EXCEPT ![n] = g]
           m == n - 1
<1>1. AtTop(f, n)
  BY Zenon, TopIs
<1>2. /\ disk \in Disks /\ stack \in Seq(FrameType(disk)) /\ stack # <<>>
      /\ FramesGood(disk, stack, path) /\ path \in Seq(Words(disk))
      /\ printed \in Seq(Minix!OnDisk(disk)) /\ taken = 2 + n /\ NoneTwice(printed)
      /\ Minix!Printed = Minix!OnDisk(disk) \ Pending(disk, stack, path, n)
      /\ disk.magic
  BY DEF WalkGoes, WalkTypes, WalkBooks
<1>3. g \in FrameType(disk) /\ FrameGood(disk, g, n, path)
  BY DEF OnlyTop
<1>4. Agree(path, path, n - 1)
  BY <1>1 DEF Agree, AtTop
<1>5. FramesGood(disk, t, path) /\ Pending(disk, t, path, n - 1) = Pending(disk, stack, path, n - 1)
  BY <1>2, <1>3, <1>4, TopReplaced
<1>6. n \in Nat \ {0} /\ m \in Nat /\ m + 1 = n
  BY <1>1 DEF AtTop
<1>7. t \in Seq(FrameType(disk)) /\ Len(t) = n /\ t[n] = g /\ t # <<>>
  BY <1>2, <1>3, <1>6
<1>8. stack[n] = f
  BY <1>1 DEF AtTop
<1>9. Pending(disk, t, path, n) = Pending(disk, stack, path, n)
  <2> HIDE DEF t, m, n
  <2>1. ASSUME NEW q \in Minix!OnDisk(disk)
        PROVE  q \in Pending(disk, t, path, n) <=> q \in Pending(disk, stack, path, n)
    <3>1. q \in Pending(disk, t, path, m + 1) <=>
            q \in Pending(disk, t, path, m) \/ Waits(disk, t[m + 1], m + 1, path, q)
      BY Zenon, <1>6, PendingOneMore
    <3>2. q \in Pending(disk, stack, path, m + 1) <=>
            q \in Pending(disk, stack, path, m) \/ Waits(disk, stack[m + 1], m + 1, path, q)
      BY Zenon, <1>6, PendingOneMore
    <3>3. Waits(disk, g, n, path, q) <=> Waits(disk, f, n, path, q)
      BY DEF OnlyTop, n
    <3>4. Pending(disk, t, path, m) = Pending(disk, stack, path, m)
      BY <1>5 DEF m
    <3>5. Waits(disk, t[m + 1], m + 1, path, q) <=> Waits(disk, stack[m + 1], m + 1, path, q)
      BY <1>6, <1>7, <1>8, <3>3
    <3>6. q \in Pending(disk, t, path, m + 1) <=> q \in Pending(disk, stack, path, m + 1)
      BY Zenon, <3>1, <3>2, <3>4, <3>5
    <3> QED
      BY <1>6, <3>6
  <2> QED
    BY Zenon, <2>1 DEF Pending
<1>10. /\ stack' = t /\ disk' = disk /\ walk' = walk /\ path' = path /\ printed' = printed
       /\ taken' = taken
  BY DEF OnlyTop
<1> HIDE DEF t, m
<1>11. WalkTypes'
  BY <1>2, <1>7, <1>10 DEF WalkTypes
<1>12. WalkBooks'
  BY <1>2, <1>7, <1>10 DEF WalkBooks
<1>13. FramesGood(disk, stack, path)' /\ NoneTwice(printed)'
  BY <1>2, <1>5, <1>10
<1>14. Minix!Printed' = Minix!Printed
  BY <1>10, Zenon DEF Minix!Printed
<1>15. (Minix!OnDisk(disk) \ Pending(disk, stack, path, Len(stack)))'
         = Minix!OnDisk(disk) \ Pending(disk, stack, path, n)
  BY <1>7, <1>9, <1>10
<1> QED
  BY <1>2, <1>11, <1>12, <1>13, <1>14, <1>15 DEF WalkGoes

LEMMA WaitsSame ==
  ASSUME NEW d, NEW f, NEW g, NEW k, NEW p, NEW q,
         g.ino = f.ino, f.at # "inode", g.at # "inode",
         \A j \in Minix!Places(d, f.ino) : Ahead(g, j) <=> Ahead(f, j)
  PROVE  Waits(d, g, k, p, q) <=> Waits(d, f, k, p, q)
BY Zenon DEF Waits

LEMMA WalkingFrame ==
  ASSUME WalkGoes, NEW place, Minix!InFrame(place)
  PROVE  walk = "walk" /\ Minix!Top.at = place /\ AtTop(Minix!Top, Len(stack))
<1>1. walk = "walk" /\ Minix!Top.at = place
  BY DEF Minix!InFrame
<1> QED
  BY Zenon, <1>1, TopIs

LEMMA ZonesStep ==
  ASSUME WalkGoes, Minix!Zones
  PROVE  WalkGoes'
<1> DEFINE f == Minix!Top
           n == Len(stack)
<1>1. walk = "walk" /\ f.at = "zones" /\ AtTop(f, n)
  BY Zenon, WalkingFrame DEF Minix!Zones
<1>2. UNCHANGED <<disk, walk, path, printed, taken>>
  BY DEF Minix!Zones
<1>3. /\ f \in FrameType(disk) /\ FrameGood(disk, f, n, path) /\ f.i \in Nat
      /\ disk.inode[f.ino].zones \in [0 .. 9 -> Nat] /\ Minix!WellFormed(disk)
      /\ f.ino \in DOMAIN disk.inode
  BY <1>1 DEF AtTop
<1>4. /\ disk.inode[f.ino].dir /\ f.len = 2 * (n - 1)
      /\ Len(path) >= 2 * n - 1 /\ path[2 * n - 1] = "/"
      /\ f.i > 6 \/ \A z \in 0 .. f.i - 1 : disk.inode[f.ino].zones[z] = 0
      /\ n \in 1 .. Depth + 1
      /\ \E x \in Minix!PathsOfLength(disk)[n - 1] : x[1] = f.ino /\ Starts(x[2], path, n - 1)
  BY <1>1, <1>3 DEF FrameGood
<1>5. PICK y \in 0 .. 6 : disk.inode[f.ino].zones[y] # 0
  BY Zenon, <1>3, <1>4 DEF Minix!WellFormed
<1>6. Minix!Inode = disk.inode[f.ino]
  BY DEF Minix!Inode
<1>7. ASSUME NEW g, stack' = Minix!SetTop(g), g \in FrameType(disk), g.ino = f.ino,
             g.at # "inode", \A j \in Minix!Places(disk, f.ino) : Ahead(g, j) <=> Ahead(f, j),
             FrameGood(disk, g, n, path)
      PROVE  WalkGoes'
  <2>1. stack' = [stack EXCEPT ![Len(stack)] = g]
    BY <1>7 DEF Minix!SetTop
  <2>2. f.at # "inode"
    BY <1>1
  <2>3. \A q \in Minix!OnDisk(disk) : Waits(disk, g, n, path, q) <=> Waits(disk, f, n, path, q)
    BY Zenon, <1>7, <2>2, WaitsSame
  <2>4. OnlyTop(f, g)
    BY <1>2, <1>7, <2>1, <2>3 DEF OnlyTop
  <2> QED
    BY Zenon, <1>1, <2>4, OnlyTopKeeps
<1> DEFINE skip == [f EXCEPT !.i = @ + 1]
           read == [f EXCEPT !.at = "entries", !.i = 128, !.block = Minix!Inode.zones[f.i]]
           leave == [f EXCEPT !.at = "indirect"]
<1>8. \/ f.i < 7 /\ Minix!Inode.zones[f.i] = 0 /\ stack' = Minix!SetTop(skip)
      \/ f.i < 7 /\ Minix!Inode.zones[f.i] # 0 /\ stack' = Minix!SetTop(read)
      \/ ~(f.i < 7) /\ stack' = Minix!SetTop(leave)
  BY Zenon DEF Minix!Zones
<1> HIDE DEF f, n
<1>9. CASE f.i < 7 /\ Minix!Inode.zones[f.i] = 0 /\ stack' = Minix!SetTop(skip)
  <2>1. /\ skip \in FrameType(disk) /\ skip.ino = f.ino /\ skip.at = "zones"
        /\ skip.i = f.i + 1 /\ skip.len = f.len
    BY <1>1, <1>3 DEF FrameType
  <2>2. \A z \in 0 .. skip.i - 1 : disk.inode[f.ino].zones[z] = 0
    <3>1. f.i \in 0 .. 6 /\ skip.i - 1 = f.i
      BY <1>3, <1>9, <2>1
    <3>2. disk.inode[f.ino].zones[f.i] = 0
      BY <1>6, <1>9
    <3>3. \A z \in 0 .. f.i - 1 : disk.inode[f.ino].zones[z] = 0
      BY <1>4, <3>1
    <3>4. \A z \in 0 .. f.i : z = f.i \/ z \in 0 .. f.i - 1
      BY <3>1
    <3> QED
      BY Zenon, <3>1, <3>2, <3>3, <3>4
  <2>3. f.i + 1 < 7
    BY <1>3, <1>5, <2>1, <2>2
  <2>4. FrameGood(disk, skip, n, path)
    BY <1>4, <2>1, <2>2 DEF FrameGood
  <2>5. \A j : Ahead(skip, j) <=> Ahead(f, j)
    BY <1>1, <1>9, <2>1, <2>3 DEF Ahead
  <2> HIDE DEF skip
  <2> QED
    BY <1>7, <1>9, <2>1, <2>4, <2>5
<1>10. CASE f.i < 7 /\ Minix!Inode.zones[f.i] # 0 /\ stack' = Minix!SetTop(read)
  <2>0. disk.inode[f.ino].zones[f.i] \in Nat /\ f.i \in 0 .. 6
    BY <1>3, <1>10
  <2>1. /\ read \in FrameType(disk) /\ read.ino = f.ino /\ read.at = "entries"
        /\ read.i = 128 /\ read.len = f.len /\ read.block = disk.inode[f.ino].zones[f.i]
    BY <1>3, <1>6, <2>0 DEF FrameType
  <2>2. Minix!FirstZone(disk, f.ino) = disk.inode[f.ino].zones[f.i]
    <3>1. \A z \in 0 .. f.i - 1 : disk.inode[f.ino].zones[z] = 0
      BY <1>4, <2>0
    <3> QED
      BY <1>6, <1>10, <2>0, <3>1, FirstZoneIs
  <2>3. Nth(read) = 2
    BY <2>1 DEF Nth
  <2>4. FrameGood(disk, read, n, path)
    BY <1>4, <2>1, <2>2, <2>3 DEF FrameGood
  <2>5. ASSUME NEW j \in Minix!Places(disk, f.ino) PROVE Ahead(read, j) <=> Ahead(f, j)
    <3>1. j >= 2
      BY <1>1 DEF Minix!Places, AtTop
    <3> QED
      BY <1>1, <1>10, <2>1, <2>3, <3>1 DEF Ahead
  <2> HIDE DEF read
  <2> QED
    BY <1>7, <1>10, <2>1, <2>4, <2>5
<1>11. CASE ~(f.i < 7) /\ stack' = Minix!SetTop(leave)
  <2>1. /\ leave \in FrameType(disk) /\ leave.ino = f.ino /\ leave.at = "indirect"
        /\ leave.len = f.len
    BY <1>3 DEF FrameType
  <2>2. FrameGood(disk, leave, n, path)
    BY <1>4, <2>1 DEF FrameGood
  <2>3. \A j : Ahead(leave, j) <=> Ahead(f, j)
    BY <1>1, <1>11, <2>1 DEF Ahead
  <2> HIDE DEF leave
  <2> QED
    BY <1>7, <1>11, <2>1, <2>2, <2>3
<1> QED
  BY <1>8, <1>9, <1>10, <1>11

\* A frame at which nothing is ahead waits for nothing.
LEMMA NothingAhead ==
  ASSUME NEW d, NEW f, NEW k, NEW p, NEW q, f.at # "inode",
         \A j \in Minix!Places(d, f.ino) : ~Ahead(f, j)
  PROVE  ~Waits(d, f, k, p, q)
BY Zenon DEF Waits

LEMMA OneZoneDirect ==
  ASSUME Minix!OneZone(disk), Minix!WellFormed(disk), NEW n \in DOMAIN disk.inode,
         disk.inode[n].dir
  PROVE  \A z \in 7 .. 9 : disk.inode[n].zones[z] = 0
<1> DEFINE used == {z \in 0 .. 9 : disk.inode[n].zones[z] # 0}
<1>1. Cardinality(used) = 1
  BY DEF Minix!OneZone, Cardinality, Minix!Cardinality, IsFiniteSet, Minix!IsFiniteSet
<1>2. PICK y \in 0 .. 6 : disk.inode[n].zones[y] # 0
  BY Zenon DEF Minix!WellFormed
<1>3. IsFiniteSet(used)
  <2>1. IsFiniteSet(0 .. 9)
    <3>1. \A a, b \in Int : IsFiniteSet(a .. b)
      BY FS_Interval
    <3>2. 0 \in Int /\ 9 \in Int
      OBVIOUS
    <3> QED
      BY Zenon, <3>1, <3>2
  <2> QED
    BY <2>1, FS_Subset
<1>4. PICK u : used = {u}
  <2> HIDE DEF used
  <2> QED
    BY <1>1, <1>3, FS_Singleton
<1>5. y \in used
  BY <1>2
<1> QED
  BY <1>4, <1>5

LEMMA IndirectStep ==
  ASSUME WalkGoes, Minix!Indirect, Minix!OneZone(disk)
  PROVE  WalkGoes'
<1> DEFINE f == Minix!Top
           n == Len(stack)
           g == [f EXCEPT !.at = "end"]
<1>1. walk = "walk" /\ f.at = "indirect" /\ AtTop(f, n)
  BY Zenon, WalkingFrame DEF Minix!Indirect
<1>2. /\ f \in FrameType(disk) /\ FrameGood(disk, f, n, path)
      /\ Minix!WellFormed(disk) /\ f.ino \in DOMAIN disk.inode
  BY <1>1 DEF AtTop
<1>3. /\ disk.inode[f.ino].dir /\ n \in 1 .. Depth + 1
      /\ \E x \in Minix!PathsOfLength(disk)[n - 1] : x[1] = f.ino /\ Starts(x[2], path, n - 1)
  BY <1>1, <1>2 DEF FrameGood
<1>4. \A z \in 7 .. 9 : disk.inode[f.ino].zones[z] = 0
  BY Zenon, <1>2, <1>3, OneZoneDirect
<1>5. ~\E z \in 7 .. 9 : Minix!Inode.zones[z] # 0
  BY Zenon, <1>4 DEF Minix!Inode
<1>6. stack' = [stack EXCEPT ![n] = g] /\ UNCHANGED <<disk, walk, path, printed, taken>>
  BY Zenon, <1>5 DEF Minix!Indirect, Minix!SetTop
<1> HIDE DEF f, n
<1>7. g \in FrameType(disk) /\ g.ino = f.ino /\ g.at = "end"
  BY <1>2 DEF FrameType
<1>8. FrameGood(disk, g, n, path)
  BY <1>3, <1>7 DEF FrameGood
<1>9. \A j : ~Ahead(g, j) /\ ~Ahead(f, j)
  BY <1>1, <1>7 DEF Ahead
<1>10. f.at # "inode" /\ g.at # "inode"
  BY <1>1, <1>7
<1> HIDE DEF g
<1>11. \A q \in Minix!OnDisk(disk) : Waits(disk, g, n, path, q) <=> Waits(disk, f, n, path, q)
  BY Zenon, <1>9, <1>10, NothingAhead
<1>12. OnlyTop(f, g)
  BY <1>6, <1>7, <1>8, <1>11 DEF OnlyTop, n
<1> QED
  BY Zenon, <1>1, <1>12, OnlyTopKeeps DEF f

\* The block is at its end: what the frame waited for has been printed.
LEMMA EntriesEnd ==
  ASSUME WalkGoes, Minix!Entries, Minix!Top.i >= Minix!Inode.size
  PROVE  WalkGoes'
<1> DEFINE f == Minix!Top
           n == Len(stack)
           g == [f EXCEPT !.at = "zones", !.i = @ + 1]
<1>1. walk = "walk" /\ f.at = "entries" /\ AtTop(f, n)
  BY Zenon, WalkingFrame DEF Minix!Entries
<1>2. /\ f \in FrameType(disk) /\ FrameGood(disk, f, n, path) /\ f.i \in Nat
      /\ f.ino \in DOMAIN disk.inode /\ disk.inode[f.ino].size \in Nat
  BY <1>1 DEF AtTop
<1>3. /\ disk.inode[f.ino].dir /\ n \in 1 .. Depth + 1 /\ f.len = 2 * (n - 1)
      /\ Len(path) >= 2 * n - 1 /\ path[2 * n - 1] = "/"
      /\ \E x \in Minix!PathsOfLength(disk)[n - 1] : x[1] = f.ino /\ Starts(x[2], path, n - 1)
      /\ f.i = 64 * Nth(f) /\ f.i >= 128
  BY <1>1, <1>2 DEF FrameGood
<1>4. f.i >= disk.inode[f.ino].size
  BY DEF Minix!Inode
<1>5. stack' = [stack EXCEPT ![n] = g] /\ UNCHANGED <<disk, walk, path, printed, taken>>
  <2>1. ~(Minix!Top.i < Minix!Inode.size)
    BY <1>2, <1>4 DEF Minix!Inode
  <2> QED
    BY <2>1 DEF Minix!Entries, Minix!SetTop
<1> HIDE DEF f, n
<1>6. g \in FrameType(disk) /\ g.ino = f.ino /\ g.at = "zones" /\ g.i = f.i + 1 /\ g.len = f.len
  <2>1. f.i + 1 \in Nat
    BY <1>2
  <2>2. f \in FrameType(disk)
    BY <1>2
  <2>3. g.ino = f.ino /\ g.at = "zones" /\ g.i = f.i + 1 /\ g.len = f.len
    BY <2>2 DEF FrameType
  <2>4. g \in FrameType(disk)
    BY <2>1, <2>2 DEF FrameType
  <2> QED
    BY <2>3, <2>4
<1>7. g.i > 6 /\ ~(g.i < 7)
  BY <1>2, <1>3, <1>6
<1>8. FrameGood(disk, g, n, path)
  BY <1>3, <1>6, <1>7 DEF FrameGood
<1>9. ASSUME NEW j \in Minix!Places(disk, f.ino) PROVE ~Ahead(g, j) /\ ~Ahead(f, j)
  <2>1. j \in Nat /\ 64 * j < disk.inode[f.ino].size
    BY <1>2 DEF Minix!Places
  <2>2. Nth(f) \in Nat
    BY <1>2 DEF Nth
  <2>3. ~(j >= Nth(f))
    BY <1>2, <1>3, <1>4, <2>1, <2>2
  <2> QED
    BY <1>1, <1>6, <1>7, <2>3 DEF Ahead
<1>10. f.at # "inode" /\ g.at # "inode"
  BY <1>1, <1>6
<1> HIDE DEF g
<1>11. \A q \in Minix!OnDisk(disk) : Waits(disk, g, n, path, q) <=> Waits(disk, f, n, path, q)
  BY Zenon, <1>6, <1>9, <1>10, NothingAhead
<1>12. OnlyTop(f, g)
  BY <1>5, <1>6, <1>8, <1>11 DEF OnlyTop, n
<1> QED
  BY Zenon, <1>1, <1>12, OnlyTopKeeps DEF f

\* The name of an entry is written behind the slash of its directory.
Named(S, p, r, n, name) ==
  /\ r \in Seq(S) /\ Len(r) = 2 * n
  /\ \A i \in 1 .. 2 * n - 1 : r[i] = p[i]
  /\ r[2 * n] = name

LEMMA NameBehind ==
  ASSUME NEW S, NEW p \in Seq(S), NEW name \in S, NEW n \in Nat \ {0},
         Len(p) >= 2 * n - 1
  PROVE  Named(S, p, SubSeq(p, 1, 2 * (n - 1) + 1) \o <<name>>, n, name)
<1> DEFINE l == 2 * (n - 1) + 1
           b == SubSeq(p, 1, l)
<1>1. l \in Nat /\ l <= Len(p) /\ l + 1 = 2 * n /\ l = 2 * n - 1
  OBVIOUS
<1> HIDE DEF l
<1>2. b \in Seq(S) /\ Len(b) = l /\ \A i \in 1 .. l : b[i] = p[i]
  BY <1>1
<1> HIDE DEF b
<1>3. <<name>> \in Seq(S) /\ Len(<<name>>) = 1
  OBVIOUS
<1> DEFINE r == b \o <<name>>
<1>4. /\ r \in Seq(S) /\ Len(r) = l + 1
      /\ \A i \in 1 .. l : r[i] = b[i]
      /\ r[l + 1] = name
  BY <1>1, <1>2, <1>3
<1> HIDE DEF r
<1>5. Named(S, p, r, n, name)
  BY <1>1, <1>2, <1>4 DEF Named
<1> QED
  BY <1>5 DEF r, b, l

LEMMA PathToIs ==
  ASSUME NEW S, path \in Seq(S), NEW name \in S, name # "", NEW n \in Nat \ {0},
         Len(path) >= 2 * n - 1
  PROVE  Named(S, path, Minix!PathTo(2 * (n - 1), name), n, name)
<1>1. Minix!PathTo(2 * (n - 1), name) = SubSeq(path, 1, 2 * (n - 1) + 1) \o <<name>>
  BY Zenon DEF Minix!PathTo
<1> QED
  BY Zenon, <1>1, NameBehind

\* minix_print calls itself for the next entry.
LEMMA EntriesCall ==
  ASSUME WalkGoes, Minix!Entries, walker = "print", ~(Minix!Top.i >= Minix!Inode.size)
  PROVE  WalkGoes'
<1> DEFINE f == Minix!Top
           n == Len(stack)
           g == [f EXCEPT !.i = @ + 64]
           j == Nth(f)
           e == Minix!EntryOf(disk, f.ino, j)
           h == Minix!Frame(e.inode)
           r == Minix!PathTo(f.len, e.name)
           t == [stack EXCEPT ![n] = g]
           u == t \o <<h>>
<1>1. walk = "walk" /\ f.at = "entries" /\ AtTop(f, n)
  BY Zenon, WalkingFrame DEF Minix!Entries
<1>2. /\ f \in FrameType(disk) /\ FrameGood(disk, f, n, path) /\ f.i \in Nat
      /\ f.ino \in DOMAIN disk.inode /\ disk.inode[f.ino].size \in Nat
      /\ Minix!WellFormed(disk) /\ n \in Nat \ {0}
  BY <1>1 DEF AtTop
<1>3. /\ disk.inode[f.ino].dir /\ n \in 1 .. Depth + 1 /\ f.len = 2 * (n - 1)
      /\ Len(path) >= 2 * n - 1 /\ path[2 * n - 1] = "/"
      /\ \E x \in Minix!PathsOfLength(disk)[n - 1] : x[1] = f.ino /\ Starts(x[2], path, n - 1)
      /\ f.i = 64 * j /\ f.i >= 128 /\ f.block = Minix!FirstZone(disk, f.ino)
  BY <1>1, <1>2 DEF FrameGood
<1>4. f.i < disk.inode[f.ino].size
  BY <1>2 DEF Minix!Inode
<1>5. j \in Minix!Places(disk, f.ino) /\ j \in Nat
  <2>1. j \in Nat
    BY <1>2 DEF Nth
  <2> HIDE DEF j, f
  <2> QED
    BY <1>2, <1>3, <1>4, <2>1 DEF Minix!Places
<1>6. Minix!EntryAt(disk, f.block, f.i) = e
  BY Zenon, <1>3 DEF Minix!EntryOf
<1>7. /\ stack' = u /\ path' = r /\ taken' = taken + 1
      /\ UNCHANGED <<disk, walk, printed>>
  <2>1. Minix!Top.i < Minix!Inode.size /\ ~(Minix!Top.i >= Minix!Inode.size)
    BY <1>2, <1>4 DEF Minix!Inode
  <2>2. /\ path' = Minix!PathTo(f.len, Minix!EntryAt(disk, f.block, f.i).name)
        /\ stack' = Minix!SetTop(g) \o <<Minix!Frame(Minix!EntryAt(disk, f.block, f.i).inode)>>
        /\ taken' = taken + 1 /\ UNCHANGED <<disk, walk, printed>>
    BY <2>1 DEF Minix!Entries
  <2> QED
    BY <1>6, <2>2, Zenon DEF Minix!SetTop
<1>8. /\ disk \in Disks /\ stack \in Seq(FrameType(disk)) /\ stack # <<>>
      /\ FramesGood(disk, stack, path) /\ path \in Seq(Words(disk))
      /\ printed \in Seq(Minix!OnDisk(disk)) /\ taken = 2 + n /\ NoneTwice(printed)
      /\ Minix!Printed = Minix!OnDisk(disk) \ Pending(disk, stack, path, n)
      /\ disk.magic
  BY <1>1 DEF WalkGoes, WalkTypes, WalkBooks, AtTop
<1>9. stack[n] = f
  BY <1>1 DEF AtTop
<1> HIDE DEF f, n, e, g, j
<1>10. /\ g \in FrameType(disk) /\ g.ino = f.ino /\ g.at = "entries" /\ g.i = f.i + 64
       /\ g.len = f.len /\ g.block = f.block
  <2>1. f.i + 64 \in Nat /\ f \in FrameType(disk)
    BY <1>2
  <2>2. /\ g.ino = f.ino /\ g.at = f.at /\ g.i = f.i + 64
        /\ g.len = f.len /\ g.block = f.block
    BY <2>1 DEF FrameType, g
  <2>3. g \in FrameType(disk)
    BY <2>1 DEF FrameType, g
  <2> QED
    BY <1>1, <2>2, <2>3
<1>11. Nth(g) = j + 1 /\ g.i = 64 * Nth(g) /\ g.i >= 128
  <2>1. f.i = 64 * j /\ j \in Nat /\ g.i = 64 * j + 64 /\ f.i >= 128
    BY <1>3, <1>5, <1>10
  <2>2. Nth(g) = j + 1
    BY <2>1 DEF Nth
  <2> QED
    BY <2>1, <2>2
<1>12. EntryGood(disk, f.ino, j)
  BY Zenon, <1>2, <1>3, <1>5, EntriesGood
<1>13. e.inode \in DOMAIN disk.inode /\ e.name # "" /\ e.name \in Words(disk)
  BY Zenon, <1>2, <1>5, <1>12, WordsHave DEF EntryGood, e
<1>14. /\ r \in Seq(Words(disk)) /\ Len(r) = 2 * n
       /\ \A i \in 1 .. 2 * n - 1 : r[i] = path[i]
       /\ r[2 * n] = e.name
  <2>1. Named(Words(disk), path, Minix!PathTo(2 * (n - 1), e.name), n, e.name)
    BY Zenon, <1>2, <1>3, <1>8, <1>13, PathToIs
  <2>2. r = Minix!PathTo(2 * (n - 1), e.name)
    BY Zenon, <1>3 DEF r
  <2> QED
    BY <2>1, <2>2 DEF Named
<1> HIDE DEF r
<1>15. h \in FrameType(disk) /\ h.at = "inode" /\ h.ino = e.inode
  BY <1>13 DEF FrameType, Minix!Frame
<1> HIDE DEF h
<1>16. t \in Seq(FrameType(disk)) /\ Len(t) = n /\ t[n] = g
  BY <1>2, <1>8, <1>10 DEF n
<1>17. /\ u \in Seq(FrameType(disk)) /\ Len(u) = n + 1 /\ u[n + 1] = h
       /\ \A k \in 1 .. n : u[k] = t[k]
  <2> HIDE DEF t
  <2>1. <<h>> \in Seq(FrameType(disk)) /\ Len(<<h>>) = 1
    BY <1>15
  <2> QED
    BY <1>2, <1>16, <2>1
<1> HIDE DEF t, u
<1>18. Agree(path, r, n - 1)
  BY <1>2, <1>14 DEF Agree
<1>19. PICK x \in Minix!PathsOfLength(disk)[n - 1] : x[1] = f.ino /\ Starts(x[2], path, n - 1)
  BY <1>3
<1>20. FrameGood(disk, g, n, r)
  <2>1. Starts(x[2], r, n - 1)
    BY <1>2, <1>14, <1>19 DEF Starts
  <2>2. Len(r) >= 2 * n - 1 /\ r[2 * n - 1] = "/"
    BY <1>2, <1>3, <1>14
  <2>3. \E y \in Minix!PathsOfLength(disk)[n - 1] : y[1] = g.ino /\ Starts(y[2], r, n - 1)
    BY <1>10, <1>19, <2>1
  <2> QED
    BY <1>3, <1>10, <1>11, <2>2, <2>3 DEF FrameGood
<1>21. FramesGood(disk, t, r) /\ Pending(disk, t, r, n - 1) = Pending(disk, stack, path, n - 1)
  BY <1>8, <1>10, <1>18, <1>20, TopReplaced DEF t, n
<1>22. Passed(disk, g, n, r)
  <2>1. Nth(g) - 1 = j
    BY <1>5, <1>11
  <2> QED
    BY <1>2, <1>5, <1>10, <1>14, <2>1 DEF Passed, e
<1>23. FrameGood(disk, h, n + 1, r)
  <2> DEFINE l == n - 1
  <2>1. l \in 0 .. Depth /\ l + 1 = n /\ n + 1 \in 1 .. l + 2 /\ Depth \in Nat /\ n + 1 - 1 = n
    BY <1>2, <1>3, DisksAssumption
  <2>2. x \in Minix!PathsOfLength(disk)[l] /\ x[1] = f.ino
    BY <1>19
  <2> HIDE DEF l
  <2>3. /\ l + 1 \in 1 .. Depth
        /\ \E y \in Minix!PathsOfLength(disk)[l + 1] : StepKnown(disk, y, x, j, l)
    BY <1>2, <1>3, <1>5, <2>1, <2>2, PathsDeeper
  <2>4. PICK y \in Minix!PathsOfLength(disk)[l + 1] : StepKnown(disk, y, x, j, l)
    BY <2>3
  <2>5. /\ y[1] = h.ino
        /\ \A i \in 1 .. 2 * l : y[2][i] = x[2][i]
        /\ y[2][2 * l + 1] = "/" /\ y[2][2 * l + 2] = e.name
    BY <1>15, <2>2, <2>4 DEF StepKnown, e
  <2>6. \A i \in 1 .. 2 * n : r[i] = y[2][i]
    <3>1. \A i \in 1 .. 2 * l : path[i] = x[2][i]
      BY <1>19 DEF Starts, l
    <3>2. \A i \in 1 .. 2 * l : r[i] = path[i]
      BY <1>14, <2>1
    <3>3. \A i \in 1 .. 2 * l : r[i] = y[2][i]
      BY <2>5, <3>1, <3>2
    <3>4. r[2 * l + 1] = "/" /\ r[2 * l + 2] = e.name
      <4>1. 2 * l + 1 = 2 * n - 1 /\ 2 * l + 2 = 2 * n /\ 2 * n - 1 \in 1 .. 2 * n - 1
        BY <1>2, <2>1
      <4> QED
        BY <1>3, <1>14, <4>1
    <3>5. \A i \in 1 .. 2 * n : i \in 1 .. 2 * l \/ i = 2 * l + 1 \/ i = 2 * l + 2
      BY <1>2, <2>1
    <3> QED
      BY Zenon, <2>5, <3>3, <3>4, <3>5
  <2>7. Starts(y[2], r, n)
    BY <1>2, <1>14, <2>6 DEF Starts
  <2>8. \E z \in Minix!PathsOfLength(disk)[n] : z[1] = h.ino /\ Starts(z[2], r, n)
    BY <2>1, <2>4, <2>5, <2>7
  <2>9. n + 1 \in 1 .. Depth + 1
    BY <1>2, <2>1, <2>3
  <2>10. \E z \in Minix!PathsOfLength(disk)[(n + 1) - 1] : z[1] = h.ino /\ Starts(z[2], r, (n + 1) - 1)
    BY <2>1, <2>8
  <2>11. Len(r) = 2 * ((n + 1) - 1)
    BY <1>14, <2>1
  <2> QED
    BY <1>15, <2>9, <2>10, <2>11 DEF FrameGood
<1>24. FramesGood(disk, u, r)
  <2>1. ASSUME NEW k \in 1 .. Len(u)
        PROVE  FrameGood(disk, u[k], k, r) /\ (k < Len(u) => Passed(disk, u[k], k, r))
    <3>1. CASE k = n + 1
      BY <1>2, <1>17, <1>23, <3>1
    <3>2. CASE k # n + 1
      <4>1. k \in 1 .. Len(t) /\ u[k] = t[k]
        BY <1>2, <1>16, <1>17, <3>2
      <4>2. FrameGood(disk, u[k], k, r)
        BY Zenon, <1>21, <4>1 DEF FramesGood
      <4>3. CASE k = n
        BY <1>16, <1>22, <4>1, <4>2, <4>3
      <4>4. CASE k # n
        <5>1. k < Len(t)
          BY <1>2, <1>16, <4>1, <4>4
        <5> QED
          BY Zenon, <1>21, <4>1, <4>2, <5>1 DEF FramesGood
      <4> QED
        BY <4>3, <4>4
    <3> QED
      BY <3>1, <3>2
  <2> QED
    BY Zenon, <2>1 DEF FramesGood
<1>25. ASSUME NEW q \in Minix!OnDisk(disk)
       PROVE  Waits(disk, f, n, path, q) <=>
                Waits(disk, g, n, r, q) \/ Waits(disk, h, n + 1, r, q)
  <2>1. Starts(path, q[2], n - 1) <=> Starts(r, q[2], n - 1)
    BY Zenon, <1>18, StartsKept
  <2>2. f.at = "entries" /\ f.at # "inode" /\ g.at # "inode" /\ f.at # "zones" /\ g.at # "zones"
    BY <1>1, <1>10
  <2>3. ASSUME Waits(disk, f, n, path, q)
        PROVE  Waits(disk, g, n, r, q) \/ Waits(disk, h, n + 1, r, q)
    <3>1. Starts(path, q[2], n - 1) /\ Len(q[2]) >= 2 * n
      BY Zenon, <2>2, <2>3 DEF Waits
    <3>2. PICK k \in Minix!Places(disk, f.ino) :
            q[2][2 * n] = Minix!EntryOf(disk, f.ino, k).name /\ k >= j
      BY Zenon, <2>2, <2>3 DEF Waits, Ahead, j
    <3>3. CASE k = j
      <4>1. Starts(x[2], q[2], n - 1)
        BY <1>19, <3>1 DEF Starts
      <4>2. q[2][2 * (n - 1) + 1] = "/"
        <5>1. n - 1 \in 0 .. Depth /\ Len(q[2]) # 2 * (n - 1)
          BY <1>2, <1>3, <3>1, DisksAssumption
        <5>2. GoesOn(disk, x[1], q[2], n - 1)
          BY Zenon, <1>2, <1>19, <4>1, <5>1, PathsGoOn
        <5> QED
          BY <5>2 DEF GoesOn
      <4>3. q[2][2 * n - 1] = "/" /\ r[2 * n - 1] = "/"
        <5>1. 2 * (n - 1) + 1 = 2 * n - 1 /\ 2 * n - 1 \in 1 .. 2 * n - 1
          BY <1>2
        <5> QED
          BY <1>3, <1>14, <4>2, <5>1
      <4>4. q[2][2 * n] = r[2 * n]
        BY <1>14, <3>2, <3>3 DEF e
      <4>5. \A i \in 1 .. 2 * (n - 1) : q[2][i] = r[i]
        BY <2>1, <3>1 DEF Starts
      <4>6. \A i \in 1 .. 2 * n : i \in 1 .. 2 * (n - 1) \/ i = 2 * n - 1 \/ i = 2 * n
        BY <1>2
      <4>7. \A i \in 1 .. 2 * n : q[2][i] = r[i]
        BY Zenon, <4>3, <4>4, <4>5, <4>6
      <4>8. Starts(r, q[2], n)
        BY Zenon, <3>1, <4>7 DEF Starts
      <4>9. (n + 1) - 1 = n
        BY <1>2
      <4>10. Starts(r, q[2], (n + 1) - 1)
        BY <4>8, <4>9
      <4> QED
        BY Zenon, <1>15, <4>10 DEF Waits
    <3>4. CASE k # j
      <4>1. k >= Nth(g)
        <5>1. k \in Int
          BY <3>2 DEF Minix!Places
        <5> QED
          BY <1>5, <1>11, <3>2, <3>4, <5>1
      <4>2. Ahead(g, k)
        BY <1>10, <4>1 DEF Ahead
      <4> QED
        BY Zenon, <1>10, <2>1, <3>1, <3>2, <4>2 DEF Waits
    <3> QED
      BY <3>3, <3>4
  <2>4. ASSUME Waits(disk, g, n, r, q)
        PROVE  Waits(disk, f, n, path, q)
    <3>1. Starts(r, q[2], n - 1) /\ Len(q[2]) >= 2 * n
      BY Zenon, <2>2, <2>4 DEF Waits
    <3>2. PICK k \in Minix!Places(disk, g.ino) :
            q[2][2 * n] = Minix!EntryOf(disk, g.ino, k).name /\ k >= Nth(g)
      BY Zenon, <2>2, <2>4 DEF Waits, Ahead
    <3>3. k >= j
      <4>1. k \in Int
        BY <3>2 DEF Minix!Places
      <4> QED
        BY <1>5, <1>11, <3>2, <4>1
    <3>4. Ahead(f, k)
      BY <1>1, <3>3 DEF Ahead, j
    <3> QED
      BY Zenon, <1>10, <2>1, <3>1, <3>2, <3>4 DEF Waits
  <2>5. ASSUME Waits(disk, h, n + 1, r, q)
        PROVE  Waits(disk, f, n, path, q)
    <3>1. Starts(r, q[2], n)
      <4>1. (n + 1) - 1 = n
        BY <1>2
      <4> QED
        BY <2>5, <4>1 DEF Waits
    <3>2. Starts(path, q[2], n - 1)
      <4>1. Starts(r, q[2], n - 1)
        <5>1. q[2] \in Seq(Words(disk))
          <6>1. PICK m \in 1 .. Depth : q \in Minix!PathsOfLength(disk)[m]
            BY Zenon, OnDiskIs
          <6>2. m \in 0 .. Depth
            BY <6>1
          <6>3. PathShaped(disk, q, m)
            BY Zenon, <1>2, <6>1, <6>2, PathsShaped
          <6> QED
            BY <6>3 DEF PathShaped
        <5>2. Len(q[2]) \in Nat
          BY <5>1
        <5> QED
          BY <1>2, <3>1, <5>2 DEF Starts
      <4> QED
        BY <2>1, <4>1
    <3>3. Len(q[2]) >= 2 * n /\ q[2][2 * n] = e.name
      <4>1. 2 * n \in 1 .. 2 * n
        BY <1>2
      <4> QED
        BY <1>14, <3>1, <4>1 DEF Starts
    <3>4. Ahead(f, j)
      BY <1>1, <1>5 DEF Ahead, j
    <3> QED
      BY Zenon, <1>5, <3>2, <3>3, <3>4 DEF Waits, e
  <2> QED
    BY Zenon, <2>3, <2>4, <2>5
<1>26. Pending(disk, u, r, n + 1) = Pending(disk, stack, path, n)
  <2> DEFINE m == n - 1
  <2>1. m \in Nat /\ m + 1 = n /\ n \in Nat
    BY <1>2
  <2>2. SameBelow(t, u, r, r, m)
    BY <1>2, <1>14, <1>17 DEF SameBelow, Agree
  <2> HIDE DEF m
  <2>3. Pending(disk, u, r, m) = Pending(disk, t, r, m)
    BY <2>1, <2>2, PendingKept
  <2>4. Pending(disk, u, r, m) = Pending(disk, stack, path, m)
    BY <1>21, <2>3 DEF m
  <2>5. ASSUME NEW q \in Minix!OnDisk(disk)
        PROVE  q \in Pending(disk, u, r, n + 1) <=> q \in Pending(disk, stack, path, n)
    <3>1. q \in Pending(disk, u, r, n + 1) <=>
            q \in Pending(disk, u, r, n) \/ Waits(disk, u[n + 1], n + 1, r, q)
      BY Zenon, <2>1, PendingOneMore
    <3>2. q \in Pending(disk, u, r, m + 1) <=>
            q \in Pending(disk, u, r, m) \/ Waits(disk, u[m + 1], m + 1, r, q)
      BY Zenon, <2>1, PendingOneMore
    <3>3. q \in Pending(disk, stack, path, m + 1) <=>
            q \in Pending(disk, stack, path, m) \/ Waits(disk, stack[m + 1], m + 1, path, q)
      BY Zenon, <2>1, PendingOneMore
    <3>4. u[m + 1] = g /\ stack[m + 1] = f /\ u[n + 1] = h
      BY <1>2, <1>9, <1>16, <1>17, <2>1
    <3>5. q \in Pending(disk, u, r, n) <=> q \in Pending(disk, u, r, m) \/ Waits(disk, g, n, r, q)
      BY <2>1, <3>2, <3>4
    <3>6. q \in Pending(disk, stack, path, n) <=>
            q \in Pending(disk, stack, path, m) \/ Waits(disk, f, n, path, q)
      BY <2>1, <3>3, <3>4
    <3>7. Waits(disk, u[n + 1], n + 1, r, q) <=> Waits(disk, h, n + 1, r, q)
      BY <3>4
    <3> QED
      BY Zenon, <1>25, <2>4, <3>1, <3>5, <3>6, <3>7
  <2> QED
    BY Zenon, <2>5 DEF Pending
<1>27. WalkTypes'
  BY <1>7, <1>8, <1>1, <1>14, <1>17 DEF WalkTypes
<1>28. WalkBooks'
  BY <1>1, <1>2, <1>7, <1>8, <1>17 DEF WalkBooks
<1>29. FramesGood(disk, stack, path)' /\ NoneTwice(printed)'
  BY <1>7, <1>8, <1>24
<1>30. Minix!Printed' = Minix!Printed
  BY <1>7, Zenon DEF Minix!Printed
<1>31. (Minix!OnDisk(disk) \ Pending(disk, stack, path, Len(stack)))'
         = Minix!OnDisk(disk) \ Pending(disk, stack, path, n)
  BY <1>7, <1>17, <1>26
<1> QED
  BY <1>8, <1>27, <1>28, <1>29, <1>30, <1>31 DEF WalkGoes

\* The path of a frame is not among those that the frames below it wait for.
LEMMA OwnPathPassed ==
  ASSUME WalkGoes, walk = "walk", NEW x, x[2] = path, NEW m \in Nat, m < Len(stack)
  PROVE  x \notin Pending(disk, stack, path, m)
<1> SUFFICES ASSUME x \in Pending(disk, stack, path, m) PROVE FALSE
  OBVIOUS
<1>1. /\ disk \in Disks /\ stack \in Seq(FrameType(disk)) /\ FramesGood(disk, stack, path)
  BY DEF WalkGoes, WalkTypes
<1>2. PICK k \in 1 .. m : Waits(disk, stack[k], k, path, x)
  BY Zenon DEF Pending
<1>3. k \in 1 .. Len(stack) /\ k < Len(stack)
  BY <1>1
<1> DEFINE f == stack[k]
<1>4. FrameGood(disk, f, k, path) /\ Passed(disk, f, k, path)
  BY Zenon, <1>1, <1>3 DEF FramesGood
<1>5. f \in FrameType(disk)
  BY <1>1, <1>3
<1> HIDE DEF f
<1>6. f.at = "entries" /\ f.at # "inode" /\ f.at # "zones" /\ f.ino \in DOMAIN disk.inode
  BY <1>4, <1>5 DEF Passed, FrameType
<1>7. disk.inode[f.ino].dir
  BY <1>4, <1>6 DEF FrameGood
<1>8. PICK j \in Minix!Places(disk, f.ino) :
        x[2][2 * k] = Minix!EntryOf(disk, f.ino, j).name /\ j >= Nth(f)
  BY Zenon, <1>2, <1>6 DEF Waits, Ahead, f
<1>9. /\ Nth(f) - 1 \in Minix!Places(disk, f.ino)
      /\ path[2 * k] = Minix!EntryOf(disk, f.ino, Nth(f) - 1).name
  BY <1>4 DEF Passed
<1>10. EntryGood(disk, f.ino, Nth(f) - 1)
  BY Zenon, <1>1, <1>6, <1>7, <1>9, EntriesGood, DisksAssumption
<1>11. Minix!EntryOf(disk, f.ino, j).name = Minix!EntryOf(disk, f.ino, Nth(f) - 1).name
  BY Zenon, <1>8, <1>9
<1>12. j = Nth(f) - 1
  BY Zenon, <1>8, <1>10, <1>11 DEF EntryGood
<1>13. Nth(f) \in Nat /\ j \in Int
  BY <1>5, <1>8 DEF Nth, FrameType, Minix!Places
<1> QED
  BY <1>8, <1>12, <1>13

LEMMA ReadInodeStep ==
  ASSUME WalkGoes, Minix!ReadInode
  PROVE  WalkGoes'
<1> DEFINE f == Minix!Top
           n == Len(stack)
           m == n - 1
           x == <<f.ino, path>>
           g == IF disk.inode[f.ino].dir
                THEN [f EXCEPT !.at = "zones", !.len = Len(path), !.i = 0]
                ELSE [f EXCEPT !.at = "end"]
           r == IF disk.inode[f.ino].dir THEN Append(path, "/") ELSE path
           t == [stack EXCEPT ![n] = g]
<1>1. walk = "walk" /\ f.at = "inode" /\ AtTop(f, n)
  BY Zenon, WalkingFrame DEF Minix!ReadInode
<1>2. /\ f \in FrameType(disk) /\ FrameGood(disk, f, n, path) /\ f.i \in Nat
      /\ f.ino \in DOMAIN disk.inode /\ disk.inode[f.ino].dir \in BOOLEAN
      /\ Minix!WellFormed(disk) /\ n \in Nat \ {0} /\ stack[n] = f
  BY <1>1 DEF AtTop
<1>3. m \in Nat /\ m + 1 = n /\ m \in 0 .. Depth /\ n \in 1 .. Depth + 1 /\ Depth \in Nat
  BY <1>2, DisksAssumption DEF FrameGood
<1>4. /\ disk \in Disks /\ stack \in Seq(FrameType(disk)) /\ stack # <<>>
      /\ FramesGood(disk, stack, path) /\ path \in Seq(Words(disk))
      /\ printed \in Seq(Minix!OnDisk(disk)) /\ taken = 2 + n /\ NoneTwice(printed)
      /\ Minix!Printed = Minix!OnDisk(disk) \ Pending(disk, stack, path, n)
      /\ disk.magic
  BY <1>1 DEF WalkGoes, WalkTypes, WalkBooks, AtTop
<1>5. Len(path) = 2 * m
  BY <1>1, <1>2 DEF FrameGood
<1>6. x \in Minix!PathsOfLength(disk)[m]
  <2>1. PICK y \in Minix!PathsOfLength(disk)[m] : y[1] = f.ino /\ Starts(y[2], path, m)
    BY <1>2 DEF FrameGood
  <2> HIDE DEF m
  <2>2. PathShaped(disk, y, m)
    BY Zenon, <1>2, <1>3, <2>1, PathsShaped
  <2>3. y[2] \in Seq(Words(disk)) /\ Len(y[2]) = 2 * m /\ y = <<y[1], y[2]>>
    BY <2>2 DEF PathShaped
  <2>4. Len(path) = Len(y[2]) /\ \A i \in 1 .. Len(path) : path[i] = y[2][i]
    BY <1>5, <2>1, <2>3 DEF Starts
  <2>5. path = y[2]
    BY Zenon, <1>4, <2>3, <2>4, SameSequence
  <2> QED
    BY <2>1, <2>3, <2>5
<1>7. x[1] = f.ino /\ x[2] = path
  OBVIOUS
<1>8. /\ stack' = t /\ path' = r
      /\ printed' = IF path = <<>> THEN printed ELSE Append(printed, x)
      /\ UNCHANGED <<disk, walk, taken>>
  <2>1. /\ printed' = IF path = <<>> THEN printed ELSE Append(printed, x)
        /\ UNCHANGED <<disk, walk, taken>>
    BY DEF Minix!ReadInode
  <2>2. CASE disk.inode[f.ino].dir
    BY <2>1, <2>2 DEF Minix!ReadInode, Minix!Inode, Minix!SetTop
  <2>3. CASE ~disk.inode[f.ino].dir
    BY <2>1, <2>3 DEF Minix!ReadInode, Minix!Inode, Minix!SetTop
  <2> QED
    BY <2>2, <2>3
<1> HIDE DEF f, n, m
<1>9. /\ g \in FrameType(disk) /\ g.ino = f.ino
      /\ IF disk.inode[f.ino].dir THEN g.at = "zones" /\ g.i = 0 /\ g.len = 2 * m
         ELSE g.at = "end"
  <2>1. Len(path) \in Nat
    BY <1>3, <1>5
  <2>2. CASE disk.inode[f.ino].dir
    BY <1>2, <1>5, <2>1, <2>2 DEF FrameType
  <2>3. CASE ~disk.inode[f.ino].dir
    BY <1>2, <2>3 DEF FrameType
  <2> QED
    BY <2>2, <2>3
<1>10. /\ r \in Seq(Words(disk)) /\ Len(r) >= 2 * m
       /\ \A i \in 1 .. 2 * m : r[i] = path[i]
       /\ disk.inode[f.ino].dir => Len(r) = 2 * m + 1 /\ r[2 * m + 1] = "/"
  <2>1. "/" \in Words(disk)
    BY DEF Words
  <2>2. ASSUME NEW c \in Words(disk)
        PROVE  /\ Append(path, c) \in Seq(Words(disk)) /\ Len(Append(path, c)) = 2 * m + 1
               /\ \A i \in 1 .. 2 * m : Append(path, c)[i] = path[i]
               /\ Append(path, c)[2 * m + 1] = c
    BY <1>3, <1>4, <1>5
  <2>3. CASE disk.inode[f.ino].dir
    <3>1. r = Append(path, "/")
      BY <2>3
    <3>2. /\ r \in Seq(Words(disk)) /\ Len(r) = 2 * m + 1
          /\ \A i \in 1 .. 2 * m : r[i] = path[i]
          /\ r[2 * m + 1] = "/"
      BY Zenon, <2>1, <2>2, <3>1
    <3> HIDE DEF r
    <3> QED
      BY <1>3, <3>2
  <2>4. CASE ~disk.inode[f.ino].dir
    BY <1>3, <1>4, <1>5, <2>4
  <2> QED
    BY <1>2, <2>3, <2>4
<1> HIDE DEF g, r
<1>11. Agree(path, r, m)
  <2>1. Len(r) \in Nat
    BY <1>10
  <2> QED
    BY <1>10, <2>1 DEF Agree
<1>12. FrameGood(disk, g, n, r)
  <2>1. Starts(x[2], r, m)
    BY <1>7, <1>10 DEF Starts
  <2>2. \E y \in Minix!PathsOfLength(disk)[n - 1] : y[1] = g.ino /\ Starts(y[2], r, n - 1)
    BY <1>6, <1>7, <1>9, <2>1 DEF m
  <2>3. CASE disk.inode[f.ino].dir
    <3>1. Len(r) >= 2 * n - 1 /\ r[2 * n - 1] = "/"
      <4>1. 2 * m + 1 = 2 * n - 1
        BY <1>3
      <4> QED
        BY <1>3, <1>10, <2>3, <4>1
    <3> QED
      BY <1>3, <1>9, <2>2, <2>3, <3>1 DEF FrameGood, m
  <2>4. CASE ~disk.inode[f.ino].dir
    BY <1>3, <1>9, <2>2, <2>4 DEF FrameGood
  <2> QED
    BY <2>3, <2>4
<1>13. FramesGood(disk, t, r) /\ Pending(disk, t, r, m) = Pending(disk, stack, path, m)
  BY <1>4, <1>9, <1>11, <1>12, TopReplaced DEF n, m
<1>14. g.at # "inode"
  BY <1>9
<1>15. ASSUME NEW q \in Minix!OnDisk(disk)
       PROVE  Waits(disk, f, n, path, q) <=> Waits(disk, g, n, r, q) \/ q = x
  <2>1. Starts(path, q[2], m) <=> Starts(r, q[2], m)
    BY Zenon, <1>11, StartsKept
  <2>2. Waits(disk, f, n, path, q) <=> Starts(path, q[2], m)
    BY <1>1, <1>3 DEF Waits, m
  <2>3. Waits(disk, g, n, r, q) => Starts(r, q[2], m)
    BY DEF Waits, m
  <2>4. q = x => Starts(path, q[2], m)
    BY <1>5, <1>3, <1>7 DEF Starts
  <2>5. ASSUME Starts(path, q[2], m) PROVE Waits(disk, g, n, r, q) \/ q = x
    <3>1. IF Len(q[2]) = 2 * m THEN q = x ELSE GoesOn(disk, x[1], q[2], m)
      BY Zenon, <1>2, <1>3, <1>6, <1>7, <2>5, PathsGoOn
    <3>2. CASE GoesOn(disk, x[1], q[2], m)
      <4>1. disk.inode[f.ino].dir /\ Len(q[2]) >= 2 * n
        BY <1>3, <1>7, <3>2 DEF GoesOn
      <4>2. PICK k \in Minix!Places(disk, f.ino) :
              q[2][2 * n] = Minix!EntryOf(disk, f.ino, k).name
        <5>1. 2 * m + 2 = 2 * n
          BY <1>3
        <5> QED
          BY <1>7, <3>2, <5>1 DEF GoesOn
      <4>3. Ahead(g, k)
        BY <1>9, <4>1 DEF Ahead
      <4>4. Starts(r, q[2], n - 1)
        BY <2>1, <2>5 DEF m
      <4> QED
        BY Zenon, <1>9, <4>1, <4>2, <4>3, <4>4 DEF Waits
    <3> QED
      BY Zenon, <3>1, <3>2
  <2> QED
    BY Zenon, <2>1, <2>2, <2>3, <2>4, <2>5
<1>16. ASSUME NEW q \in Minix!OnDisk(disk)
       PROVE  q \in Pending(disk, stack, path, n) <=> q \in Pending(disk, t, r, n) \/ q = x
  <2>1. q \in Pending(disk, stack, path, m + 1) <=>
          q \in Pending(disk, stack, path, m) \/ Waits(disk, stack[m + 1], m + 1, path, q)
    BY Zenon, <1>3, PendingOneMore
  <2>2. q \in Pending(disk, t, r, m + 1) <=>
          q \in Pending(disk, t, r, m) \/ Waits(disk, t[m + 1], m + 1, r, q)
    BY Zenon, <1>3, PendingOneMore
  <2>3. stack[m + 1] = f /\ t[m + 1] = g
    BY <1>2, <1>3, <1>4 DEF n
  <2>4. q \in Pending(disk, stack, path, n) <=>
          q \in Pending(disk, stack, path, m) \/ Waits(disk, f, n, path, q)
    BY <1>3, <2>1, <2>3
  <2>5. q \in Pending(disk, t, r, n) <=>
          q \in Pending(disk, t, r, m) \/ Waits(disk, g, n, r, q)
    BY <1>3, <2>2, <2>3
  <2> QED
    BY Zenon, <1>13, <1>15, <2>4, <2>5
<1>17. x \notin Pending(disk, t, r, n)
  <2> SUFFICES ASSUME x \in Pending(disk, t, r, n) PROVE FALSE
    OBVIOUS
  <2>1. x \in Minix!OnDisk(disk)
    BY Zenon DEF Pending
  <2>2. x \in Pending(disk, t, r, m + 1) <=>
          x \in Pending(disk, t, r, m) \/ Waits(disk, t[m + 1], m + 1, r, x)
    BY Zenon, <1>3, <2>1, PendingOneMore
  <2>3. t[m + 1] = g
    BY <1>2, <1>3, <1>4 DEF n
  <2>4. ~Waits(disk, g, n, r, x)
    <3>1. ~(Len(x[2]) >= 2 * n)
      BY <1>3, <1>5, <1>7
    <3> QED
      BY Zenon, <1>14, <3>1 DEF Waits
  <2>5. x \notin Pending(disk, stack, path, m)
    <3>1. m < Len(stack)
      BY <1>3 DEF n
    <3> QED
      BY Zenon, <1>1, <1>3, <1>7, <3>1, OwnPathPassed
  <2> QED
    BY <1>3, <1>13, <2>2, <2>3, <2>4, <2>5
<1> HIDE DEF x
<1>18. t \in Seq(FrameType(disk)) /\ Len(t) = n /\ t # <<>>
  BY <1>2, <1>4, <1>9 DEF n
<1> HIDE DEF t
<1>19. /\ printed' \in Seq(Minix!OnDisk(disk)) /\ NoneTwice(printed')
       /\ Minix!Printed' = Minix!OnDisk(disk) \ Pending(disk, t, r, n)
  <2>1. CASE m = 0
    <3>1. path = <<>>
      BY <1>4, <1>5, <2>1
    <3>2. x \notin Minix!OnDisk(disk)
      <4> SUFFICES ASSUME x \in Minix!OnDisk(disk) PROVE FALSE
        OBVIOUS
      <4>1. PICK k \in 1 .. Depth : x \in Minix!PathsOfLength(disk)[k]
        BY Zenon, OnDiskIs
      <4>2. k \in 0 .. Depth
        BY <4>1
      <4>3. PathShaped(disk, x, k)
        BY Zenon, <1>2, <4>1, <4>2, PathsShaped
      <4> QED
        BY <1>5, <1>7, <2>1, <4>1, <4>3 DEF PathShaped
    <3>3. Minix!OnDisk(disk) \ Pending(disk, t, r, n)
            = Minix!OnDisk(disk) \ Pending(disk, stack, path, n)
      BY <1>16, <3>2
    <3>4. printed' = printed
      BY <1>8, <3>1
    <3>5. Minix!Printed' = Minix!Printed
      BY <3>4, Zenon DEF Minix!Printed
    <3> QED
      BY <1>4, <3>3, <3>4, <3>5
  <2>2. CASE m # 0
    <3>1. path # <<>>
      <4>1. Len(path) # 0
        BY <1>3, <1>5, <2>2
      <4> QED
        BY <4>1
    <3>2. printed' = Append(printed, x)
      BY <1>8, <3>1
    <3>3. x \in Minix!OnDisk(disk)
      <4>1. m \in 1 .. Depth
        BY <1>3, <2>2
      <4> QED
        BY Zenon, <1>6, <4>1, OnDiskIs
    <3>4. x \in Pending(disk, stack, path, n)
      BY <1>16, <3>3
    <3>5. x \notin Minix!Printed
      BY <1>4, <3>4
    <3>6. \A k \in DOMAIN printed : printed[k] # x
      BY <3>5 DEF Minix!Printed
    <3>7. printed' \in Seq(Minix!OnDisk(disk))
      BY <1>4, <3>2, <3>3
    <3>8. /\ DOMAIN printed = 1 .. Len(printed) /\ Len(printed) \in Nat
          /\ DOMAIN printed' = 1 .. Len(printed) + 1
          /\ \A k \in 1 .. Len(printed) : printed'[k] = printed[k]
          /\ printed'[Len(printed) + 1] = x
      BY <1>4, <3>2, <3>3
    <3>9. NoneTwice(printed')
      BY <1>4, <3>6, <3>8 DEF NoneTwice
    <3>10. Minix!Printed' = Minix!Printed \cup {x}
      <4>1. Minix!Printed' = {printed'[k] : k \in DOMAIN printed'}
        BY Zenon DEF Minix!Printed
      <4>2. {printed'[k] : k \in DOMAIN printed'} = {printed[k] : k \in DOMAIN printed} \cup {x}
        BY <3>8
      <4> QED
        BY <4>1, <4>2 DEF Minix!Printed
    <3> QED
      BY <1>4, <1>16, <1>17, <3>3, <3>7, <3>9, <3>10
  <2> QED
    BY <2>1, <2>2
<1>20. WalkTypes'
  BY <1>4, <1>1, <1>8, <1>10, <1>18, <1>19 DEF WalkTypes
<1>21. WalkBooks'
  BY <1>1, <1>4, <1>8, <1>18 DEF WalkBooks
<1>22. FramesGood(disk, stack, path)' /\ NoneTwice(printed)'
  BY <1>8, <1>13, <1>19
<1>23. (Minix!OnDisk(disk) \ Pending(disk, stack, path, Len(stack)))'
         = Minix!OnDisk(disk) \ Pending(disk, t, r, n)
  BY <1>8, <1>18
<1> QED
  BY <1>19, <1>20, <1>21, <1>22, <1>23 DEF WalkGoes

\* The call at the top returns.
LEMMA EndStep ==
  ASSUME WalkGoes, Minix!End, walker = "print"
  PROVE  WalkGoes'
<1> DEFINE f == Minix!Top
           n == Len(stack)
           m == n - 1
           t == SubSeq(stack, 1, n - 1)
<1>1. walk = "walk" /\ f.at = "end" /\ AtTop(f, n)
  BY Zenon, WalkingFrame DEF Minix!End
<1>2. n \in Nat \ {0} /\ m \in Nat /\ m + 1 = n /\ stack[n] = f
  BY <1>1 DEF AtTop
<1>3. /\ disk \in Disks /\ stack \in Seq(FrameType(disk)) /\ stack # <<>>
      /\ FramesGood(disk, stack, path) /\ path \in Seq(Words(disk))
      /\ printed \in Seq(Minix!OnDisk(disk)) /\ taken = 2 + n /\ NoneTwice(printed)
      /\ Minix!Printed = Minix!OnDisk(disk) \ Pending(disk, stack, path, n)
      /\ disk.magic
  BY <1>1 DEF WalkGoes, WalkTypes, WalkBooks, AtTop
<1>4. /\ stack' = t /\ walk' = IF t = <<>> THEN "out" ELSE walk
      /\ taken' = taken - 1 /\ UNCHANGED <<disk, path, printed>>
  BY Zenon DEF Minix!End
<1>5. /\ t \in Seq(FrameType(disk)) /\ Len(t) = m /\ \A k \in 1 .. m : t[k] = stack[k]
  BY <1>2, <1>3
<1> HIDE DEF t, n, m, f
<1>6. FramesGood(disk, t, path)
  <2>1. ASSUME NEW k \in 1 .. Len(t)
        PROVE  FrameGood(disk, t[k], k, path) /\ Passed(disk, t[k], k, path)
    <3>1. t[k] = stack[k] /\ k \in 1 .. Len(stack) /\ k < Len(stack)
      BY <1>2, <1>5 DEF n
    <3> QED
      BY <1>3, <3>1 DEF FramesGood
  <2> QED
    BY Zenon, <2>1 DEF FramesGood
<1>7. Pending(disk, t, path, m) = Pending(disk, stack, path, m)
  <2>1. SameBelow(stack, t, path, path, m)
    <3>1. Len(path) \in Nat /\ Len(path) >= 2 * m
      BY <1>1 DEF AtTop, m
    <3> QED
      BY <1>2, <1>5, <3>1 DEF SameBelow, Agree
  <2> QED
    BY <1>2, <2>1, PendingKept
<1>8. ASSUME NEW q \in Minix!OnDisk(disk)
      PROVE  q \in Pending(disk, stack, path, n) <=> q \in Pending(disk, t, path, m)
  <2>1. q \in Pending(disk, stack, path, m + 1) <=>
          q \in Pending(disk, stack, path, m) \/ Waits(disk, stack[m + 1], m + 1, path, q)
    BY Zenon, <1>2, PendingOneMore
  <2>2. f.at # "inode" /\ \A j : ~Ahead(f, j)
    BY <1>1 DEF Ahead
  <2>3. ~Waits(disk, f, n, path, q)
    BY Zenon, <2>2, NothingAhead
  <2> QED
    BY <1>2, <1>7, <2>1, <2>3
<1>9. Minix!OnDisk(disk) \ Pending(disk, t, path, m)
        = Minix!OnDisk(disk) \ Pending(disk, stack, path, n)
  BY <1>8
<1>10. WalkTypes'
  BY <1>1, <1>3, <1>4, <1>5 DEF WalkTypes
<1>11. WalkBooks'
  <2>1. t = <<>> <=> m = 0
    BY <1>2, <1>5
  <2> QED
    BY <1>1, <1>2, <1>3, <1>4, <1>5, <2>1 DEF WalkBooks
<1>12. FramesGood(disk, stack, path)' /\ NoneTwice(printed)'
  BY <1>3, <1>4, <1>6
<1>13. Minix!Printed' = Minix!Printed
  BY <1>4, Zenon DEF Minix!Printed
<1>14. (Minix!OnDisk(disk) \ Pending(disk, stack, path, Len(stack)))'
         = Minix!OnDisk(disk) \ Pending(disk, t, path, m)
  BY <1>4, <1>5
<1> QED
  BY <1>3, <1>9, <1>10, <1>11, <1>12, <1>13, <1>14 DEF WalkGoes

LEMMA NothingPrinted == printed = <<>> => Minix!Printed = {}
BY DEF Minix!Printed

LEMMA StartStep ==
  ASSUME WalkGoes, Minix!Start, walker = "print", third = "length"
  PROVE  WalkGoes'
<1> DEFINE f == Minix!Frame(1)
<1>1. walk = "start" /\ UNCHANGED <<disk, path, printed>>
  BY DEF Minix!Start
<1>2. /\ disk \in Disks /\ path = <<>> /\ printed = <<>> /\ stack = <<>> /\ taken = 2
      /\ path \in Seq(Words(disk)) /\ printed \in Seq(Minix!OnDisk(disk))
  <2>1. stack \in Seq(FrameType(disk)) /\ stack = <<>>
    BY <1>1 DEF WalkGoes, WalkTypes, WalkBooks
  <2> QED
    BY <1>1, <2>1 DEF WalkGoes, WalkTypes, WalkBooks
<1>3. Minix!Printed' = {} /\ NoneTwice(printed)'
  <2>1. printed' = <<>>
    BY <1>1, <1>2
  <2>2. Minix!Printed' = {printed'[k] : k \in DOMAIN printed'}
    BY Zenon DEF Minix!Printed
  <2> QED
    BY <2>1, <2>2 DEF NoneTwice
<1>4. CASE ~disk.magic
  <2>1. walk' = "out" /\ stack' = stack /\ taken' = taken
    BY <1>4 DEF Minix!Start
  <2>2. WalkTypes' /\ WalkBooks'
    BY <1>1, <1>2, <2>1 DEF WalkTypes, WalkBooks
  <2>3. FramesGood(disk, stack, path)'
    BY <1>1, <1>2, <2>1 DEF FramesGood
  <2> QED
    BY <1>1, <1>3, <1>4, <2>2, <2>3 DEF WalkGoes
<1>5. CASE disk.magic
  <2>1. walk' = "walk" /\ stack' = <<f>> /\ taken' = 3
    <3>1. third # "end"
      OBVIOUS
    <3>2. walk' = "walk" /\ stack' = Minix!Push(f) /\ taken' = taken + 1
      BY <1>5, <3>1 DEF Minix!Start
    <3>3. Minix!Push(f) = <<f>>
      BY <1>2 DEF Minix!Push
    <3> QED
      BY <1>2, <3>2, <3>3
  <2>2. Minix!WellFormed(disk) /\ Depth \in Nat
    BY Zenon, <1>2, DisksAssumption
  <2>3. 1 \in DOMAIN disk.inode
    BY <2>2 DEF Minix!WellFormed
  <2>4. f \in FrameType(disk) /\ f.ino = 1 /\ f.at = "inode"
    BY <2>3 DEF Minix!Frame, FrameType
  <2> HIDE DEF f
  <2>5. FrameGood(disk, f, 1, <<>>)
    <3> DEFINE y == <<1, <<>> >>
    <3>1. y \in Minix!PathsOfLength(disk)[0]
      <4>1. Minix!PathsOfLength(disk)[0] = {<<1, <<>> >>}
        BY Zenon, PathsAre
      <4> QED
        BY <4>1
    <3>2. y[1] = f.ino /\ Starts(y[2], <<>>, 0)
      BY <2>4 DEF Starts
    <3>3. 1 - 1 = 0 /\ 1 \in 1 .. Depth + 1 /\ Len(<<>>) = 2 * (1 - 1)
      BY <2>2
    <3> HIDE DEF y
    <3> QED
      BY <2>4, <3>1, <3>2, <3>3 DEF FrameGood
  <2>6. FramesGood(disk, stack, path)'
    <3>1. disk' = disk /\ stack' = <<f>> /\ path' = <<>>
      BY <1>1, <1>2, <2>1
    <3>2. FramesGood(disk, <<f>>, <<>>)
      <4>1. Len(<<f>>) = 1 /\ <<f>>[1] = f
        OBVIOUS
      <4>2. \A k \in 1 .. Len(<<f>>) : k = 1 /\ ~(k < Len(<<f>>))
        OBVIOUS
      <4> QED
        BY Zenon, <2>5, <4>1, <4>2 DEF FramesGood
    <3> QED
      BY <3>1, <3>2
  <2>7. (Minix!OnDisk(disk) \ Pending(disk, stack, path, Len(stack)))' = {}
    <3>1. disk' = disk /\ stack' = <<f>> /\ path' = <<>> /\ Len(stack') = 1
      BY <1>1, <1>2, <2>1
    <3>2. ASSUME NEW q \in Minix!OnDisk(disk) PROVE q \in Pending(disk, <<f>>, <<>>, 1)
      <4>1. PICK l \in 1 .. Depth : q \in Minix!PathsOfLength(disk)[l]
        BY Zenon, OnDiskIs
      <4>2. PathShaped(disk, q, l)
        <5>1. l \in 0 .. Depth
          BY <4>1
        <5> QED
          BY Zenon, <2>2, <4>1, <5>1, PathsShaped
      <4>3. Len(q[2]) \in Nat
        BY <4>2 DEF PathShaped
      <4>4. Starts(<<>>, q[2], 0)
        BY <4>3 DEF Starts
      <4>5. Waits(disk, <<f>>[1], 1, <<>>, q)
        BY <2>4, <4>4 DEF Waits
      <4>6. 1 \in 1 .. 1
        OBVIOUS
      <4> QED
        BY Zenon, <4>5, <4>6 DEF Pending
    <3> QED
      BY <3>1, <3>2
  <2>8. WalkTypes'
    <3>1. <<f>> \in Seq(FrameType(disk))
      BY <2>4
    <3> QED
      BY <1>1, <1>2, <2>1, <3>1 DEF WalkTypes
  <2>9. WalkBooks'
    <3>1. <<f>> # <<>> /\ Len(<<f>>) = 1
      OBVIOUS
    <3> QED
      BY <1>1, <1>2, <1>5, <2>1, <3>1 DEF WalkBooks
  <2> QED
    BY <1>3, <2>6, <2>7, <2>8, <2>9 DEF WalkGoes
<1>6. third = "length" /\ third # "end"
  OBVIOUS
<1> QED
  BY <1>4, <1>5

LEMMA OutStep ==
  ASSUME WalkGoes, Minix!Out
  PROVE  WalkGoes'
<1>1. walk = "out" /\ walk' = "done" /\ taken' = taken - 2
  BY DEF Minix!Out
<1>2. disk' = disk /\ stack' = stack /\ path' = path /\ printed' = printed
  BY DEF Minix!Out
<1>3. stack = <<>> /\ taken = 2
  <2>1. stack \in Seq(FrameType(disk)) /\ stack = <<>>
    BY <1>1 DEF WalkGoes, WalkTypes, WalkBooks
  <2> QED
    BY <1>1, <2>1 DEF WalkGoes, WalkBooks
<1>4. WalkTypes' /\ WalkBooks'
  BY <1>1, <1>2, <1>3 DEF WalkGoes, WalkTypes, WalkBooks
<1>5. FramesGood(disk, stack, path)' /\ NoneTwice(printed)'
  BY <1>2 DEF WalkGoes
<1>6. Minix!Printed' = Minix!Printed
  BY <1>2, Zenon DEF Minix!Printed
<1>7. (Minix!OnDisk(disk) \ Pending(disk, stack, path, Len(stack)))'
        = Minix!OnDisk(disk) \ Pending(disk, stack, path, Len(stack))
  BY <1>2
<1> QED
  BY <1>1, <1>2, <1>4, <1>5, <1>6, <1>7 DEF WalkGoes

LEMMA WalkStep ==
  ASSUME WalkInv, [Minix!Next]_(Minix!vars)
  PROVE  WalkInv'
<1>1. /\ disk' = disk /\ walker' = walker /\ third' = third
  BY Zenon DEF Minix!Next, Minix!MinixTest, Minix!VfsCacheInodes, Minix!Walk, Minix!Start,
       Minix!ReadInode, Minix!Zones, Minix!Entries, Minix!Indirect, Minix!End, Minix!Out,
       Minix!vars
<1> SUFFICES ASSUME walker = "print", third = "length", Minix!OneZone(disk)
             PROVE  WalkGoes'
  BY <1>1 DEF WalkInv
<1>2. WalkGoes
  BY DEF WalkInv
<1>3. CASE UNCHANGED Minix!vars
  <2>1. UNCHANGED <<disk, walk, stack, path, printed, taken>>
    BY <1>3 DEF Minix!vars
  <2>2. WalkTypes' /\ WalkBooks'
    BY <1>2, <2>1 DEF WalkGoes, WalkTypes, WalkBooks
  <2>3. FramesGood(disk, stack, path)' /\ NoneTwice(printed)'
    BY <1>2, <2>1 DEF WalkGoes
  <2>4. Minix!Printed' = Minix!Printed
    BY <2>1, Zenon DEF Minix!Printed
  <2>5. (Minix!OnDisk(disk) \ Pending(disk, stack, path, Len(stack)))'
          = Minix!OnDisk(disk) \ Pending(disk, stack, path, Len(stack))
    BY <2>1
  <2> QED
    BY <1>2, <2>1, <2>2, <2>3, <2>4, <2>5 DEF WalkGoes
<1>4. CASE Minix!Next
  <2>1. Minix!Walk
    BY <1>4, Zenon DEF Minix!Next, Minix!MinixTest, Minix!VfsCacheInodes
  <2>2. CASE Minix!Start
    BY Zenon, <1>2, <2>2, StartStep
  <2>3. CASE Minix!ReadInode
    BY Zenon, <1>2, <2>3, ReadInodeStep
  <2>4. CASE Minix!Zones
    BY Zenon, <1>2, <2>4, ZonesStep
  <2>5. CASE Minix!Entries
    BY Zenon, <1>2, <2>5, EntriesEnd, EntriesCall
  <2>6. CASE Minix!Indirect
    BY Zenon, <1>2, <2>6, IndirectStep
  <2>7. CASE Minix!End
    BY Zenon, <1>2, <2>7, EndStep
  <2>8. CASE Minix!Out
    BY Zenon, <1>2, <2>8, OutStep
  <2> QED
    BY Zenon, <2>1, <2>2, <2>3, <2>4, <2>5, <2>6, <2>7, <2>8 DEF Minix!Walk
<1> QED
  BY <1>3, <1>4

LEMMA WalkInit == Minix!Init => WalkInv
<1> SUFFICES ASSUME Minix!Init PROVE WalkGoes
  BY DEF WalkInv
<1>1. PICK d \in Disks, l \in Lasts, w \in Walkers : Minix!InitWith(d, l, w)
  BY Zenon DEF Minix!Init
<1>2. /\ disk \in Disks /\ walk = "start" /\ stack = <<>> /\ path = <<>> /\ printed = <<>>
      /\ taken = 2
  BY <1>1 DEF Minix!InitWith
<1>3. WalkTypes /\ WalkBooks
  BY <1>2 DEF WalkTypes, WalkBooks
<1>4. FramesGood(disk, stack, path) /\ NoneTwice(printed)
  BY <1>2 DEF FramesGood, NoneTwice
<1> QED
  BY <1>2, <1>3, <1>4 DEF WalkGoes

\* While minix_print walks over a disk, what it has printed is what is on the disk but
\* for what the calls that have not returned still wait for (minix3.c:12-122).
THEOREM Walked == Minix!Spec => []WalkInv
<1>1. Minix!Init => WalkInv
  BY WalkInit
<1>2. WalkInv /\ [Minix!Next]_(Minix!vars) => WalkInv'
  BY WalkStep
<1> QED
  BY <1>1, <1>2, PTL DEF Minix!Spec

LEMMA WalkInvComplete == WalkInv => Minix!WalkComplete
<1> SUFFICES ASSUME WalkInv, walker = "print", third = "length", Minix!OneZone(disk)
             PROVE  /\ Minix!Printed \subseteq Minix!OnDisk(disk)
                    /\ walk = "done" /\ disk.magic =>
                         /\ Minix!Printed = Minix!OnDisk(disk)
                         /\ Len(printed) = Minix!Cardinality(Minix!OnDisk(disk))
                         /\ taken = 0
  BY DEF Minix!WalkComplete
<1>1. WalkGoes
  BY DEF WalkInv
<1> DEFINE S == Minix!OnDisk(disk)
<1>2. printed \in Seq(S) /\ NoneTwice(printed)
  BY <1>1 DEF WalkGoes, WalkTypes
<1> HIDE DEF S
<1>3. Minix!Printed \subseteq S
  BY <1>2 DEF Minix!Printed
<1>4. ASSUME walk = "done", disk.magic
      PROVE  Minix!Printed = S /\ Len(printed) = Minix!Cardinality(S) /\ taken = 0
  <2>1. stack = <<>> /\ taken = 0
    BY <1>1, <1>4 DEF WalkGoes, WalkBooks
  <2>2. Minix!Printed = S \ Pending(disk, stack, path, Len(stack))
    BY <1>1, <1>4 DEF WalkGoes, S
  <2>3. Pending(disk, stack, path, Len(stack)) = {}
    <3>1. 1 .. Len(stack) = {}
      BY <2>1
    <3> QED
      BY <3>1 DEF Pending
  <2>4. Minix!Printed = S
    BY <2>2, <2>3
  <2>5. Len(printed) \in Nat /\ DOMAIN printed = 1 .. Len(printed)
    BY <1>2
  <2>6. printed \in [1 .. Len(printed) -> S]
    BY <1>2
  <2>7. \A s \in S : \E k \in 1 .. Len(printed) : printed[k] = s
    BY <2>4, <2>5 DEF Minix!Printed
  <2>8. printed \in Bijection(1 .. Len(printed), S)
    BY <1>2, <2>5, <2>6, <2>7 DEF Bijection, Injection, Surjection, IsInjective, NoneTwice
  <2>9. ExistsBijection(1 .. Len(printed), S)
    BY <2>8 DEF ExistsBijection
  <2>10. Cardinality(S) = Len(printed)
    BY <2>5, <2>9, FS_CountingElements
  <2>11. Minix!Cardinality(S) = Cardinality(S)
    BY DEF Cardinality, Minix!Cardinality, IsFiniteSet, Minix!IsFiniteSet
  <2> QED
    BY <2>1, <2>4, <2>10, <2>11
<1> QED
  BY <1>3, <1>4 DEF S

----------------------------------------------------------------------------
(* The root of an ext4 disk *)

\* The entries before a byte.
Before(d, b) == {k \in DOMAIN d : k < b}

ExtReadable ==
  /\ ends = "length" /\ ext.magic /\ ext.log_block_size = 0 /\ ext.inode_size = 256
  /\ ext.inode[2].extents /\ ext.inode[2].magic /\ ext.inode[2].depth = 0

\* What is listed while the loop has come to the entry at byte: those before it.
ExtListing ==
  /\ byte \in Nat /\ listed \in Seq({Ext4!RootDirectory[k].inode : k \in DOMAIN Ext4!RootDirectory})
  /\ \A k \in Before(Ext4!RootDirectory, byte) : Ext4!RootDirectory[k].name_type # "tail"
  /\ Ext4!Lists(listed, Ext4!RootDirectory, Before(Ext4!RootDirectory, byte))

ExtListed == Ext4!Lists(listed, Ext4!RootDirectory, Ext4!RootEntries)

ExtGoes ==
  /\ pos \in {"super", "group", "inode", "entries", "wild", "out2", "out", "done"}
  /\ pos \in {"super", "group", "inode"} => listed = <<>> /\ byte = 0
  /\ pos \in {"inode", "entries"} => root = 2
  /\ pos = "entries" => ExtListing
  /\ pos \in {"out2", "out", "done"} => ExtListed

ExtInv == ext \in ExtDisks /\ (ExtReadable => ExtGoes)

\* ext4_print_root counts with the same Cardinality.
LEMMA ExtCounts == \A S : Ext4!Cardinality(S) = Cardinality(S)
BY DEF Cardinality, Ext4!Cardinality, IsFiniteSet, Ext4!IsFiniteSet

LEMMA ExtFinite == \A S : Ext4!IsFiniteSet(S) <=> IsFiniteSet(S)
BY DEF IsFiniteSet, Ext4!IsFiniteSet

\* One more entry, behind the others.
LEMMA ListsMore ==
  ASSUME NEW d, NEW S \in SUBSET Nat, IsFiniteSet(S), NEW b \in Nat, \A k \in S : k < b,
         NEW T, NEW s \in Seq(T), d[b].inode \in T, Ext4!Lists(s, d, S)
  PROVE  Ext4!Lists(Append(s, d[b].inode), d, S \cup {b})
<1> DEFINE R == S \cup {b}
           r == Append(s, d[b].inode)
           C(U, k) == Cardinality({j \in U : j <= k})
<1>1. b \notin S
  OBVIOUS
<1>2. Cardinality(R) = Cardinality(S) + 1 /\ Cardinality(S) \in Nat
  BY <1>1, FS_AddElement, FS_CardinalityType
<1>3. Len(s) = Cardinality(S) /\ \A k \in S : s[C(S, k)] = d[k].inode
  BY Zenon, ExtCounts DEF Ext4!Lists
<1>4. /\ Len(r) = Cardinality(S) + 1 /\ r[Cardinality(S) + 1] = d[b].inode
      /\ \A i \in 1 .. Cardinality(S) : r[i] = s[i]
  BY <1>3
<1> HIDE DEF r
<1>5. ASSUME NEW k \in S PROVE r[C(R, k)] = d[k].inode
  <2> DEFINE U == {j \in S : j <= k}
  <2>1. {j \in R : j <= k} = U
    OBVIOUS
  <2>2. IsFiniteSet(U) /\ U \subseteq S /\ k \in U
    BY FS_Subset
  <2>3. Cardinality(U) \in Nat /\ Cardinality(U) <= Cardinality(S) /\ Cardinality(U) # 0
    <3> HIDE DEF U
    <3>1. U # {}
      BY <2>2
    <3> QED
      BY <2>2, <3>1, FS_Subset, FS_CardinalityType, FS_EmptySet
  <2>4. C(S, k) \in 1 .. Cardinality(S) /\ C(R, k) = C(S, k)
    <3>1. Cardinality(U) \in 1 .. Cardinality(S)
      <4> HIDE DEF U
      <4> QED
        BY <1>2, <2>3
    <3> QED
      BY Zenon, <2>1, <3>1
  <2> HIDE DEF C
  <2> QED
    BY <1>3, <1>4, <2>4
<1>6. C(R, b) = Cardinality(S) + 1
  <2>1. \A j \in R : j <= b
    OBVIOUS
  <2>2. {j \in R : j <= b} = R
    BY Zenon, <2>1
  <2> QED
    BY <1>2, <2>2
<1>7. \A k \in R : r[C(R, k)] = d[k].inode
  <2> SUFFICES ASSUME NEW k \in R PROVE r[C(R, k)] = d[k].inode
    OBVIOUS
  <2>1. CASE k = b
    <3> HIDE DEF C
    <3> QED
      BY <1>4, <1>6, <2>1
  <2>2. CASE k \in S
    BY Zenon, <1>5, <2>2
  <2> QED
    BY <2>1, <2>2
<1>8. Len(r) = Cardinality(R)
  BY <1>2, <1>4
<1> QED
  BY Zenon, <1>7, <1>8, ExtCounts DEF Ext4!Lists, r

\* A directory is what the file system keeps.
Chained(d) ==
  /\ DOMAIN d \subseteq Nat /\ IsFiniteSet(DOMAIN d)
  /\ \A k, j \in DOMAIN d :
       d[k].name_type # "tail" =>
         d[k].rec_len \in Nat \ {0} /\ (k < j => k + d[k].rec_len <= j)

LEMMA RootChained ==
  ASSUME ext \in ExtDisks
  PROVE  /\ Chained(Ext4!RootDirectory)
         /\ ext.inode[2].start \in Nat /\ ext.inode_table \in Nat
<1>1. Ext4!WellFormed(ext)
  BY Zenon, DisksAssumption
<1>2. ext.inode[2].start \in Nat /\ ext.inode[2].start \in DOMAIN ext.dir
  BY <1>1 DEF Ext4!WellFormed
<1>3. ext.inode_table \in Nat
  BY <1>1 DEF Ext4!WellFormed
<1>4. \A b \in DOMAIN ext.dir : Chained(ext.dir[b])
  BY <1>1, ExtFinite, Zenon DEF Ext4!WellFormed, Chained
<1> QED
  BY <1>2, <1>3, <1>4 DEF Ext4!RootDirectory

LEMMA ExtOffsets ==
  ASSUME ext.log_block_size = 0
  PROVE  \A b \in Nat : Ext4!BlockOffset(b) = b * Ext4!BlockSize
<1>1. 2 ^ 0 = 1
  BY SMT
<1>2. Ext4!BlockSize = 1024
  BY <1>1 DEF Ext4!BlockSize
<1> QED
  BY <1>2 DEF Ext4!BlockOffset

LEMMA ExtEntryStep ==
  ASSUME ext \in ExtDisks, ExtReadable, ExtGoes, Ext4!Entry
  PROVE  ExtGoes'
<1> DEFINE d == Ext4!RootDirectory
           S == Before(d, byte)
           T == {d[k].inode : k \in DOMAIN d}
           e == d[byte]
<1>0. /\ pos = "entries" /\ ext' = ext /\ root' = root
  BY DEF Ext4!Entry
<1>1. /\ byte \in Nat /\ listed \in Seq(T)
      /\ \A k \in S : d[k].name_type # "tail"
      /\ Ext4!Lists(listed, d, S)
  BY <1>0 DEF ExtGoes, ExtListing
<1>2. Chained(d) /\ ext.inode[2].start \in Nat
  BY RootChained
<1>3. Ext4!Directory = d
  <2>1. root = 2
    BY <1>0 DEF ExtGoes
  <2>2. Ext4!BlockOffset(ext.inode[2].start) = ext.inode[2].start * Ext4!BlockSize
    BY <1>2, ExtOffsets DEF ExtReadable
  <2> QED
    BY <2>1, <2>2, Zenon DEF Ext4!Directory, Ext4!RootDirectory
<1>4. byte \in DOMAIN d
  BY <1>3 DEF Ext4!Entry
<1>5. Ext4!RootDirectory' = d
  BY <1>0 DEF Ext4!RootDirectory
<1>6. DOMAIN d \subseteq Nat /\ S \in SUBSET Nat /\ IsFiniteSet(S) /\ S \subseteq DOMAIN d
  BY <1>2, FS_Subset DEF Chained, Before
<1>7. CASE e.name_type = "tail"
  <2>1. pos' = "out2" /\ byte' = byte /\ listed' = listed
    BY <1>3, <1>7 DEF Ext4!Entry
  <2>2. Ext4!RootEntries = S
    <3>1. ASSUME NEW k \in DOMAIN d
          PROVE  (\A j \in DOMAIN d : j <= k => d[j].name_type # "tail") <=> k < byte
      <4>1. k \in Nat
        BY <1>6
      <4>2. CASE k < byte
        <5>1. ASSUME NEW j \in DOMAIN d, j <= k PROVE d[j].name_type # "tail"
          <6>1. j \in S
            BY <1>1, <1>6, <4>1, <4>2, <5>1 DEF Before
          <6> QED
            BY <1>1, <6>1
        <5> QED
          BY <4>2, <5>1
      <4>3. CASE ~(k < byte)
        <5>1. byte <= k
          BY <1>1, <4>1, <4>3
        <5> QED
          BY <1>4, <1>7, <4>3, <5>1
      <4> QED
        BY <4>2, <4>3
    <3> HIDE DEF d
    <3> QED
      BY Zenon, <3>1 DEF Ext4!RootEntries, Before, d
  <2>3. Ext4!RootEntries' = Ext4!RootEntries
    <3>1. Ext4!RootDirectory' = Ext4!RootDirectory
      BY <1>5
    <3> QED
      BY <3>1 DEF Ext4!RootEntries
  <2>4. Ext4!Lists(listed', d, S)
    BY <1>1, <2>1
  <2>5. ExtListed'
    <3> HIDE DEF S, d
    <3> QED
      BY <1>5, <2>2, <2>3, <2>4 DEF ExtListed
  <2> QED
    BY <2>1, <2>5 DEF ExtGoes
<1>8. CASE e.name_type # "tail"
  <2>1. listed' = Append(listed, e.inode) /\ byte' = byte + e.rec_len /\ pos' = "entries"
    BY <1>0, <1>3, <1>8 DEF Ext4!Entry
  <2>2. /\ e.rec_len \in Nat \ {0}
        /\ \A j \in DOMAIN d : byte < j => byte + e.rec_len <= j
    BY <1>2, <1>4, <1>8 DEF Chained
  <2>3. byte' \in Nat
    BY <1>1, <2>1, <2>2
  <2>4. Before(d, byte') = S \cup {byte}
    <3>1. ASSUME NEW k \in DOMAIN d PROVE k < byte' <=> k < byte \/ k = byte
      <4>1. k \in Nat
        BY <1>6
      <4> QED
        BY <1>1, <2>1, <2>2, <4>1
    <3> QED
      BY <1>4, <3>1, Zenon DEF Before
  <2>5. e.inode \in T
    BY <1>4
  <2>6. \A k \in S : k < byte
    BY DEF Before
  <2>7. Ext4!Lists(Append(listed, e.inode), d, S \cup {byte})
    <3> HIDE DEF S, T, d
    <3> QED
      BY <1>1, <1>6, <2>5, <2>6, ListsMore
  <2>8. listed' \in Seq(T)
    BY <1>1, <2>1, <2>5
  <2>9. \A k \in Before(d, byte') : d[k].name_type # "tail"
    BY <1>1, <1>8, <2>4
  <2>10. Ext4!Lists(listed', d, Before(d, byte'))
    BY <2>1, <2>4, <2>7
  <2> HIDE DEF d
  <2>11. ExtListing'
    BY <1>5, <2>3, <2>8, <2>9, <2>10 DEF ExtListing
  <2>12. root' = 2
    BY <1>0 DEF Ext4!Entry, ExtGoes
  <2> QED
    BY <2>1, <2>11, <2>12 DEF ExtGoes
<1> QED
  BY <1>7, <1>8

LEMMA ExtStep ==
  ASSUME ExtInv, [Ext4!Next]_(Ext4!vars)
  PROVE  ExtInv'
<1>1. ext' = ext /\ ends' = ends
  BY Zenon DEF Ext4!Next, Ext4!Super, Ext4!InodeTable, Ext4!Extents, Ext4!Entry, Ext4!Beyond,
       Ext4!Out2, Ext4!Out, Ext4!vars
<1>2. ext \in ExtDisks
  BY DEF ExtInv
<1> SUFFICES ASSUME ExtReadable PROVE ExtGoes'
  BY <1>1, <1>2 DEF ExtInv, ExtReadable
<1>3. ExtGoes
  BY DEF ExtInv
<1>4. Ext4!RootDirectory' = Ext4!RootDirectory
  BY <1>1 DEF Ext4!RootDirectory
<1>5. Ext4!RootEntries' = Ext4!RootEntries
  BY <1>4 DEF Ext4!RootEntries
<1>6. CASE UNCHANGED Ext4!vars
  <2>1. UNCHANGED <<pos, root, byte, listed>>
    BY <1>6 DEF Ext4!vars
  <2> QED
    BY <1>3, <1>4, <1>5, <2>1 DEF ExtGoes, ExtListing, ExtListed
<1>7. CASE Ext4!Super
  <2>1. /\ pos = "super" /\ pos' = "group" /\ UNCHANGED <<byte, listed>>
    BY <1>7 DEF Ext4!Super, Ext4!Goto, ExtReadable
  <2> QED
    BY <1>3, <2>1 DEF ExtGoes
<1>8. CASE Ext4!InodeTable
  <2>1. pos = "group" /\ pos' = "inode" /\ UNCHANGED <<byte, listed>>
    BY <1>8 DEF Ext4!InodeTable, Ext4!Goto
  <2>2. root' = 2
    <3>1. ext.inode_table \in Nat
      BY <1>2, RootChained
    <3>2. Ext4!BlockOffset(ext.inode_table) = ext.inode_table * Ext4!BlockSize
      BY <3>1, ExtOffsets DEF ExtReadable
    <3>3. root' = (2 * 128) \div 256 + 1
      BY <1>8, <3>2, Zenon DEF Ext4!InodeTable, Ext4!RootIndex, Ext4!SizeofInode, ExtReadable
    <3> QED
      BY <3>3
  <2> QED
    BY <1>3, <2>1, <2>2 DEF ExtGoes
<1>9. CASE Ext4!Extents
  <2>1. pos = "inode" /\ root = 2 /\ UNCHANGED <<root, byte, listed>>
    BY <1>3, <1>9 DEF Ext4!Extents, Ext4!Goto, ExtGoes
  <2>2. pos' = "entries"
    BY <1>9, <2>1 DEF Ext4!Extents, Ext4!Goto, ExtReadable
  <2>3. listed = <<>> /\ byte = 0
    BY <1>3, <2>1 DEF ExtGoes
  <2>4. Chained(Ext4!RootDirectory)
    BY <1>2, RootChained
  <2>5. Before(Ext4!RootDirectory, 0) = {}
    BY <2>4 DEF Chained, Before
  <2>6. Ext4!Lists(<<>>, Ext4!RootDirectory, {})
    <3>1. Cardinality({}) = 0
      BY FS_EmptySet
    <3> QED
      BY <3>1, ExtCounts DEF Ext4!Lists
  <2>7. byte' = 0 /\ listed' = <<>> /\ root' = 2
    BY <2>1, <2>3
  <2>8. pos' # "wild"
    BY <2>2
  <2>9. Before(Ext4!RootDirectory', byte') = {}
    BY <1>4, <2>5, <2>7
  <2>10. listed' \in Seq({Ext4!RootDirectory'[k].inode : k \in DOMAIN Ext4!RootDirectory'})
    BY <2>7
  <2>11. Ext4!Lists(listed', Ext4!RootDirectory', Before(Ext4!RootDirectory', byte'))
    BY <1>4, <2>6, <2>7, <2>9
  <2>12. ExtListing'
    BY <2>7, <2>9, <2>10, <2>11 DEF ExtListing
  <2> QED
    BY <2>2, <2>7, <2>12 DEF ExtGoes
<1>10. CASE Ext4!Entry
  BY <1>2, <1>3, <1>10, ExtEntryStep
<1>11. CASE Ext4!Beyond
  <2>1. pos' = "wild"
    BY <1>11 DEF Ext4!Beyond, Ext4!Goto
  <2> QED
    BY <2>1 DEF ExtGoes
<1>12. CASE Ext4!Out2
  <2>1. pos = "out2" /\ pos' = "out" /\ UNCHANGED listed
    BY <1>12 DEF Ext4!Out2, Ext4!Goto
  <2> QED
    BY <1>3, <1>4, <1>5, <2>1 DEF ExtGoes, ExtListing, ExtListed
<1>13. CASE Ext4!Out
  <2>1. pos = "out" /\ pos' = "done" /\ UNCHANGED listed
    BY <1>13 DEF Ext4!Out, Ext4!Goto
  <2> QED
    BY <1>3, <1>4, <1>5, <2>1 DEF ExtGoes, ExtListing, ExtListed
<1> QED
  BY Zenon, <1>6, <1>7, <1>8, <1>9, <1>10, <1>11, <1>12, <1>13 DEF Ext4!Next

\* What ext4_print_root has listed are the entries of the root before the byte that it has
\* come to, each at its place (ext4.c:41-110).
THEOREM RootWalked == Ext4!Spec => []ExtInv
<1>1. Ext4!Init => ExtInv
  <2> SUFFICES ASSUME Ext4!Init PROVE ExtInv
    OBVIOUS
  <2>1. PICK d \in ExtDisks, l \in Lasts : Ext4!InitWith(d, l)
    BY Zenon DEF Ext4!Init
  <2> QED
    BY <2>1 DEF Ext4!InitWith, ExtInv, ExtGoes
<1>2. ExtInv /\ [Ext4!Next]_(Ext4!vars) => ExtInv'
  BY ExtStep
<1> QED
  BY <1>1, <1>2, PTL DEF Ext4!Spec

\* Once a walk is done, all that is on its disk is printed, each once and under its own
\* path, although one buffer holds the path for all calls, and the entries of an ext4 root
\* are listed in their order, for every disk (minix3.c:12-122, ext4.c:41-110).
THEOREM FilesAlwaysListed == Minix!Spec /\ Ext4!Spec => []FilesListed
<1>1. WalkInv => Minix!WalkComplete
  BY WalkInvComplete
<1>2. ExtInv => Ext4!RootListed
  BY Zenon DEF ExtInv, ExtReadable, ExtGoes, ExtListed, Ext4!RootListed
<1>3. WalkInv /\ ExtInv => FilesListed
  BY <1>1, <1>2 DEF FilesListed
<1> QED
  BY <1>3, Walked, RootWalked, PTL
=============================================================================
