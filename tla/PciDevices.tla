----------------------------- MODULE PciDevices -----------------------------
(***************************************************************************)
(* The tablet and the GPU, the interrupt that serves both, and paint(),    *)
(* which lives on them:                                                    *)
(*   src/src/pci.c PciDriver_claim_irq, src/src/ringbuff.c,                *)
(*   src/src/virtio_inp.c, src/src/virtio_gpu.c virtio_gpu_wait,           *)
(*   src/src/paint.c                                                       *)
(*                                                                         *)
(* One hart runs paint().  The interrupt comes between any two of its      *)
(* accesses to memory (the kernel is built without optimisation, so each   *)
(* access in the source is one in the code) and is not itself interrupted. *)
(* The devices work at any time, beside the handler too.  An event is the  *)
(* number of its arrival; the keyboard's queue works as the tablet's.      *)
(***************************************************************************)
EXTENDS Integers, Sequences

CONSTANTS QueueSize,     \* common->queue_size of both devices
          Capacity,      \* of ipt_ringbuf
          Chains,        \* descriptors that a GPU request takes: 2 or 3
          MaxEvents,     \* bound on the events
          MaxRequests    \* bound on the GPU requests

ASSUME PciDevicesAssumption ==
  /\ {QueueSize, Capacity} \subseteq Nat \ {0}
  /\ Chains \subseteq {2, 3}
  /\ {MaxEvents, MaxRequests} \subseteq Nat

VARIABLES tablet,   \* its queue: used->idx, avail->idx, devidx and the buffers
          gpu,      \* its queue: chains to serve, used ring and idx, drvidx, devidx
          isr,      \* [tablet, gpu -> isr->queue_interrupt]
          irq,      \* which device the handler is serving, or "none"
          ring,     \* ipt_ringbuf: at, num_elements and buffer
          pc,       \* where paint() is
          count,    \* num_elements as ring_pop loaded it
          wait,     \* head and desc of virtio_gpu_wait
          pushed,   \* history: the events given to ring_push
          popped    \* history: the elements ring_pop returned

vars == <<tablet, gpu, isr, irq, ring, pc, count, wait, pushed, popped>>

Slots == 0 .. QueueSize - 1
NoEvent == 0

\* virtio_input_init gives all its buffers to the device
TabletQueue ==
  [used |-> 0, avail |-> QueueSize, devidx |-> 0, buffer |-> [s \in Slots |-> NoEvent]]

\* virtio_gpu_init, in zeroed memory
GpuQueue ==
  [chains |-> <<>>, ring |-> [s \in Slots |-> 0], idx |-> 0,
   drvidx |-> 0, devidx |-> 0, requests |-> 0]

\* ring_new
EventRing == [at |-> 0, num |-> 0, buffer |-> [k \in 0 .. Capacity - 1 |-> NoEvent]]

Init ==
  /\ tablet = TabletQueue /\ gpu = GpuQueue /\ ring = EventRing
  /\ isr = [tablet |-> FALSE, gpu |-> FALSE]
  /\ irq = "none"
  /\ pc = "pop" /\ count = 0 /\ wait = [head |-> 0, desc |-> 0]
  /\ pushed = <<>> /\ popped = <<>>

----------------------------------------------------------------------------
(* The devices. *)
\* an event goes into the next buffer; the driver ring never changes, so the
\* buffers are used in turn.  Without a buffer the event is lost in the device.
Emit ==
  /\ tablet.used < MaxEvents /\ tablet.used < tablet.avail
  /\ tablet' = [tablet EXCEPT !.buffer[tablet.used % QueueSize] = tablet.used + 1,
                              !.used = @ + 1]
  /\ isr' = [isr EXCEPT !.tablet = TRUE]
  /\ UNCHANGED <<gpu, irq, ring, pc, count, wait, pushed, popped>>

\* the GPU answers the oldest request
Answer ==
  /\ gpu.chains # <<>>
  /\ gpu' = [gpu EXCEPT !.ring[gpu.idx % QueueSize] = Head(gpu.chains),
                        !.idx = @ + 1, !.chains = Tail(@)]
  /\ isr' = [isr EXCEPT !.gpu = TRUE]
  /\ UNCHANGED <<tablet, irq, ring, pc, count, wait, pushed, popped>>

----------------------------------------------------------------------------
(* The interrupt: c_trap_handler, plic_handle_irq, PciDriver_claim_irq.  It *)
(* serves one device and asks the GPU first.                                *)
TakeIrq ==
  /\ irq = "none"
  /\ \/ /\ isr.gpu
        /\ irq' = "gpu" /\ isr' = [isr EXCEPT !.gpu = FALSE]
     \/ /\ isr.tablet /\ ~isr.gpu
        /\ irq' = "tablet" /\ isr' = [isr EXCEPT !.tablet = FALSE]
  /\ UNCHANGED <<tablet, gpu, ring, pc, count, wait, pushed, popped>>

ServeGpu ==
  /\ irq = "gpu"
  /\ \/ gpu.devidx # gpu.idx /\ gpu' = [gpu EXCEPT !.devidx = @ + 1] /\ UNCHANGED irq
     \/ gpu.devidx = gpu.idx /\ irq' = "none" /\ UNCHANGED gpu
  /\ UNCHANGED <<tablet, isr, ring, pc, count, wait, pushed, popped>>

PushUnchecked(e) ==      \* mutant: a full ring takes the element too
  ring' = [ring EXCEPT !.buffer[(ring.at + ring.num) % Capacity] = e, !.num = @ + 1]

\* ring_push with RB_DISCARD
Push(e) ==
  \/ /\ ring.num < Capacity
     /\ ring' = [ring EXCEPT !.buffer[(ring.at + ring.num) % Capacity] = e, !.num = @ + 1]
  \/ ring.num >= Capacity /\ UNCHANGED ring

ReturnedAll(avail) == avail + QueueSize     \* mutant: as in virtio_input_init

Returned(avail) == avail + 1

EventNext == tablet.buffer[(tablet.devidx + 1) % QueueSize]   \* mutant: off by one

Event == tablet.buffer[tablet.devidx % QueueSize]

ServeEventOnce ==        \* mutant: an if instead of the loop
  /\ irq = "tablet" /\ tablet.devidx # tablet.used
  /\ Push(Event)
  /\ pushed' = Append(pushed, Event)
  /\ tablet' = [tablet EXCEPT !.avail = Returned(@), !.devidx = @ + 1]
  /\ irq' = "none"
  /\ UNCHANGED <<gpu, isr, pc, count, wait, popped>>

\* one turn of the loop over the device ring
ServeEvent ==
  /\ irq = "tablet" /\ tablet.devidx # tablet.used
  /\ Push(Event)
  /\ pushed' = Append(pushed, Event)
  /\ tablet' = [tablet EXCEPT !.avail = Returned(@), !.devidx = @ + 1]
  /\ UNCHANGED <<gpu, isr, irq, pc, count, wait, popped>>

Served ==
  /\ irq = "tablet" /\ tablet.devidx = tablet.used
  /\ irq' = "none"
  /\ UNCHANGED <<tablet, gpu, isr, ring, pc, count, wait, pushed, popped>>

----------------------------------------------------------------------------
(* paint(): ring_pop, whose result it does not look at ... *)
Goto(from, to) == irq = "none" /\ pc = from /\ pc' = to

Pop ==
  /\ Goto("pop", IF ring.num = 0 THEN "draw" ELSE "take")
  /\ UNCHANGED <<tablet, gpu, isr, irq, ring, count, wait, pushed, popped>>

PopTake ==
  /\ Goto("take", "load")
  /\ popped' = Append(popped, ring.buffer[ring.at])
  /\ ring' = [ring EXCEPT !.at = (@ + 1) % Capacity]
  /\ UNCHANGED <<tablet, gpu, isr, irq, count, wait, pushed>>

\* num_elements -= 1
PopLoad ==
  /\ Goto("load", "store")
  /\ count' = ring.num
  /\ UNCHANGED <<tablet, gpu, isr, irq, ring, wait, pushed, popped>>

PopStore ==
  /\ Goto("store", "draw")
  /\ ring' = [ring EXCEPT !.num = count - 1]
  /\ count' = 0
  /\ UNCHANGED <<tablet, gpu, isr, irq, wait, pushed, popped>>

\* ... and then gpu_redraw with its requests, or nothing to draw
Rest ==
  /\ Goto("draw", "pop")
  /\ UNCHANGED <<tablet, gpu, isr, irq, ring, count, wait, pushed, popped>>

----------------------------------------------------------------------------
(* virtio_gpu_wait *)
\* The interrupt of a request comes before the driver has been once round the
\* descriptor table, which has room for more than twenty requests.
IrqInTime == 3 * (gpu.requests - gpu.devidx + 1) <= QueueSize

Submit(n) ==
  /\ gpu.requests < MaxRequests /\ IrqInTime
  /\ Goto("draw", "snapshot")
  /\ LET head == gpu.drvidx % QueueSize
     IN  /\ gpu' = [gpu EXCEPT !.chains = Append(@, head), !.drvidx = @ + n,
                               !.requests = @ + 1]
         /\ wait' = [wait EXCEPT !.head = head]
  /\ UNCHANGED <<tablet, isr, irq, ring, count, pushed, popped>>

\* desc = gdev->devidx, behind the notification
Snapshot ==
  /\ Goto("snapshot", "scan")
  /\ wait' = [wait EXCEPT !.desc = gpu.devidx]
  /\ UNCHANGED <<tablet, gpu, isr, irq, ring, count, pushed, popped>>

FoundAny == TRUE         \* mutant: the id is not compared

Found == gpu.ring[wait.desc % QueueSize] = wait.head

\* the inner loop; with nothing left to look at the outer loop spins
Scan ==
  /\ irq = "none" /\ pc = "scan" /\ wait.desc # gpu.idx
  /\ \/ Found /\ pc' = "draw" /\ wait' = [head |-> 0, desc |-> 0]
     \/ ~Found /\ wait' = [wait EXCEPT !.desc = @ + 1] /\ UNCHANGED pc
  /\ UNCHANGED <<tablet, gpu, isr, irq, ring, count, pushed, popped>>

Irq == TakeIrq \/ ServeGpu \/ ServeEvent \/ Served

Paint == \/ Pop \/ PopTake \/ PopLoad \/ PopStore \/ Rest
         \/ Snapshot \/ Scan \/ \E n \in Chains : Submit(n)

Next == Emit \/ Answer \/ Irq \/ Paint

Spec == Init /\ [][Next]_vars

\* The hart takes a pending interrupt: the kernel never masks them for long.
FairSpec == Spec /\ WF_vars(Irq)

----------------------------------------------------------------------------
\* Types; the ring never counts more elements than it has room for, nor fewer
\* than none, whatever ring_pop and the interrupt do to its counter.
TypeOK ==
  /\ ring.at \in 0 .. Capacity - 1 /\ ring.num \in 0 .. Capacity
  /\ tablet.used \in 0 .. MaxEvents
  /\ gpu.requests \in 0 .. MaxRequests
  /\ gpu.chains \in Seq(Slots) /\ gpu.ring \in [Slots -> Slots]
  /\ irq \in {"none", "gpu", "tablet"}
  /\ pc \in {"pop", "take", "load", "store", "draw", "snapshot", "scan"}

\* The device owns exactly the buffers whose events the handler has read: no
\* buffer is lost, and no event is overwritten before it is read
\* (pci.c:83-95, virtio_inp.c:72-84).
BuffersConserved ==
  /\ tablet.avail = tablet.devidx + QueueSize
  /\ \A n \in tablet.devidx + 1 .. tablet.used :
       tablet.buffer[(n - 1) % QueueSize] = n

\* Every event is given to ring_push once and in order, also those that arrive
\* while the handler is in its loop.
PushedInOrder ==
  /\ Len(pushed) = tablet.devidx
  /\ \A n \in 1 .. Len(pushed) : pushed[n] = n

\* virtio_gpu_wait returns when its own request has been answered, also when the
\* used ring holds answers of older requests (virtio_gpu.c:105-119).
AnswerIsOurs == pc \notin {"snapshot", "scan"} => gpu.chains = <<>>

\* Events do not stay in the device: an interrupt raised while the handler runs
\* is not lost.
EventsDrained == tablet.used # tablet.devidx ~> tablet.used = tablet.devidx

\* ring_pop hands out each event at most once, in order, and nothing else
\* (ringbuff.h:27 "The number of *valid* elements in the ring").
PopsAreEvents ==
  /\ \A i \in 1 .. Len(popped) : popped[i] # NoEvent
  /\ \A i, j \in 1 .. Len(popped) : i < j => popped[i] < popped[j]
=============================================================================
