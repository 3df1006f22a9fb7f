----------------------------- MODULE VirtioBlk -----------------------------
(***************************************************************************)
(* One of the three block devices of src/src/virtioblk.c, its virtqueue    *)
(* and the calls that use it.                                              *)
(*                                                                         *)
(* A request takes three descriptors, chosen by at_idx, which the request  *)
(* advances by three and the interrupt handler sets to the number of       *)
(* answers.  A call is split at every access to at_idx and at every        *)
(* descriptor it stores, as the handler and the device act in between.     *)
(* call is the stack frame of the hart: one call at a time, of whichever   *)
(* device.  The rings are sequences; at most QueueSize / 3 requests are in *)
(* flight, so that no slot of a ring is used twice.                        *)
(***************************************************************************)
EXTENDS Integers, Sequences

CONSTANTS Name,          \* of this device
          QueueSize,     \* common_cfg->queue_size
          Word,          \* 2^16, the range of at_idx
          Kinds,         \* of requests: "read", "write"
          Acknowledged,  \* does PciDriver_claim_irq call its handler
          MaxRequests    \* bound on the requests

VARIABLES dev,   \* the device: see Init
          call   \* the frame of the current or latest call

Parts == {"header", "data", "status"}

Offset == [header |-> 0, data |-> 1, status |-> 2]

\* the part that is stored behind this one, and its link in the chain
Follows == [header |-> "data", data |-> "status", status |-> "none"]

\* where the call is when it chooses the descriptor of a part, and when it stores it
Picking == [header |-> "pick header", data |-> "pick data", status |-> "pick status"]

Filling == [header |-> "fill header", data |-> "fill data", status |-> "fill status"]

Descs == 0 .. QueueSize - 1

Blank == [req |-> 0, part |-> "none", next |-> 0]

\* the rings and descriptors of virtio_blk_device_init, in zeroed pages
Init ==
  dev = [idx    |-> 0,                         \* at_idx
         desc   |-> [d \in Descs |-> Blank],
         avail  |-> <<>>,                      \* heads in the driver ring
         used   |-> 0,                         \* device->idx
         isr    |-> FALSE,                     \* queue_interrupt
         served |-> <<>>]                      \* history: what the device did

Idle == [dev |-> "none", pc |-> "idle", kind |-> "none",
         at |-> [p \in Parts |-> 0], loaded |-> 0]

Published == Len(dev.avail)

\* The device answers before the driver has come round the descriptor table,
\* which has room for 42 requests.
InFlight == 3 * (Published - dev.used + 1) <= QueueSize - 1

----------------------------------------------------------------------------
(* virtio_disk_rw *)
Start(kind) ==
  /\ call.pc = "idle" /\ Published < MaxRequests /\ InFlight
  /\ call' = [Idle EXCEPT !.dev = Name, !.pc = Picking["header"], !.kind = kind]
  /\ UNCHANGED dev

At(pc) == call.dev = Name /\ call.pc = pc

Descriptor(p) == (dev.idx + Offset[p]) % (QueueSize - 1)

Pick(p) ==
  /\ At(Picking[p])
  /\ call' = [call EXCEPT !.at[p] = Descriptor(p),
                          !.pc = IF p = "status" THEN "load" ELSE Picking[Follows[p]]]
  /\ UNCHANGED dev

\* at_idx += 3, a load and a store
Load ==
  /\ At("load")
  /\ call' = [call EXCEPT !.loaded = dev.idx, !.pc = "bump"]
  /\ UNCHANGED dev

BumpByTwo ==             \* mutant: the status descriptor is not counted
  /\ At("bump")
  /\ dev' = [dev EXCEPT !.idx = (call.loaded + 2) % Word]
  /\ call' = [call EXCEPT !.loaded = 0, !.pc = Filling["header"]]

Bump ==
  /\ At("bump")
  /\ dev' = [dev EXCEPT !.idx = (call.loaded + 3) % Word]
  /\ call' = [call EXCEPT !.loaded = 0, !.pc = Filling["header"]]

Fill(p) ==
  LET next == IF p = "status" THEN 0 ELSE call.at[Follows[p]]
  IN  /\ At(Filling[p])
      /\ dev' = [dev EXCEPT !.desc[call.at[p]] =
                   [req |-> Published + 1, part |-> p, next |-> next]]
      /\ call' = [call EXCEPT !.pc = IF p = "status" THEN "publish"
                                                     ELSE Filling[Follows[p]]]

\* the head goes on the driver ring; only a read polls
Publish ==
  /\ At("publish")
  /\ dev' = [dev EXCEPT !.avail = Append(@, call.at["header"])]
  /\ call' = [call EXCEPT !.pc = IF call.kind = "read" THEN "poll" ELSE "idle"]

\* while (device->idx == at_idx) ;
Poll ==
  /\ At("poll") /\ dev.used # dev.idx
  /\ call' = [call EXCEPT !.pc = "idle"]
  /\ UNCHANGED dev

Rw == \/ \E kind \in Kinds : Start(kind)
      \/ \E p \in Parts : Pick(p) \/ Fill(p)
      \/ Load \/ Bump \/ Publish \/ Poll

----------------------------------------------------------------------------
\* what the device finds behind the head of request n
Chain(n) ==
  LET h == dev.desc[dev.avail[n]]
      d == dev.desc[h.next]
      s == dev.desc[d.next]
  IN  <<h, d, s>>

\* The device follows the chain of the oldest request and answers it.
Serve ==
  /\ dev.used < Published
  /\ LET chain == Chain(dev.used + 1)
     IN  dev' = [dev EXCEPT
           !.served = Append(@, [i \in 1 .. 3 |-> <<chain[i].req, chain[i].part>>]),
           !.used = @ + 1, !.isr = TRUE]
  /\ UNCHANGED call

\* virtio_disk_isr: at_idx is incremented, through the whole range if need be,
\* until it is the number of answers.
Isr ==
  /\ Acknowledged /\ dev.isr
  /\ dev' = [dev EXCEPT !.isr = FALSE, !.idx = dev.used % Word]
  /\ UNCHANGED call

Next == Rw \/ Serve \/ Isr

----------------------------------------------------------------------------
TypeOK ==
  /\ dev.idx \in 0 .. Word - 1
  /\ dev.avail \in Seq(Descs)
  /\ dev.used \in 0 .. Published
  /\ Len(dev.served) = dev.used
  /\ DOMAIN dev.desc = Descs
  /\ \A d \in Descs : dev.desc[d].next \in Descs

\* A chain that the device may follow is the chain of one request, from its
\* header to its status, until it is answered: no later request reuses a
\* descriptor of it (virtioblk.c:91-142).
ChainsWhole ==
  \A n \in dev.used + 1 .. Published :
    LET chain == Chain(n)
    IN  /\ \A i \in 1 .. 3 : chain[i].req = n
        /\ chain[1].part = "header" /\ chain[2].part = "data" /\ chain[3].part = "status"

\* A read returns when its data is there (virtioblk.c:148 "Adding reading poll
\* functionality").
ReadsComplete ==
  At("idle") /\ call.kind = "read" => dev.used = Published
=============================================================================
