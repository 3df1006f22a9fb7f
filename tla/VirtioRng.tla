----------------------------- MODULE VirtioRng -----------------------------
(***************************************************************************)
(* The random number device of src/src/virtio.c: rng_fill, one hart at a   *)
(* time, and the device beside it.                                         *)
(*                                                                         *)
(* at_idx names the next descriptor, and behind the notification rng_fill  *)
(* counts it up, through the whole range if need be, until it is the       *)
(* number of answers.  A buffer is the number of its request.              *)
(***************************************************************************)
EXTENDS Integers, Sequences

CONSTANTS QueueSize,   \* common_cfg->queue_size
          Word,        \* 2^16, the range of at_idx
          MaxFills,    \* bound on the calls
          Patient      \* do callers wait for their bytes before the next call

VARIABLES idx,      \* at_idx
          desc,     \* the buffers in the descriptors
          avail,    \* the descriptors in the driver ring
          filled,   \* the buffers that the device filled, one for each answer
          pc        \* where rng_fill is

vars == <<idx, desc, avail, filled, pc>>

Table == 0 .. QueueSize - 1

\* virtio_rng_device_init
Init ==
  /\ idx = 0 /\ desc = [d \in Table |-> 0]
  /\ avail = <<>> /\ filled = <<>>
  /\ pc = "idle"

Goto(from, to) == pc = from /\ pc' = to

Published == Len(avail)

Used == Len(filled)

\* fill the descriptor at_idx; behind the table lies other memory, and there
\* the model ends
Fill ==
  /\ Published < MaxFills /\ idx \in Table
  /\ Patient => Used = Published
  /\ Goto("idle", "publish")
  /\ desc' = [desc EXCEPT ![idx] = Published + 1]
  /\ UNCHANGED <<idx, avail, filled>>

\* from here on the device may see it
Publish ==
  /\ Goto("publish", "advance")
  /\ avail' = Append(avail, idx)
  /\ UNCHANGED <<idx, desc, filled>>

Advance ==
  /\ Goto("advance", "count")
  /\ idx' = (idx + 1) % QueueSize
  /\ UNCHANGED <<desc, avail, filled>>

\* the loop over at_idx, up to the number of answers there is when it gets there
Count ==
  /\ Goto("count", "idle")
  /\ idx' = Used % Word
  /\ UNCHANGED <<desc, avail, filled>>

\* the device, at any time
Answer ==
  /\ Used < Published
  /\ filled' = Append(filled, desc[avail[Used + 1]])
  /\ UNCHANGED <<idx, desc, avail, pc>>

Next == Fill \/ Publish \/ Advance \/ Count \/ Answer

Spec == Init /\ [][Next]_vars

----------------------------------------------------------------------------
TypeOK ==
  /\ idx \in 0 .. Word - 1
  /\ desc \in [Table -> 0 .. MaxFills]
  /\ avail \in Seq(Table)
  /\ pc \in {"idle", "publish", "advance", "count"}

\* The n-th answer is in the n-th buffer: no call gives the device the descriptor
\* of a request that is not answered (virtio.c:79-90).
OwnBuffers == \A n \in 1 .. Used : filled[n] = n
============================================================================
