--------------------------- MODULE HartLifecycle ---------------------------
(***************************************************************************)
(* What the SBI promises about harts: the life of a hart as the states of  *)
(* HartStatus (src/sbi/src/include/hart.h) and who may move it from one to *)
(* the next.  HS_STOPPING is left out: no code assigns it.                 *)
(***************************************************************************)
CONSTANTS Harts, Boot

VARIABLE status

States == {"INVALID", "STOPPED", "STARTING", "STARTED"}

Init == status = [h \in Harts |-> "INVALID"]

Move(h, from, to) ==
  /\ status[h] = from
  /\ status' = [status EXCEPT ![h] = to]

\* hart 0 runs the OS as soon as it is set up, the others are parked
Ready(h) == Move(h, "INVALID", IF h = Boot THEN "STARTED" ELSE "STOPPED")

\* only a hart that runs can start another one
Start(h) ==
  /\ Move(h, "STOPPED", "STARTING")
  /\ \E g \in Harts \ {h} : status[g] = "STARTED"

Wake(h) == Move(h, "STARTING", "STARTED")

Stop(h) == Move(h, "STARTED", "STOPPED")

Next == \E h \in Harts : Ready(h) \/ Start(h) \/ Wake(h) \/ Stop(h)

Spec == Init /\ [][Next]_status
============================================================================
