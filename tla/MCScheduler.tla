---------------------------- MODULE MCScheduler ----------------------------
(***************************************************************************)
(* Scheduler on a small instance.  Runtimes only grow, and only their      *)
(* order matters: once main is done, what the remaining processes have in  *)
(* common is subtracted, so that the runs need not end at MaxRuntime.      *)
(***************************************************************************)
EXTENDS Scheduler

Rebase ==
  /\ pc[Boot] # "boot"
  /\ \E p \in Left :
       LET m == runtime[p]
       IN  /\ m > 0 /\ \A q \in Left : m <= runtime[q]
           /\ runtime' = [q \in Procs |-> IF q \in Left THEN runtime[q] - m ELSE 0]
           /\ tree' = [k \in {j - m : j \in DOMAIN tree} |-> tree[k + m]]
  /\ UNCHANGED <<handle, mutex, state, current, timer, context, displaced, pc>>

MCSpec == Init /\ [][Next \/ Rebase]_vars /\ Fairness /\ WF_vars(Rebase)

\* The processes are alike, and one stands for all: it gets its turn
\* (p_scheduling.c:67-68 "it will have the lowest virtual runtime guaranteed").
NobodyStarves == GetsTurn(CHOOSE p \in Procs : TRUE)
=============================================================================
