------------------------------ MODULE Barrier ------------------------------
(***************************************************************************)
(* The process barrier of src/src/lock.c: barrier_add_process and          *)
(* barrier_wall.                                                           *)
(*                                                                         *)
(* Nothing in the kernel calls them yet.  The callers are modelled after   *)
(* the comments at lock.c:67-70: registrars add the processes, each        *)
(* process marks itself waiting and comes to the wall once all are added,  *)
(* and runs on when its state is P_RUNNING again.  When all have passed    *)
(* the barrier is used for the next round.                                 *)
(***************************************************************************)
EXTENDS Integers, Sequences, SequencesExt, FiniteSets

CONSTANTS Procs,       \* the processes that meet
          Registrars,  \* the harts that call barrier_add_process
          AddedBy,     \* [Procs -> Registrars]
          MaxRounds    \* bound on how often the barrier is used

VARIABLES head,     \* the list from barrier->head on, as a sequence
          value,    \* barrier->value
          state,    \* proc->state
          reg,      \* [Registrars -> what the registrar is doing]
          pc,       \* [Procs -> where the process is]
          walk,     \* bl in the loop of barrier_wall: the rest of the list
          round     \* how often the barrier has been used

vars == <<head, value, state, reg, pc, walk, round>>

\* a registrar is idle or adds a node; seen and count are the head and the value
\* it read
Idle == [at |-> "idle", node |-> <<>>, seen |-> <<>>, count |-> 0]

Init ==                                                  \* barrier_init
  /\ head = <<>> /\ value = 0
  /\ state = [p \in Procs |-> "RUNNING"]
  /\ reg = [r \in Registrars |-> Idle]
  /\ pc = [p \in Procs |-> "out"]
  /\ walk = [p \in Procs |-> <<>>]
  /\ round = 1

Goto(p, from, to) == pc[p] = from /\ pc' = [pc EXCEPT ![p] = to]

----------------------------------------------------------------------------
(* barrier_add_process: four accesses to the barrier, none of them locked. *)
Reg(r, at) == reg[r].at = at

Adding == {p \in Procs : \E r \in Registrars : p \in ToSet(reg[r].node)}

\* bl->next = barrier->head
AddNode(r, p) ==
  /\ Reg(r, "idle") /\ AddedBy[p] = r
  /\ pc[p] = "out" /\ p \notin Adding
  /\ \A q \in Procs : pc[q] \in {"out", "ready"}
  /\ reg' = [reg EXCEPT ![r] = [@ EXCEPT !.at = "link", !.node = <<p>>, !.seen = head]]
  /\ UNCHANGED <<head, value, state, pc, walk, round>>

\* barrier->head = bl
AddLink(r) ==
  /\ Reg(r, "link")
  /\ head' = reg[r].node \o reg[r].seen
  /\ reg' = [reg EXCEPT ![r].at = "count"]
  /\ UNCHANGED <<value, state, pc, walk, round>>

\* barrier->value += 1, a load and a store
AddCount(r) ==
  /\ Reg(r, "count")
  /\ reg' = [reg EXCEPT ![r].at = "store", ![r].count = value]
  /\ UNCHANGED <<head, value, state, pc, walk, round>>

AddStore(r) ==
  /\ Reg(r, "store")
  /\ value' = reg[r].count + 1
  /\ pc' = [p \in Procs |-> IF p \in ToSet(reg[r].node) THEN "ready" ELSE pc[p]]
  /\ reg' = [reg EXCEPT ![r] = Idle]
  /\ UNCHANGED <<head, state, walk, round>>

----------------------------------------------------------------------------
(* The processes.  All are added before the first one comes to the wall. *)
AllAdded == \A p \in Procs : pc[p] # "out"

Wait(p) ==
  /\ AllAdded
  /\ Goto(p, "ready", "wall")
  /\ state' = [state EXCEPT ![p] = "WAITING"]
  /\ UNCHANGED <<head, value, reg, walk, round>>

LastArrivalEarly(old) == old <= 2    \* mutant: off by one

LastArrival(old) == old <= 1

\* barrier_wall: the amoadd
Wall(p) ==
  /\ Goto(p, "wall", IF LastArrival(value) THEN "open" ELSE "stopped")
  /\ value' = value - 1
  /\ walk' = [walk EXCEPT ![p] = IF LastArrival(value) THEN head ELSE @]
  /\ UNCHANGED <<head, state, reg, round>>

OpenStepSkips(p) ==       \* mutant: steps over every second node
  /\ pc[p] = "open" /\ walk[p] # <<>>
  /\ state' = [state EXCEPT ![Head(walk[p])] = "RUNNING"]
  /\ walk' = [walk EXCEPT ![p] = IF Len(@) > 1 THEN Tail(Tail(@)) ELSE <<>>]
  /\ UNCHANGED <<head, value, reg, pc, round>>

\* one turn of its loop
OpenStep(p) ==
  /\ pc[p] = "open" /\ walk[p] # <<>>
  /\ state' = [state EXCEPT ![Head(walk[p])] = "RUNNING"]
  /\ walk' = [walk EXCEPT ![p] = Tail(@)]
  /\ UNCHANGED <<head, value, reg, pc, round>>

OpenDoneKeeps(p) ==       \* mutant: the old list stays
  /\ walk[p] = <<>>
  /\ Goto(p, "open", "stopped")
  /\ UNCHANGED <<head, value, state, reg, walk, round>>

\* barrier->head = NULL
OpenDone(p) ==
  /\ walk[p] = <<>>
  /\ Goto(p, "open", "stopped")
  /\ head' = <<>>
  /\ UNCHANGED <<value, state, reg, walk, round>>

\* the process is scheduled again
Pass(p) ==
  /\ state[p] = "RUNNING"
  /\ Goto(p, "stopped", "passed")
  /\ UNCHANGED <<head, value, state, reg, walk, round>>

NextRound ==
  /\ round < MaxRounds
  /\ \A p \in Procs : pc[p] = "passed"
  /\ round' = round + 1
  /\ pc' = [p \in Procs |-> "out"]
  /\ UNCHANGED <<head, value, state, reg, walk>>

Register(r) ==
  (\E p \in Procs : AddNode(r, p)) \/ AddLink(r) \/ AddCount(r) \/ AddStore(r)

Meet(p) == Wait(p) \/ Wall(p) \/ OpenStep(p) \/ OpenDone(p) \/ Pass(p)

Next == \/ \E r \in Registrars : Register(r)
        \/ \E p \in Procs : Meet(p)
        \/ NextRound

Spec == Init /\ [][Next]_vars

\* Registrars and processes that can go on do so: harts execute their code and
\* the scheduler gets to every process that is P_RUNNING.
FairSpec == /\ Spec
            /\ \A r \in Registrars : WF_vars(Register(r))
            /\ \A p \in Procs : WF_vars(Meet(p))

----------------------------------------------------------------------------
Arrived == {"open", "stopped", "passed"}

\* Types; the counter counts processes and never goes below zero, and the list
\* has at most one node for each.
TypeOK ==
  /\ head \in Seq(Procs) /\ Len(head) <= Cardinality(Procs)
  /\ value \in 0 .. Cardinality(Procs)
  /\ state \in [Procs -> {"RUNNING", "WAITING"}]
  /\ pc \in [Procs -> {"out", "ready", "wall"} \cup Arrived]
  /\ walk \in [Procs -> Seq(Procs)]
  /\ round \in 1 .. MaxRounds

\* Nobody passes the wall before all are there, one process opens it, and every
\* round starts with the barrier empty (lock.c:67-70 "once the final process
\* reaches this function, the barrier opens").
BarrierMeets ==
  /\ (\E p \in Procs : pc[p] = "passed") => \A p \in Procs : pc[p] \in Arrived
  /\ \A p, q \in Procs : pc[p] = "open" /\ pc[q] = "open" => p = q
  /\ (\A p \in Procs : pc[p] = "passed") => head = <<>> /\ value = 0

\* Everybody who comes to the wall passes it (lock.c:67-70).
EverybodyPasses == \A p \in Procs : pc[p] = "wall" ~> pc[p] = "passed"
============================================================================
