------------------------------ MODULE Scheduler ------------------------------
(***************************************************************************)
(* The scheduler and what leads to it: src/src/p_scheduling.c, the traps   *)
(* and system calls of src/src/trap.c and syscall.c, p_spawn_on_hart of    *)
(* src/src/process.c, the context switch of src/asm/spawn.S, and the timer *)
(* of the firmware (ctrap.c, svccall.c, clint.c).                          *)
(*                                                                         *)
(* A step of a hart ends where it waits for scheduling_mutex, lets go of   *)
(* it, or touches the frame of a process that another hart may already     *)
(* have.  The tree is the dictionary from runtimes to processes that       *)
(* RBTree implements.  main starts it all (main.c:148-173, commented out   *)
(* at this commit); the order in which it adds processes and spawns idle   *)
(* ones is left open.  The idle process of hart h is called h.             *)
(*                                                                         *)
(* p_scheduling.c hands rb_insert and rb_delete the address of its pointer *)
(* to the tree.  They take the page of rb_new for the root node, with the  *)
(* key 0, and schedule_find_next takes the first word of this page, that   *)
(* key, for the root: it follows NULL.  That is handle "address"; "tree"   *)
(* is what the declarations ask for, the pointer itself.                   *)
(*                                                                         *)
(* Left out: hart_num and sleep_until, which nobody reads.                 *)
(***************************************************************************)
EXTENDS Naturals, FiniteSets

CONSTANTS Harts, Boot,     \* all harts, and the one main runs on
          Procs,           \* user processes, loaded and not yet added
          Handles,         \* what rb_insert and rb_delete may be given
          Slices,          \* times that a process runs before it traps
          MaxRuntime,      \* bound on the runtimes
          None             \* no process, nobody

ASSUME SchedulerAssumption ==
  /\ Boot \in Harts /\ Harts \cap Procs = {} /\ None \notin Harts \cup Procs
  /\ IsFiniteSet(Harts) /\ IsFiniteSet(Procs)
  /\ Handles \subseteq {"address", "tree"}
  /\ Slices \subseteq Nat \ {0} /\ MaxRuntime \in Nat

VARIABLES
  handle,     \* what rb_insert and rb_delete are given
  tree,       \* p_scheduling_tree
  mutex,      \* scheduling_mutex: its holder or None
  state,      \* [Procs -> p->state]
  runtime,    \* [Procs -> p->v_runtime]
  current,    \* p_current
  armed,      \* is mtimecmp of the hart in the future
  stip,       \* the hart's supervisor timer interrupt, pending
  frame,      \* [Procs -> are its saved registers and sepc the latest ones]
  overtaken,  \* harts whose sepc register is behind the process they stopped
  displaced,  \* history: processes whose entry was given to another one
  pc

vars == <<handle, tree, mutex, state, runtime, current, armed, stip, frame,
          overtaken, displaced, pc>>

process == <<state, runtime>>
timer   == <<armed, stip>>
context == <<frame, overtaken>>

D == INSTANCE Dictionary WITH Key <- 0 .. MaxRuntime, Value <- Procs, dict <- tree

Goto(h, from, to) == pc[h] = from /\ pc' = [pc EXCEPT ![h] = to]

\* in the block of main, with the tree new and the processes loaded
Init ==
  /\ handle \in Handles
  /\ D!Init
  /\ mutex = None
  /\ state = [p \in Procs |-> "UNINT"]
  /\ runtime = [p \in Procs |-> 0]
  /\ current = [h \in Harts |-> None]
  /\ armed = [h \in Harts |-> FALSE]
  /\ stip = [h \in Harts |-> FALSE]
  /\ frame = [p \in Procs |-> [regs |-> TRUE, sepc |-> TRUE]]
  /\ overtaken = {}
  /\ displaced = {}
  /\ pc = [h \in Harts |-> IF h = Boot THEN "boot" ELSE "off"]

----------------------------------------------------------------------------
(* schedule_add, whole: it waits for the mutex *)
ScheduleAdd(p) ==
  /\ mutex = None
  /\ state' = [state EXCEPT ![p] = "RUNNING"]
  /\ D!Put(runtime[p], p)
  /\ displaced' = displaced \cup ({tree[k] : k \in DOMAIN tree \cap {runtime[p]}} \ {p})

\* p_spawn_on_hart: the timer is set with the quantum of the process
SetTimer(h) == armed' = [armed EXCEPT ![h] = TRUE]

BootAdd(p) ==
  /\ pc[Boot] = "boot" /\ state[p] = "UNINT"
  /\ ScheduleAdd(p)
  /\ UNCHANGED <<handle, mutex, runtime, current, timer, context, pc>>

\* the idle process for another hart, which the firmware starts or does not
BootSpawn(h) ==
  /\ pc[Boot] = "boot" /\ h # Boot /\ current[h] = None
  /\ current' = [current EXCEPT ![h] = h]
  /\ SetTimer(h)
  /\ \E to \in {"user", "off"} : pc' = [pc EXCEPT ![h] = to]
  /\ UNCHANGED <<handle, tree, mutex, process, stip, context, displaced>>

\* schedule_hart_spawn of main: nothing runs on this hart yet
BootDone ==
  /\ Goto(Boot, "boot", "find")
  /\ UNCHANGED <<handle, tree, mutex, process, current, timer, context, displaced>>

----------------------------------------------------------------------------
(* Traps *)
\* The firmware's handler of the machine timer passes it on, and sets mtimecmp
\* to infinity.
TimerFires(h) ==
  /\ pc[h] # "off" /\ armed[h]
  /\ armed' = [armed EXCEPT ![h] = FALSE]
  /\ stip' = [stip EXCEPT ![h] = TRUE]
  /\ UNCHANGED <<handle, tree, mutex, process, current, context, displaced, pc>>

\* _spawn_trap: the registers go to the frame, and the position of the process
\* stays in sepc
TrapEntryNoSave(p) == UNCHANGED frame    \* mutant: the frame keeps the old registers

TrapEntry(p) == frame' = [frame EXCEPT ![p].regs = TRUE]

\* schedule_hart_check up to schedule_add
ChargeFromStart(p) == \E t \in Slices :     \* mutant: start_time stays that of its first turn
  /\ runtime[p] + t <= MaxRuntime
  /\ runtime' = [runtime EXCEPT ![p] = @ + @ + t]

Charge(p) == \E t \in Slices : /\ runtime[p] + t <= MaxRuntime
                               /\ runtime' = [runtime EXCEPT ![p] = @ + t]

LeaveForGood(h, s) ==    \* mutant: schedule_hart_check does not add it again
  LET p == current[h]
  IN  /\ p \in Procs
      /\ TrapEntry(p)
      /\ Charge(p)
      /\ state' = [state EXCEPT ![p] = s]
      /\ Goto(h, "user", "find")
      /\ UNCHANGED <<handle, tree, mutex, current, armed, overtaken, displaced>>

\* a user process comes to schedule_hart_spawn and leaves its state at s
Leave(h, s) ==
  LET p == current[h]
  IN  /\ p \in Procs
      /\ TrapEntry(p)
      /\ Charge(p)
      /\ state' = [state EXCEPT ![p] = s]
      /\ Goto(h, "user", "add")
      /\ UNCHANGED <<handle, tree, mutex, current, armed, overtaken, displaced>>

\* c_trap_handler: the interrupt is acknowledged first
Tick(h) == stip[h] /\ stip' = [stip EXCEPT ![h] = FALSE]

TimerUser(h) == Tick(h) /\ current[h] \in Procs /\ Leave(h, state[current[h]])

\* the idle process is not charged, and not added
TimerIdle(h) ==
  /\ Tick(h) /\ current[h] = h
  /\ Goto(h, "user", "find")
  /\ UNCHANGED <<handle, tree, mutex, process, current, armed, context, displaced>>

\* syscall_exit, syscall_sleep and syscall_yield
Exit(h)  == Leave(h, "DEAD") /\ UNCHANGED stip
Sleep(h) == Leave(h, "SLEEPING") /\ UNCHANGED stip
Yield(h) == /\ current[h] \in Procs
            /\ Leave(h, state[current[h]]) /\ UNCHANGED stip

----------------------------------------------------------------------------
(* schedule_hart_spawn *)
Add(h) ==
  /\ Goto(h, "add", "save")
  /\ ScheduleAdd(current[h])
  /\ UNCHANGED <<handle, mutex, runtime, current, timer, context>>

\* schedule_hart_check, its last lines: sepc goes to the frame of a process that
\* is in the tree again
Save(h) ==
  /\ Goto(h, "save", "find")
  /\ frame' = [frame EXCEPT ![current[h]].sepc = h \notin overtaken]
  /\ overtaken' = overtaken \ {h}
  /\ UNCHANGED <<handle, tree, mutex, process, current, timer, displaced>>

\* what schedule_find_next sees of the tree
Visible == IF handle = "tree" THEN DOMAIN tree ELSE {}

First(k) == k \in Visible /\ \A j \in Visible : k <= j

FindKeeps(h) ==      \* mutant: the entry stays in the tree
  /\ Goto(h, "find", "spawn") /\ mutex = None
  /\ \E k \in Visible :
       /\ First(k)
       /\ current' = [current EXCEPT ![h] = IF state[tree[k]] = "RUNNING" THEN tree[k] ELSE h]
  /\ UNCHANGED <<handle, tree, mutex, process, timer, context, displaced>>

\* a process that is not runnable stays where it is, and the idle one is spawned
Find(h) ==
  /\ Goto(h, "find", "spawn") /\ mutex = None
  /\ \E k \in Visible :
       /\ First(k)
       /\ LET p == tree[k]
              runnable == state[p] = "RUNNING"
          IN  /\ current' = [current EXCEPT ![h] = IF runnable THEN p ELSE h]
              /\ IF runnable THEN D!Drop(runtime[p]) ELSE UNCHANGED tree
  /\ UNCHANGED <<handle, mutex, process, timer, context, displaced>>

\* There is no leftmost node: the read of its value faults, the registers of the
\* kernel go to the frame that sscratch still points to, and c_trap_handler hangs
\* the hart with the mutex held.
Fault(h) ==
  /\ Goto(h, "find", "hung") /\ mutex = None
  /\ Visible = {}
  /\ mutex' = h
  /\ frame' = IF current[h] \in Procs THEN [frame EXCEPT ![current[h]].regs = FALSE] ELSE frame
  /\ UNCHANGED <<handle, tree, process, current, timer, overtaken, displaced>>

\* p_spawn_on_hart for the hart itself, and _spawn_kthread: a user process goes
\* on with what its frame holds, and from then on is ahead of it, and of the
\* sepc of a hart that has yet to save it
Resume(h, p) ==
  /\ frame' = [frame EXCEPT ![p] = [regs |-> FALSE, sepc |-> FALSE]]
  /\ overtaken' = overtaken \cup {g \in Harts : pc[g] = "save" /\ current[g] = p}

SpawnNoTimer(h) ==      \* mutant: no sbi_add_timercmp
  /\ Goto(h, "spawn", "user")
  /\ IF current[h] \in Procs THEN Resume(h, current[h]) ELSE UNCHANGED context
  /\ UNCHANGED <<handle, tree, mutex, process, current, timer, displaced>>

Spawn(h) ==
  /\ Goto(h, "spawn", "user")
  /\ SetTimer(h)
  /\ IF current[h] \in Procs THEN Resume(h, current[h]) ELSE UNCHANGED context
  /\ UNCHANGED <<handle, tree, mutex, process, current, stip, displaced>>

----------------------------------------------------------------------------
Scheduling(h) == Add(h) \/ Save(h) \/ Find(h) \/ Fault(h) \/ Spawn(h)

\* the other calls return to the process at once, and touch nothing of this
Call(h) == Exit(h) \/ Sleep(h) \/ Yield(h)

Timer(h) == TimerFires(h) \/ TimerUser(h) \/ TimerIdle(h)

Next ==
  \/ BootDone
  \/ \E p \in Procs : BootAdd(p)
  \/ \E h \in Harts : BootSpawn(h) \/ Timer(h) \/ Call(h) \/ Scheduling(h)

\* harts execute, and their clocks go on; processes call when they want to
Fairness == WF_vars(BootDone) /\ \A h \in Harts : WF_vars(Scheduling(h)) /\ WF_vars(Timer(h))

Spec == Init /\ [][Next]_vars

FairSpec == Spec /\ Fairness

----------------------------------------------------------------------------
\* hart h has process p to itself
Holds(h, p) == current[h] = p /\ pc[h] \in {"user", "add", "spawn"}

Held(p) == \E h \in Harts : Holds(h, p)

Waiting(p) == \E k \in DOMAIN tree : tree[k] = p

Added == {p \in Procs : state[p] # "UNINT"}

Left == Added \ displaced

Hung == {h \in Harts : pc[h] = "hung"}

InService == {h \in Harts : pc[h] # "off"}

TypeOK ==
  /\ handle \in Handles
  /\ DOMAIN tree \subseteq 0 .. MaxRuntime /\ \A k \in DOMAIN tree : tree[k] \in Procs
  /\ mutex \in Harts \cup {None}
  /\ state \in [Procs -> {"UNINT", "RUNNING", "SLEEPING", "DEAD"}]
  /\ runtime \in [Procs -> 0 .. MaxRuntime]
  /\ current \in [Harts -> Procs \cup Harts \cup {None}]
  /\ armed \in [Harts -> BOOLEAN] /\ stip \in [Harts -> BOOLEAN]
  /\ frame \in [Procs -> [regs : BOOLEAN, sepc : BOOLEAN]]
  /\ overtaken \subseteq Harts
  /\ displaced \subseteq Procs
  /\ pc \in [Harts -> {"boot", "off", "user", "add", "save", "find", "spawn", "hung"}]

\* An entry is a runnable process under its own runtime.
EntriesTrue == \A k \in DOMAIN tree : runtime[tree[k]] = k /\ state[tree[k]] = "RUNNING"

OneHolder == \A p \in Procs : \A g, h \in Harts : Holds(g, p) /\ Holds(h, p) => g = h

OnePlace ==
  \A p \in Added :
    /\ Waiting(p) \/ Held(p) \/ p \in displaced
    /\ ~(Waiting(p) /\ Held(p))
    /\ ~(p \in displaced /\ (Waiting(p) \/ Held(p)))

\* A process that was added waits in the tree under its own runtime, or one hart
\* has it, or another process with the same runtime has taken its entry: never
\* two of these, so no two harts run one process (p_scheduling.c:69-105).
EachProcessOnce == EntriesTrue /\ OneHolder /\ OnePlace

\* With the tree as declared, a hart hangs on an empty tree only when fewer
\* processes are left than there are harts (p_scheduling.c:79-88).
HangsOnlyWhenFew ==
  handle = "tree" /\ Hung # {} => Cardinality(Left) < Cardinality(InService)

\* The registers that a hart is about to load are those the process had when it
\* was last stopped, whatever other hart stopped it (spawn.S:83-138, 143-160).
RegistersKept ==
  Hung = {} => \A h \in Harts, p \in Procs :
                 pc[h] = "spawn" /\ current[h] = p => frame[p].regs

\* A process that waits gets its turn, unless its entry goes to another process
\* or a hart hangs (p_scheduling.c:67-68).
GetsTurn(p) == Waiting(p) ~> (~Waiting(p) \/ Hung # {})

\* What the comments say beyond this, and TLC refutes with two harts and one
\* process: a process goes on from where it was stopped (syscall.c:75 "Sched
\* invoke will save sepc"), and a hart that finds none spawns its idle process
\* (p_scheduling.c:40-41).
PositionKept ==
  Hung = {} => \A h \in Harts, p \in Procs :
                 pc[h] = "spawn" /\ current[h] = p => frame[p].sepc

FindsOrIdles == Hung = {}
=============================================================================
