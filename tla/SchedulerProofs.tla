--------------------------- MODULE SchedulerProofs ---------------------------
(***************************************************************************)
(* Proofs about Scheduler for every number of harts and processes, every   *)
(* length of a slice, and both handles of the tree.                        *)
(***************************************************************************)
EXTENDS Scheduler, FiniteSetTheorems, TLAPS

\* A process that was not yet added is nowhere.
UnaddedNowhere == \A p \in Procs \ Added : ~Held(p) /\ p \notin displaced

\* A hart that puts a process back has one, and a hart without a current process
\* has not started, or runs main.
PcMatchesCurrent ==
  \A h \in Harts :
    /\ pc[h] \in {"add", "save"} => current[h] \in Procs
    /\ h # Boot /\ current[h] = None => pc[h] = "off"

\* Only while a process runs are its registers ahead of its frame.
FrameBehindOnlyRunning ==
  Hung = {} => \A p \in Procs : frame[p].regs \/ \E h \in Harts : current[h] = p /\ pc[h] = "user"

SchedulerInv ==
  /\ TypeOK
  /\ EntriesTrue
  /\ OneHolder
  /\ OnePlace
  /\ UnaddedNowhere
  /\ PcMatchesCurrent
  /\ FrameBehindOnlyRunning

----------------------------------------------------------------------------
LEMMA InitSchedulerInv == Init => SchedulerInv
<1> SUFFICES ASSUME Init PROVE SchedulerInv
  OBVIOUS
<1> USE SchedulerAssumption DEF Init, D!Init
<1>1. TypeOK
  BY DEF TypeOK
<1>2. EntriesTrue /\ OneHolder /\ OnePlace
  BY DEF EntriesTrue, OneHolder, OnePlace, Holds, Added
<1>3. UnaddedNowhere /\ PcMatchesCurrent
  BY DEF UnaddedNowhere, PcMatchesCurrent, Held, Holds
<1>4. FrameBehindOnlyRunning
  BY DEF FrameBehindOnlyRunning
<1> QED
  BY <1>1, <1>2, <1>3, <1>4 DEF SchedulerInv

LEMMA BootDoneInv ==
  ASSUME SchedulerInv, BootDone
  PROVE  SchedulerInv'
<1> USE SchedulerAssumption DEF SchedulerInv, BootDone, Goto, process, timer, context, TypeOK
<1>1. TypeOK'
  OBVIOUS
<1>2. EntriesTrue'
  BY DEF EntriesTrue
<1>3. OneHolder' /\ OnePlace'
  BY DEF OneHolder, OnePlace, Held, Holds, Added, Waiting
<1>4. UnaddedNowhere' /\ PcMatchesCurrent'
  BY DEF UnaddedNowhere, PcMatchesCurrent, Held, Holds, Added
<1>5. FrameBehindOnlyRunning'
  BY DEF FrameBehindOnlyRunning, Hung
<1> QED
  BY <1>1, <1>2, <1>3, <1>4, <1>5

\* schedule_add: the process gets its entry, and of the others only the one that had
\* it before is displaced.
LEMMA ScheduleAddMoves ==
  ASSUME TypeOK, EntriesTrue, NEW p \in Procs, ScheduleAdd(p), ~Waiting(p)
  PROVE  /\ Waiting(p)'
         /\ p \in displaced' <=> p \in displaced
         /\ \A q \in Procs \ {p} :
              /\ Waiting(q)' <=> Waiting(q) /\ runtime[q] # runtime[p]
              /\ q \in displaced' <=> q \in displaced \/ (Waiting(q) /\ runtime[q] = runtime[p])
<1> USE DEF ScheduleAdd, D!Put, Waiting
<1>1. \A q \in Procs : Waiting(q) <=> runtime[q] \in DOMAIN tree /\ tree[runtime[q]] = q
  BY DEF EntriesTrue
<1>2. /\ DOMAIN tree' = DOMAIN tree \cup {runtime[p]}
      /\ \A j \in DOMAIN tree' : tree'[j] = IF j = runtime[p] THEN p ELSE tree[j]
  OBVIOUS
<1>3. \A q \in Procs \ {p} : Waiting(q)' <=> Waiting(q) /\ runtime[q] # runtime[p]
  <2> SUFFICES ASSUME NEW q \in Procs \ {p}
               PROVE  Waiting(q)' <=> Waiting(q) /\ runtime[q] # runtime[p]
    OBVIOUS
  <2>1. Waiting(q)' <=> \E j \in DOMAIN tree \ {runtime[p]} : tree[j] = q
    BY <1>2
  <2> QED
    BY <2>1, <1>1 DEF EntriesTrue
<1>4. \A q : q \in displaced' <=>
                q \in displaced \/ (q # p /\ runtime[p] \in DOMAIN tree /\ q = tree[runtime[p]])
  OBVIOUS
<1>5. \A q \in Procs \ {p} :
        q \in displaced' <=> q \in displaced \/ (Waiting(q) /\ runtime[q] = runtime[p])
  BY <1>1, <1>4 DEF EntriesTrue
<1> QED
  BY <1>2, <1>3, <1>4, <1>5

\* A stop at a trap, the save of sepc and a resumption leave a frame a frame.
LEMMA FrameTypes ==
  ASSUME TypeOK, NEW p \in Procs, NEW b \in BOOLEAN
  PROVE  /\ [frame EXCEPT ![p].regs = b] \in [Procs -> [regs : BOOLEAN, sepc : BOOLEAN]]
         /\ [frame EXCEPT ![p].sepc = b] \in [Procs -> [regs : BOOLEAN, sepc : BOOLEAN]]
<1>1. frame[p] \in [regs : BOOLEAN, sepc : BOOLEAN]
  BY DEF TypeOK
<1>2. /\ [frame[p] EXCEPT !.regs = b] \in [regs : BOOLEAN, sepc : BOOLEAN]
      /\ [frame[p] EXCEPT !.sepc = b] \in [regs : BOOLEAN, sepc : BOOLEAN]
  BY <1>1
<1> QED
  BY <1>2 DEF TypeOK

LEMMA BootAddInv ==
  ASSUME SchedulerInv, NEW p \in Procs, BootAdd(p)
  PROVE  SchedulerInv'
<1> USE SchedulerAssumption DEF SchedulerInv, BootAdd, ScheduleAdd, D!Put, timer, context, TypeOK
<1>1. TypeOK'
  OBVIOUS
<1>2. EntriesTrue'
  BY DEF EntriesTrue
<1>3. OneHolder'
  BY DEF OneHolder, Holds
<1>4. OnePlace'
  <2>1. \A q \in Procs : Held(q)' <=> Held(q)
    BY DEF Held, Holds
  <2>2. ~Waiting(p) /\ ~Held(p) /\ p \notin displaced
    BY DEF EntriesTrue, UnaddedNowhere, Added, Waiting
  <2>3. Added' = Added \cup {p}
    BY DEF Added
  <2>4. \A q \in Procs \ {p} : q \in Added =>
          /\ Waiting(q)' <=> Waiting(q) /\ runtime[q] # runtime[p]
          /\ q \in displaced' <=> q \in displaced \/ (Waiting(q) /\ runtime[q] = runtime[p])
    BY <2>2, ScheduleAddMoves
  <2>5. Waiting(p)' /\ p \notin displaced'
    BY <2>2, ScheduleAddMoves
  <2> QED
    BY <2>1, <2>2, <2>3, <2>4, <2>5 DEF OnePlace, Added
<1>5. UnaddedNowhere'
  BY DEF EntriesTrue, UnaddedNowhere, Held, Holds, Added
<1>6. PcMatchesCurrent'
  BY DEF PcMatchesCurrent
<1>7. FrameBehindOnlyRunning'
  BY DEF FrameBehindOnlyRunning, PcMatchesCurrent, Hung
<1> QED
  BY <1>1, <1>2, <1>3, <1>4, <1>5, <1>6, <1>7

LEMMA BootSpawnInv ==
  ASSUME SchedulerInv, NEW h \in Harts, BootSpawn(h)
  PROVE  SchedulerInv'
<1> USE SchedulerAssumption DEF SchedulerInv, BootSpawn, SetTimer, process, context, TypeOK
<1>1. TypeOK'
  OBVIOUS
<1>2. EntriesTrue'
  BY DEF EntriesTrue
<1>3. OneHolder'
  BY DEF OneHolder, Holds
<1>4. OnePlace'
  BY DEF OnePlace, Held, Holds, Added, Waiting
<1>5. UnaddedNowhere'
  BY DEF UnaddedNowhere, Held, Holds, Added
<1>6. PcMatchesCurrent'
  BY DEF PcMatchesCurrent
<1>7. FrameBehindOnlyRunning'
  BY DEF FrameBehindOnlyRunning, PcMatchesCurrent, Hung
<1> QED
  BY <1>1, <1>2, <1>3, <1>4, <1>5, <1>6, <1>7

LEMMA TimerFiresInv ==
  ASSUME SchedulerInv, NEW h \in Harts, TimerFires(h)
  PROVE  SchedulerInv'
<1> USE SchedulerAssumption DEF SchedulerInv, TimerFires, process, context, TypeOK
<1>1. TypeOK'
  OBVIOUS
<1>2. EntriesTrue'
  BY DEF EntriesTrue
<1>3. OneHolder'
  BY DEF OneHolder, Holds
<1>4. OnePlace'
  BY DEF OneHolder, OnePlace, Held, Holds, Added, Waiting
<1>5. UnaddedNowhere'
  BY DEF UnaddedNowhere, Held, Holds, Added
<1>6. PcMatchesCurrent'
  BY DEF PcMatchesCurrent
<1>7. FrameBehindOnlyRunning'
  BY DEF FrameBehindOnlyRunning, PcMatchesCurrent, Hung
<1> QED
  BY <1>1, <1>2, <1>3, <1>4, <1>5, <1>6, <1>7

LEMMA TimerIdleInv ==
  ASSUME SchedulerInv, NEW h \in Harts, TimerIdle(h)
  PROVE  SchedulerInv'
<1> USE SchedulerAssumption DEF SchedulerInv, TimerIdle, Tick, Goto, process, context, TypeOK
<1>1. TypeOK'
  OBVIOUS
<1>2. EntriesTrue'
  BY DEF EntriesTrue
<1>3. OneHolder'
  BY DEF OneHolder, Holds
<1>4. OnePlace'
  BY DEF OneHolder, OnePlace, Held, Holds, Added, Waiting
<1>5. UnaddedNowhere'
  BY DEF UnaddedNowhere, Held, Holds, Added
<1>6. PcMatchesCurrent'
  BY DEF PcMatchesCurrent
<1>7. FrameBehindOnlyRunning'
  BY DEF FrameBehindOnlyRunning, PcMatchesCurrent, Hung
<1> QED
  BY <1>1, <1>2, <1>3, <1>4, <1>5, <1>6, <1>7

LEMMA LeaveInv ==
  ASSUME SchedulerInv, NEW h \in Harts, NEW s \in {"RUNNING", "SLEEPING", "DEAD"},
         Leave(h, s), stip' \in [Harts -> BOOLEAN]
  PROVE  SchedulerInv'
<1> USE SchedulerAssumption DEF SchedulerInv, Leave, TrapEntry, Charge, Goto, TypeOK
<1>1. TypeOK'
  <2>1. runtime' \in [Procs -> 0 .. MaxRuntime]
    <3>1. PICK t \in Slices : /\ runtime[current[h]] + t <= MaxRuntime
                              /\ runtime' = [runtime EXCEPT ![current[h]] = @ + t]
      OBVIOUS
    <3> QED
      BY <3>1
  <2>2. frame' \in [Procs -> [regs : BOOLEAN, sepc : BOOLEAN]]
    BY FrameTypes
  <2> QED
    BY <2>1, <2>2
<1>2. EntriesTrue'
  BY DEF EntriesTrue, OnePlace, Held, Holds, Added, Waiting
<1>3. OneHolder'
  BY DEF OneHolder, Holds
<1>4. OnePlace'
  <2>1. \A q \in Procs : Held(q)' <=> Held(q)
    BY DEF Held, Holds
  <2>2. Added' = Added
    BY DEF UnaddedNowhere, Held, Holds, Added
  <2> QED
    BY <2>1, <2>2 DEF OnePlace, Waiting, Added
<1>5. UnaddedNowhere'
  BY DEF UnaddedNowhere, Held, Holds, Added
<1>6. PcMatchesCurrent'
  BY DEF PcMatchesCurrent
<1>7. FrameBehindOnlyRunning'
  BY DEF FrameBehindOnlyRunning, PcMatchesCurrent, Hung
<1> QED
  BY <1>1, <1>2, <1>3, <1>4, <1>5, <1>6, <1>7

LEMMA AddInv ==
  ASSUME SchedulerInv, NEW h \in Harts, Add(h)
  PROVE  SchedulerInv'
<1> USE SchedulerAssumption DEF SchedulerInv, Add, ScheduleAdd, D!Put, Goto, timer, context, TypeOK
<1>1. TypeOK'
  <2>1. current[h] \in Procs /\ runtime[current[h]] \in 0 .. MaxRuntime
    BY DEF PcMatchesCurrent
  <2> QED
    BY <2>1
<1>2. EntriesTrue'
  BY DEF EntriesTrue, PcMatchesCurrent
<1>3. OneHolder'
  BY DEF OneHolder, Holds
<1>4. OnePlace'
  <2> DEFINE p == current[h]
  <2>1. p \in Procs /\ Held(p) /\ p \in Added
    BY DEF PcMatchesCurrent, UnaddedNowhere, Held, Holds, Added
  <2>2. ~Waiting(p) /\ p \notin displaced
    BY <2>1 DEF OnePlace
  <2>3. ~Held(p)'
    BY <2>1 DEF OneHolder, Held, Holds
  <2>4. \A q \in Procs \ {p} : Held(q)' <=> Held(q)
    BY <2>1 DEF Held, Holds
  <2>5. Added' = Added
    BY <2>1 DEF Added
  <2>6. \A q \in Procs \ {p} :
          /\ Waiting(q)' <=> Waiting(q) /\ runtime[q] # runtime[p]
          /\ q \in displaced' <=> q \in displaced \/ (Waiting(q) /\ runtime[q] = runtime[p])
    BY <2>1, <2>2, ScheduleAddMoves
  <2>7. Waiting(p)' /\ p \notin displaced'
    BY <2>1, <2>2, ScheduleAddMoves
  <2> QED
    BY <2>1, <2>3, <2>4, <2>5, <2>6, <2>7 DEF OnePlace, Added
<1>5. UnaddedNowhere'
  BY DEF EntriesTrue, UnaddedNowhere, PcMatchesCurrent, Held, Holds, Added
<1>6. PcMatchesCurrent'
  BY DEF PcMatchesCurrent
<1>7. FrameBehindOnlyRunning'
  BY DEF FrameBehindOnlyRunning, PcMatchesCurrent, Hung
<1> QED
  BY <1>1, <1>2, <1>3, <1>4, <1>5, <1>6, <1>7

LEMMA SaveInv ==
  ASSUME SchedulerInv, NEW h \in Harts, Save(h)
  PROVE  SchedulerInv'
<1> USE SchedulerAssumption DEF SchedulerInv, Save, Goto, process, timer, TypeOK
<1>1. TypeOK'
  <2>1. current[h] \in Procs /\ (h \notin overtaken) \in BOOLEAN
    BY DEF PcMatchesCurrent
  <2>2. frame' \in [Procs -> [regs : BOOLEAN, sepc : BOOLEAN]]
    BY <2>1, FrameTypes
  <2> QED
    BY <2>1, <2>2
<1>2. EntriesTrue'
  BY DEF EntriesTrue
<1>3. OneHolder'
  BY DEF OneHolder, Holds
<1>4. OnePlace'
  <2>1. \A q \in Procs : Held(q)' <=> Held(q)
    BY DEF Held, Holds
  <2> QED
    BY <2>1 DEF OnePlace, Waiting, Added
<1>5. UnaddedNowhere'
  BY DEF UnaddedNowhere, Held, Holds, Added
<1>6. PcMatchesCurrent'
  BY DEF PcMatchesCurrent
<1>7. FrameBehindOnlyRunning'
  BY DEF FrameBehindOnlyRunning, PcMatchesCurrent, Hung
<1> QED
  BY <1>1, <1>2, <1>3, <1>4, <1>5, <1>6, <1>7

LEMMA FindInv ==
  ASSUME SchedulerInv, NEW h \in Harts, Find(h)
  PROVE  SchedulerInv'
<1> USE SchedulerAssumption DEF SchedulerInv, Find, First, Visible, D!Drop, D!Only, Goto, process, timer, context, TypeOK
<1>1. TypeOK'
  BY DEF EntriesTrue
<1>2. EntriesTrue'
  BY DEF EntriesTrue
<1>3. OneHolder'
  BY DEF EntriesTrue, OneHolder, OnePlace, Held, Holds, Added, Waiting
<1>4. OnePlace'
  <2>1. PICK k \in DOMAIN tree :
          /\ current' = [current EXCEPT ![h] = IF state[tree[k]] = "RUNNING" THEN tree[k] ELSE h]
          /\ state[tree[k]] = "RUNNING" => D!Drop(runtime[tree[k]])
    OBVIOUS
  <2>2. PICK p \in Procs : p = tree[k]
    OBVIOUS
  <2>3. runtime[p] = k /\ state[p] = "RUNNING" /\ ~Held(p) /\ p \notin displaced
    BY <2>2 DEF EntriesTrue, OnePlace, Added, Waiting
  <2>4. tree' = [j \in DOMAIN tree \ {k} |-> tree[j]]
    BY <2>1, <2>2, <2>3
  <2>5. \A q \in Procs \ {p} : Held(q)' <=> Held(q)
    BY <2>1, <2>2, <2>3 DEF Held, Holds
  <2>6. \A q \in Procs \ {p} : Waiting(q)' <=> Waiting(q)
    BY <2>2, <2>4 DEF Waiting
  <2>7. Held(p)'
    BY <2>1, <2>2, <2>3 DEF Held, Holds
  <2>8. ~Waiting(p)'
    BY <2>2, <2>3, <2>4 DEF EntriesTrue, Waiting
  <2> QED
    BY <2>2, <2>3, <2>5, <2>6, <2>7, <2>8 DEF OnePlace, Added
<1>5. UnaddedNowhere'
  BY DEF EntriesTrue, UnaddedNowhere, Held, Holds, Added
<1>6. PcMatchesCurrent'
  BY DEF PcMatchesCurrent
<1>7. FrameBehindOnlyRunning'
  BY DEF FrameBehindOnlyRunning, PcMatchesCurrent, Hung
<1> QED
  BY <1>1, <1>2, <1>3, <1>4, <1>5, <1>6, <1>7

LEMMA FaultInv ==
  ASSUME SchedulerInv, NEW h \in Harts, Fault(h)
  PROVE  SchedulerInv'
<1> USE SchedulerAssumption DEF SchedulerInv, Fault, Visible, Goto, process, timer, TypeOK
<1>1. TypeOK'
  OBVIOUS
<1>2. EntriesTrue'
  BY DEF EntriesTrue
<1>3. OneHolder'
  BY DEF OneHolder, Holds
<1>4. OnePlace'
  BY DEF OneHolder, OnePlace, Held, Holds, Added, Waiting
<1>5. UnaddedNowhere'
  BY DEF UnaddedNowhere, Held, Holds, Added
<1>6. PcMatchesCurrent'
  BY DEF PcMatchesCurrent
<1>7. FrameBehindOnlyRunning'
  BY DEF FrameBehindOnlyRunning, PcMatchesCurrent, Hung
<1> QED
  BY <1>1, <1>2, <1>3, <1>4, <1>5, <1>6, <1>7

LEMMA SpawnInv ==
  ASSUME SchedulerInv, NEW h \in Harts, Spawn(h)
  PROVE  SchedulerInv'
<1> USE SchedulerAssumption DEF SchedulerInv, Spawn, SetTimer, Resume, Goto, process, context, TypeOK
<1>1. TypeOK'
  <2>1. CASE current[h] \in Procs
    <3>1. [regs |-> FALSE, sepc |-> FALSE] \in [regs : BOOLEAN, sepc : BOOLEAN]
      OBVIOUS
    <3>2. frame' = [frame EXCEPT ![current[h]] = [regs |-> FALSE, sepc |-> FALSE]]
      BY <2>1
    <3>3. frame' \in [Procs -> [regs : BOOLEAN, sepc : BOOLEAN]]
      BY <3>1, <3>2
    <3>4. overtaken' \subseteq Harts
      BY <2>1
    <3> QED
      BY <3>3, <3>4
  <2>2. CASE current[h] \notin Procs
    BY <2>2
  <2> QED
    BY <2>1, <2>2
<1>2. EntriesTrue'
  BY DEF EntriesTrue
<1>3. OneHolder'
  BY DEF OneHolder, Holds
<1>4. OnePlace'
  BY DEF OneHolder, OnePlace, Held, Holds, Added, Waiting
<1>5. UnaddedNowhere'
  BY DEF UnaddedNowhere, Held, Holds, Added
<1>6. PcMatchesCurrent'
  BY DEF PcMatchesCurrent
<1>7. FrameBehindOnlyRunning'
  BY DEF FrameBehindOnlyRunning, PcMatchesCurrent, Hung
<1> QED
  BY <1>1, <1>2, <1>3, <1>4, <1>5, <1>6, <1>7

LEMMA NextSchedulerInv == SchedulerInv /\ [Next]_vars => SchedulerInv'
<1> SUFFICES ASSUME SchedulerInv, [Next]_vars
             PROVE  SchedulerInv'
  OBVIOUS
<1> USE DEF SchedulerInv
<1>1. CASE BootDone
  BY <1>1, BootDoneInv
<1>2. ASSUME NEW p \in Procs, BootAdd(p)
      PROVE  SchedulerInv'
  BY <1>2, BootAddInv
<1>3. ASSUME NEW h \in Harts, BootSpawn(h)
      PROVE  SchedulerInv'
  BY <1>3, BootSpawnInv
<1>4. ASSUME NEW h \in Harts, Timer(h)
      PROVE  SchedulerInv'
  <2>1. CASE TimerFires(h)
    BY <2>1, TimerFiresInv
  <2>2. CASE TimerIdle(h)
    BY <2>2, TimerIdleInv
  <2>3. CASE TimerUser(h)
    <3>1. state[current[h]] \in {"RUNNING", "SLEEPING", "DEAD"}
      BY <2>3 DEF TimerUser, Leave, Goto, TypeOK, UnaddedNowhere, Held, Holds, Added
    <3>2. stip' \in [Harts -> BOOLEAN]
      BY <2>3 DEF TimerUser, Tick, TypeOK
    <3> QED
      BY <2>3, <3>1, <3>2, LeaveInv DEF TimerUser
  <2> QED
    BY <1>4, <2>1, <2>2, <2>3 DEF Timer
<1>5. ASSUME NEW h \in Harts, Call(h)
      PROVE  SchedulerInv'
  <2>1. stip' \in [Harts -> BOOLEAN]
    BY <1>5 DEF Call, Exit, Sleep, Yield, TypeOK
  <2>2. CASE Exit(h) \/ Sleep(h)
    BY <2>1, <2>2, LeaveInv DEF Exit, Sleep
  <2>3. CASE Yield(h)
    <3>1. state[current[h]] \in {"RUNNING", "SLEEPING", "DEAD"}
      BY <2>3 DEF Yield, Leave, Goto, TypeOK, UnaddedNowhere, Held, Holds, Added
    <3> QED
      BY <2>1, <2>3, <3>1, LeaveInv DEF Yield
  <2> QED
    BY <1>5, <2>2, <2>3 DEF Call
<1>6. ASSUME NEW h \in Harts, Scheduling(h)
      PROVE  SchedulerInv'
  BY <1>6, AddInv, SaveInv, FindInv, FaultInv, SpawnInv DEF Scheduling
<1>7. CASE UNCHANGED vars
  BY <1>7 DEF vars, process, timer, context, TypeOK, EntriesTrue, OneHolder, OnePlace,
     UnaddedNowhere, PcMatchesCurrent, FrameBehindOnlyRunning, Held, Holds, Waiting, Added, Hung
<1> QED
  BY <1>1, <1>2, <1>3, <1>4, <1>5, <1>6, <1>7 DEF Next

LEMMA AlwaysSchedulerInv == Spec => []SchedulerInv
BY InitSchedulerInv, NextSchedulerInv, PTL DEF Spec

\* Types, and: an added process is in the tree, on one hart, or displaced, and only one
\* of these (p_scheduling.c:69-105).
THEOREM OnceThm == Spec => [](TypeOK /\ EachProcessOnce)
<1>1. SchedulerInv => TypeOK /\ EachProcessOnce
  BY DEF SchedulerInv, EachProcessOnce
<1> QED
  BY <1>1, AlwaysSchedulerInv, PTL

\* Types of the tree, the mutex, the processes and the harts (p_scheduling.c).
THEOREM SchedulerTypes == Spec => []TypeOK
BY OnceThm, PTL

\* A hart that is about to run a process finds its registers of the last stop
\* (spawn.S:83-160).
THEOREM RegistersThm == Spec => []RegistersKept
<1>1. SchedulerInv => RegistersKept
  BY DEF SchedulerInv, OneHolder, Holds, FrameBehindOnlyRunning, RegistersKept
<1> QED
  BY <1>1, AlwaysSchedulerInv, PTL

----------------------------------------------------------------------------
\* A hart that hung has the mutex for good, so that nothing comes into the tree or out.
FewWhenHung ==
  Hung # {} => /\ mutex # None
               /\ handle = "tree" => Cardinality(Left) < Cardinality(InService)

\* When the tree is empty, those that are left are on harts, one each, and the hart that
\* finds it empty has none.
LEMMA EmptyTreeMeansFew ==
  ASSUME SchedulerInv, NEW h \in Harts, pc[h] = "find", DOMAIN tree = {}
  PROVE  Cardinality(Left) < Cardinality(InService)
<1> USE SchedulerAssumption DEF SchedulerInv
<1> DEFINE T == InService \ {h}
           f == [p \in Left |-> CHOOSE g \in Harts : Holds(g, p)]
<1>1. \A p \in Left : f[p] \in Harts /\ Holds(f[p], p)
  BY DEF Left, OnePlace, Waiting, Held
<1>2. \A p \in Left : f[p] \in T
  BY <1>1 DEF InService, Holds
<1>3. f \in Injection(Left, T)
  <2>1. f \in [Left -> T]
    BY <1>2
  <2>2. \A p, q \in Left : f[p] = f[q] => p = q
    BY <1>1 DEF Holds
  <2> QED
    BY <2>1, <2>2 DEF Injection, IsInjective
<1>4. IsFiniteSet(InService) /\ Cardinality(InService) \in Nat /\ h \in InService
  <2>1. InService \in SUBSET Harts /\ h \in InService
    BY DEF InService
  <2>2. IsFiniteSet(InService)
    BY <2>1, FS_Subset
  <2> QED
    BY <2>1, <2>2, FS_CardinalityType
<1>5. IsFiniteSet(T) /\ Cardinality(T) = Cardinality(InService) - 1
  BY <1>4, FS_RemoveElement
<1>6. IsFiniteSet(Left) /\ Cardinality(Left) <= Cardinality(T)
  BY <1>3, <1>5, FS_Injection
<1>7. Cardinality(Left) \in Nat
  BY <1>6, FS_CardinalityType
<1> QED
  BY <1>4, <1>5, <1>6, <1>7

\* Every other step leaves the mutex, what is left and who hung, and takes no hart out of
\* service.
Calm == /\ mutex' = mutex /\ handle' = handle /\ Left' = Left /\ Hung' = Hung
        /\ InService \subseteq InService'

LEMMA CalmSteps ==
  ASSUME SchedulerInv, [Next]_vars, mutex # None
  PROVE  Calm
<1> USE SchedulerAssumption DEF SchedulerInv, Calm, TypeOK
<1>1. CASE BootDone
  BY <1>1 DEF BootDone, Goto, process, Left, Added, Hung, InService
<1>2. ASSUME NEW p \in Procs, BootAdd(p)
      PROVE  Calm
  BY <1>2 DEF BootAdd, ScheduleAdd
<1>3. ASSUME NEW h \in Harts, BootSpawn(h)
      PROVE  Calm
  BY <1>3 DEF BootSpawn, process, Left, Added, Hung, InService, PcMatchesCurrent
<1>4. ASSUME NEW h \in Harts, NEW s \in {"RUNNING", "SLEEPING", "DEAD"}, Leave(h, s)
      PROVE  Calm
  <2>1. Added' = Added
    BY <1>4 DEF Leave, Goto, UnaddedNowhere, Held, Holds, Added
  <2> QED
    BY <1>4, <2>1 DEF Leave, Goto, Left, Hung, InService
<1>5. ASSUME NEW h \in Harts, Timer(h)
      PROVE  Calm
  <2>1. CASE TimerFires(h)
    BY <2>1 DEF TimerFires, process, Left, Added, Hung, InService
  <2>2. CASE TimerIdle(h)
    BY <2>2 DEF TimerIdle, Goto, process, Left, Added, Hung, InService
  <2>3. CASE TimerUser(h)
    <3>1. state[current[h]] \in {"RUNNING", "SLEEPING", "DEAD"}
      BY <2>3 DEF TimerUser, Leave, Goto, UnaddedNowhere, Held, Holds, Added
    <3> QED
      BY <2>3, <3>1, <1>4 DEF TimerUser
  <2> QED
    BY <1>5, <2>1, <2>2, <2>3 DEF Timer
<1>6. ASSUME NEW h \in Harts, Call(h)
      PROVE  Calm
  <2>1. CASE Exit(h) \/ Sleep(h)
    BY <2>1, <1>4 DEF Exit, Sleep
  <2>2. CASE Yield(h)
    <3>1. state[current[h]] \in {"RUNNING", "SLEEPING", "DEAD"}
      BY <2>2 DEF Yield, Leave, Goto, UnaddedNowhere, Held, Holds, Added
    <3> QED
      BY <2>2, <3>1, <1>4 DEF Yield
  <2> QED
    BY <1>6, <2>1, <2>2 DEF Call
<1>7. ASSUME NEW h \in Harts, Scheduling(h)
      PROVE  Calm
  <2>1. ~Add(h) /\ ~Find(h) /\ ~Fault(h)
    BY DEF Add, ScheduleAdd, Find, Fault
  <2>2. CASE Save(h)
    BY <2>2 DEF Save, Goto, process, Left, Added, Hung, InService
  <2>3. CASE Spawn(h)
    BY <2>3 DEF Spawn, Goto, process, Left, Added, Hung, InService
  <2> QED
    BY <1>7, <2>1, <2>2, <2>3 DEF Scheduling
<1>8. CASE UNCHANGED vars
  BY <1>8 DEF vars, process, Left, Added, Hung, InService
<1> QED
  BY <1>1, <1>2, <1>3, <1>5, <1>6, <1>7, <1>8 DEF Next

\* Only a fault hangs a hart.
LEMMA FaultHangs ==
  ASSUME SchedulerInv, Next, Hung = {}, Hung' # {}
  PROVE  \E h \in Harts : Fault(h)
<1> USE SchedulerAssumption DEF SchedulerInv, TypeOK, Hung
<1>1. ~BootDone
  BY DEF BootDone, Goto
<1>2. \A p \in Procs : ~BootAdd(p)
  BY DEF BootAdd
<1>3. \A h \in Harts : ~BootSpawn(h)
  BY DEF BootSpawn
<1>4. \A h \in Harts : ~Timer(h) /\ ~Call(h)
  BY DEF Timer, TimerFires, TimerUser, TimerIdle, Call, Exit, Sleep, Yield, Leave, Goto
<1>5. \A h \in Harts : ~Add(h) /\ ~Save(h) /\ ~Find(h) /\ ~Spawn(h)
  BY DEF Add, Save, Find, Spawn, Goto
<1> QED
  BY <1>1, <1>2, <1>3, <1>4, <1>5 DEF Next, Scheduling

LEMMA NextFewWhenHung == SchedulerInv /\ FewWhenHung /\ [Next]_vars => FewWhenHung'
<1> SUFFICES ASSUME SchedulerInv, FewWhenHung, [Next]_vars
             PROVE  FewWhenHung'
  OBVIOUS
<1> USE SchedulerAssumption
<1>1. CASE Hung # {}
  <2>1. Calm
    BY <1>1, CalmSteps DEF FewWhenHung
  <2>2. IsFiniteSet(InService') /\ InService \in SUBSET InService'
    BY <2>1, FS_Subset DEF Calm, InService
  <2>3. Cardinality(InService) <= Cardinality(InService')
    BY <2>2, FS_Subset
  <2>4. /\ Cardinality(Left) \in Nat /\ Cardinality(InService) \in Nat
        /\ Cardinality(InService') \in Nat
    BY <2>2, FS_Subset, FS_CardinalityType DEF Left, Added, InService
  <2> QED
    BY <1>1, <2>1, <2>3, <2>4 DEF FewWhenHung, Calm
<1>2. CASE Hung = {} /\ Hung' # {}
  <2>1. Next
    BY <1>2 DEF vars, Hung
  <2>2. PICK h \in Harts : Fault(h)
    BY <1>2, <2>1, FaultHangs
  <2>3. mutex' # None /\ handle' = handle /\ Left' = Left
    BY <2>2 DEF Fault, process, Left, Added
  <2>4. InService' = InService
    BY <2>2 DEF Fault, Goto, InService, SchedulerInv, TypeOK
  <2>5. handle = "tree" => Cardinality(Left) < Cardinality(InService)
    BY <2>2, EmptyTreeMeansFew DEF Fault, Visible, Goto
  <2> QED
    BY <2>3, <2>4, <2>5 DEF FewWhenHung
<1> QED
  BY <1>1, <1>2 DEF FewWhenHung

\* With the tree as it is declared, a hart faults on an empty tree only when fewer
\* processes are left than there are harts in service (p_scheduling.c:79-88).
THEOREM FewThm == Spec => []HangsOnlyWhenFew
<1>1. Init => FewWhenHung
  BY DEF Init, FewWhenHung, Hung
<1>2. FewWhenHung => HangsOnlyWhenFew
  BY DEF FewWhenHung, HangsOnlyWhenFew
<1> QED
  BY <1>1, <1>2, NextFewWhenHung, AlwaysSchedulerInv, PTL DEF Spec
=============================================================================
