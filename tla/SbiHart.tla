------------------------------ MODULE SbiHart ------------------------------
(***************************************************************************)
(* Booting, starting and stopping harts in the SBI firmware:               *)
(* src/sbi/src/main.c, hart.c and the parts of ctrap.c, svccall.c, clint.c *)
(* and lock.c they use.                                                    *)
(*                                                                         *)
(* Each hart executes its own code, in steps that end where another hart   *)
(* can see or disturb it: at every swap on a lock, and between the         *)
(* unlocked stores of main().  The environment is the supervisor software: *)
(* a hart at "os" may make any of the calls, with any arguments.           *)
(*                                                                         *)
(* A hart that is started enters its target in machine mode (main.c:53     *)
(* sets priv_mode to HPM_MACHINE for all harts).  Target code that reaches *)
(* supervisor mode before its first trap (LeavesM) goes on as "os"; any    *)
(* other target is stopped for good by its first synchronous trap, which   *)
(* ctrap.c does not know (cause 11, or a fault).                           *)
(***************************************************************************)
EXTENDS Naturals

CONSTANTS Harts,      \* mhartid
          Boot,       \* hart 0
          Targets,    \* code addresses given to hart_start
          LeavesM,    \* those whose code drops to supervisor mode first
          Frames,     \* scratch arguments given to hart_start
          None,       \* address 0, a free lock, no entry, no promise
          MaxCalls    \* bound on the calls that the environment makes

ASSUME SbiHartAssumption ==
  /\ Boot \in Harts
  /\ LeavesM \subseteq Targets
  /\ None \notin Harts /\ None \notin Targets /\ None \notin Frames
  /\ None \notin [target : Targets, scratch : Frames]
  /\ None \notin [mepc : Targets \cup {None}, sscratch : Harts \cup Frames]
  /\ MaxCalls \in Nat

VARIABLES
  hart0lock,  \* is hart0lock held
  status,     \* sbi_hart_data[h].status
  target,     \* sbi_hart_data[h].target_address
  scratch,    \* sbi_hart_data[h].scratch
  lock,       \* sbi_hart_lock[h]: its holder or None
  msip,       \* the machine software interrupt pending bit in the CLINT
  pc,         \* where the hart is
  arg,        \* the arguments of its call of hart_start, None outside
  entry,      \* mepc and sscratch at its latest start, None when parked
  promise,    \* history: the latest call of hart_start that returned true
  calls       \* number of calls made

vars == <<hart0lock, status, target, scratch, lock, msip, pc, arg, entry,
          promise, calls>>

data == <<status, target, scratch, promise>>

Addresses == Targets \cup {None}

Args == [hart : Harts, target : Targets, scratch : Frames]

PcValues == {"boot", "boot_unlock", "boot_status", "boot_target", "parked",
             "os", "mcode", "hung", "start_body", "start_unlock",
             "stop_body", "stop_unlock",
             "msip_lock", "msip_clear", "msip_test", "msip_unlock"}

Goto(h, from, to) == pc[h] = from /\ pc' = [pc EXCEPT ![h] = to]

----------------------------------------------------------------------------
(* main() of the SBI.  hart0lock is MUTEX_LOCKED in the image. *)
Init ==
  /\ hart0lock = TRUE
  /\ status = [h \in Harts |-> "INVALID"]
  /\ target = [h \in Harts |-> None]
  /\ scratch = [h \in Harts |-> None]
  /\ lock = [h \in Harts |-> None]
  /\ msip = [h \in Harts |-> FALSE]
  /\ pc = [h \in Harts |-> "boot"]
  /\ arg = [h \in Harts |-> None]
  /\ entry = [h \in Harts |-> None]
  /\ promise = [h \in Harts |-> None]
  /\ calls = 0

\* hart 0 has cleared the bss and lets the others go
OpenBoot ==
  /\ Goto(Boot, "boot", "boot_status")
  /\ hart0lock' = FALSE
  /\ UNCHANGED <<data, lock, msip, arg, entry, calls>>

\* hart 0 marks itself started and enters the OS
EnterOS ==
  /\ Goto(Boot, "boot_status", "os")
  /\ status' = [status EXCEPT ![Boot] = "STARTED"]
  /\ target' = [target EXCEPT ![Boot] = None]
  /\ UNCHANGED <<hart0lock, scratch, promise, lock, msip, arg, entry, calls>>

\* another hart gets through the spin on hart0lock ...
BootLock(h) ==
  /\ h # Boot
  /\ Goto(h, "boot", "boot_unlock")
  /\ ~hart0lock
  /\ hart0lock' = TRUE
  /\ UNCHANGED <<data, lock, msip, arg, entry, calls>>

BootUnlockForgets(h) ==    \* mutant: hart0lock stays held
  /\ Goto(h, "boot_unlock", "boot_status")
  /\ UNCHANGED <<hart0lock, data, lock, msip, arg, entry, calls>>

BootUnlock(h) ==
  /\ Goto(h, "boot_unlock", "boot_status")
  /\ hart0lock' = FALSE
  /\ UNCHANGED <<data, lock, msip, arg, entry, calls>>

\* ... and makes its three stores without taking sbi_hart_lock
BootStatusStopping(h) ==   \* mutant: a status that nothing ever leaves
  /\ h # Boot
  /\ Goto(h, "boot_status", "boot_target")
  /\ status' = [status EXCEPT ![h] = "STOPPING"]
  /\ UNCHANGED <<hart0lock, target, scratch, promise, lock, msip, arg, entry, calls>>

BootStatus(h) ==
  /\ h # Boot
  /\ Goto(h, "boot_status", "boot_target")
  /\ status' = [status EXCEPT ![h] = "STOPPED"]
  /\ UNCHANGED <<hart0lock, target, scratch, promise, lock, msip, arg, entry, calls>>

BootTargetClears(h) ==     \* mutant: clears a pending interrupt on the way
  /\ Goto(h, "boot_target", "parked")
  /\ target' = [target EXCEPT ![h] = None]
  /\ msip' = [msip EXCEPT ![h] = FALSE]
  /\ UNCHANGED <<hart0lock, status, scratch, promise, lock, arg, entry, calls>>

BootTarget(h) ==
  /\ Goto(h, "boot_target", "parked")
  /\ target' = [target EXCEPT ![h] = None]
  /\ UNCHANGED <<hart0lock, status, scratch, promise, lock, msip, arg, entry, calls>>

----------------------------------------------------------------------------
\* one atomic swap on sbi_hart_lock[g]: h holds it, and goes to "then", if it
\* was free
TryLock(h, g, then) ==
  \/ /\ lock[g] = None
     /\ lock' = [lock EXCEPT ![g] = h]
     /\ pc' = [pc EXCEPT ![h] = then]
  \/ /\ lock[g] # None
     /\ UNCHANGED <<lock, pc>>

Unlock(g) == lock' = [lock EXCEPT ![g] = None]

Call(h) == pc[h] = "os" /\ calls < MaxCalls /\ calls' = calls + 1

(* hart_start: false at once when the lock is held *)
CallStart(h, a) ==
  /\ Call(h)
  /\ TryLock(h, a.hart, "start_body")
  /\ arg' = [arg EXCEPT ![h] = IF lock[a.hart] = None THEN a ELSE @]
  /\ UNCHANGED <<hart0lock, data, msip, entry>>

CanStartUnparked(g) == status[g] # "STARTED"   \* mutant: starts what is not parked

CanStart(g) == status[g] = "STOPPED"

Promise(g, a) ==
  promise' = [promise EXCEPT ![g] = [target |-> a.target, scratch |-> a.scratch]]

Arm(g, a) ==
  /\ status' = [status EXCEPT ![g] = "STARTING"]
  /\ scratch' = [scratch EXCEPT ![g] = a.scratch]
  /\ msip' = [msip EXCEPT ![g] = TRUE]
  /\ Promise(g, a)

StoreTarget(g, a) == target' = [target EXCEPT ![g] = a.target]

StartBodyStoresFirst(h) ==   \* mutant: the target is stored before the test
  /\ Goto(h, "start_body", "start_unlock")
  /\ LET g == arg[h].hart
     IN  /\ StoreTarget(g, arg[h])
         /\ \/ CanStart(g) /\ Arm(g, arg[h])
            \/ ~CanStart(g) /\ UNCHANGED <<status, scratch, promise, msip>>
  /\ UNCHANGED <<hart0lock, lock, arg, entry, calls>>

StartBody(h) ==
  /\ Goto(h, "start_body", "start_unlock")
  /\ LET g == arg[h].hart
     IN  \/ CanStart(g) /\ Arm(g, arg[h]) /\ StoreTarget(g, arg[h])
         \/ ~CanStart(g) /\ UNCHANGED <<data, msip>>
  /\ UNCHANGED <<hart0lock, lock, arg, entry, calls>>

StartUnlockForgets(h) ==   \* mutant: no mutex_unlock
  /\ Goto(h, "start_unlock", "os")
  /\ arg' = [arg EXCEPT ![h] = None]
  /\ UNCHANGED <<hart0lock, data, lock, msip, entry, calls>>

StartUnlock(h) ==
  /\ Goto(h, "start_unlock", "os")
  /\ Unlock(arg[h].hart)
  /\ arg' = [arg EXCEPT ![h] = None]
  /\ UNCHANGED <<hart0lock, data, msip, entry, calls>>

(* hart_stop, always of the calling hart.  The early return for a hart that *)
(* is not started leaves the lock held.                                     *)
CallStop(h) ==
  /\ Call(h)
  /\ TryLock(h, h, "stop_body")
  /\ UNCHANGED <<hart0lock, data, msip, arg, entry>>

StopBody(h) ==
  /\ Goto(h, "stop_body", IF status[h] = "STARTED" THEN "stop_unlock" ELSE "os")
  /\ status' = [status EXCEPT ![h] = IF @ = "STARTED" THEN "STOPPED" ELSE @]
  /\ entry' = [entry EXCEPT ![h] = IF status[h] = "STARTED" THEN None ELSE @]
  /\ UNCHANGED <<hart0lock, target, scratch, promise, lock, msip, arg, calls>>

StopUnlockReturns(h) ==    \* mutant: returns to its caller instead of parking
  /\ Goto(h, "stop_unlock", "os")
  /\ Unlock(h)
  /\ UNCHANGED <<hart0lock, data, msip, arg, entry, calls>>

StopUnlock(h) ==
  /\ Goto(h, "stop_unlock", "parked")
  /\ Unlock(h)
  /\ UNCHANGED <<hart0lock, data, msip, arg, entry, calls>>

----------------------------------------------------------------------------
(* The machine software interrupt, hart_handle_msip.  Only a parked hart has *)
(* it enabled (MIE_MSIE), besides hart 0 until its first stop.               *)
TakeMsip(h) ==
  /\ Goto(h, "parked", "msip_lock")
  /\ msip[h]
  /\ UNCHANGED <<hart0lock, data, lock, msip, arg, entry, calls>>

MsipLock(h) ==
  /\ pc[h] = "msip_lock"
  /\ lock[h] = None
  /\ TryLock(h, h, "msip_clear")
  /\ UNCHANGED <<hart0lock, data, msip, arg, entry, calls>>

MsipClearForgets(h) ==     \* mutant: no clint_clear_msip
  /\ Goto(h, "msip_clear", "msip_test")
  /\ UNCHANGED <<hart0lock, data, lock, msip, arg, entry, calls>>

MsipClear(h) ==
  /\ Goto(h, "msip_clear", "msip_test")
  /\ msip' = [msip EXCEPT ![h] = FALSE]
  /\ UNCHANGED <<hart0lock, data, lock, arg, entry, calls>>

\* sscratch gets the number of the hart, not the scratch of hart_start
MsipTest(h) ==
  /\ Goto(h, "msip_test", "msip_unlock")
  /\ status' = [status EXCEPT ![h] = IF @ = "STARTING" THEN "STARTED" ELSE @]
  /\ entry' = [entry EXCEPT ![h] =
       IF status[h] = "STARTING" THEN [mepc |-> target[h], sscratch |-> h] ELSE @]
  /\ UNCHANGED <<hart0lock, target, scratch, promise, lock, msip, arg, calls>>

MsipUnlock(h) ==
  /\ Goto(h, "msip_unlock", IF entry[h] = None THEN "parked" ELSE "mcode")
  /\ Unlock(h)
  /\ UNCHANGED <<hart0lock, data, msip, arg, entry, calls>>

\* the target's first steps in machine mode
RunTarget(h) ==
  /\ Goto(h, "mcode", IF entry[h].mepc \in LeavesM THEN "os" ELSE "hung")
  /\ UNCHANGED <<hart0lock, data, lock, msip, arg, entry, calls>>

----------------------------------------------------------------------------
BootStep(h) == BootLock(h) \/ BootUnlock(h) \/ BootStatus(h) \/ BootTarget(h)

StartStep(h) == StartBody(h) \/ StartUnlock(h)

StopStep(h) == StopBody(h) \/ StopUnlock(h)

MsipStep(h) ==
  TakeMsip(h) \/ MsipLock(h) \/ MsipClear(h) \/ MsipTest(h) \/ MsipUnlock(h)

\* what a hart does by itself once it is under way
Step(h) ==
  BootStep(h) \/ StartStep(h) \/ StopStep(h) \/ MsipStep(h) \/ RunTarget(h)

Environment(h) == CallStop(h) \/ \E a \in Args : CallStart(h, a)

Next == \/ OpenBoot
        \/ EnterOS
        \/ \E h \in Harts : Step(h) \/ Environment(h)

Spec == Init /\ [][Next]_vars

\* Harts are processors: each one keeps executing its own code.
FairSpec == /\ Spec
            /\ WF_vars(OpenBoot)
            /\ WF_vars(EnterOS)
            /\ \A h \in Harts : WF_vars(Step(h))

----------------------------------------------------------------------------
\* Types of the hart table, the locks and the program counters.
TypeOK ==
  /\ hart0lock \in BOOLEAN
  /\ status \in [Harts -> {"INVALID", "STOPPED", "STARTING", "STARTED"}]
  /\ target \in [Harts -> Addresses]
  /\ scratch \in [Harts -> Frames \cup {None}]
  /\ lock \in [Harts -> Harts \cup {None}]
  /\ msip \in [Harts -> BOOLEAN]
  /\ pc \in [Harts -> PcValues]
  /\ arg \in [Harts -> Args \cup {None}]
  /\ entry \in [Harts -> [mepc : Addresses, sscratch : Harts \cup Frames] \cup {None}]
  /\ promise \in [Harts -> [target : Targets, scratch : Frames] \cup {None}]
  /\ calls \in Nat

InStart == {"start_body", "start_unlock"}
OwnLock == {"stop_body", "stop_unlock", "msip_clear", "msip_test", "msip_unlock"}

Holds(h, g) == \/ pc[h] \in InStart /\ arg[h].hart = g
               \/ pc[h] \in OwnLock /\ h = g

\* A hart lock is held exactly by the hart that is inside a critical section on
\* it: no two harts are inside at once, and no path keeps the lock, not even the
\* early return of hart_stop (hart.c:46-48).
LocksHeldInside == \A g, h \in Harts : lock[g] = h <=> Holds(h, g)

\* No start is lost: a hart that is STARTING has its software interrupt pending
\* or is in the handler that is about to test the status (hart.c:31-36, 66-79).
WakeupPending ==
  \A h \in Harts :
    status[h] = "STARTING" => msip[h] \/ pc[h] = "msip_test"

\* ... and the converse, no spurious wakeup: the interrupt is pending only for
\* a hart that is STARTING and is parked, or is about to park.
NoSpuriousWakeup ==
  \A h \in Harts :
    msip[h] => /\ status[h] = "STARTING"
               /\ pc[h] \in {"boot_target", "parked", "msip_lock", "msip_clear"}

\* A hart is woken exactly when there is a start for it to carry out.
WakeupExact == WakeupPending /\ NoSpuriousWakeup

Running == {"os", "mcode", "hung", "start_body", "start_unlock", "stop_body"}

\* The hart table agrees with where the harts are: a hart runs code of the OS, or
\* of a target, exactly when its status is STARTED (but for the handlers' last
\* step), so hart_start can never pull the rug from under a running hart.
TableTellsTruth ==
  \A h \in Harts :
    /\ pc[h] \in Running => status[h] = "STARTED"
    /\ pc[h] = "parked" => status[h] \in {"STOPPED", "STARTING"}
    /\ status[h] = "STARTED" => pc[h] \in Running \cup {"msip_unlock"}

\* A hart never enters the target of an older start: it enters what the latest
\* successful hart_start asked for, or address 0 when the unlocked stores of
\* main() hit the table after that start (main.c:51-52).
NoStaleTarget ==
  \A h \in Harts :
    entry[h] # None => entry[h].mepc \in {promise[h].target, None}

\* A start that returned true brings the hart to the given target (hart.c:21
\* "attempts to start a given hart").
TargetDelivered ==
  \A h \in Harts : entry[h] # None => entry[h].mepc = promise[h].target

\* Harts live as HartLifecycle says: parked before they can be started, started
\* by a running hart, woken by their own handler, stopped by themselves.
Lifecycle == INSTANCE HartLifecycle
LifecycleSpec == Lifecycle!Spec

\* A start that returned true is followed by the hart starting (hart.c:64-65).
StartingLeadsToStarted ==
  \A h \in Harts : status[h] = "STARTING" ~> status[h] = "STARTED"

\* Every hart gets past the boot lock and ends up in the table.
EveryHartBoots == \A h \in Harts : <>(status[h] # "INVALID")
============================================================================
