--------------------------- MODULE SbiHartProofs ---------------------------
(***************************************************************************)
(* Proofs about SbiHart for every number of harts, every set of targets    *)
(* and every sequence of calls.                                            *)
(***************************************************************************)
EXTENDS SbiHart, TLAPS

\* A hart that is inside hart_start has arguments.
ArgsInside == \A h \in Harts : pc[h] \in InStart => arg[h] \in Args

\* Where a hart is fixes its status and its pending interrupt; only for a hart
\* that is parked, or about to park, another hart can choose.
PcMatchesStatus ==
  \A h \in Harts :
    /\ pc[h] \in {"boot", "boot_unlock", "boot_status"}
         => status[h] = "INVALID" /\ ~msip[h]
    /\ pc[h] \in {"boot_target", "parked"}
         => \/ status[h] = "STOPPED" /\ ~msip[h]
            \/ status[h] = "STARTING" /\ msip[h]
    /\ pc[h] \in {"msip_lock", "msip_clear"}
         => status[h] = "STARTING" /\ msip[h]
    /\ pc[h] = "msip_test" => status[h] = "STARTING" /\ ~msip[h]
    /\ pc[h] \in Running \cup {"start_unlock", "msip_unlock"}
         => status[h] = "STARTED" /\ ~msip[h]
    /\ pc[h] = "stop_unlock" => status[h] = "STOPPED" /\ ~msip[h]

\* The table holds the promised target, or 0, from the start to the wakeup.
EntryMatchesPromise ==
  \A h \in Harts :
    /\ status[h] # "STARTED" => entry[h] = None
    /\ pc[h] = "msip_unlock" => entry[h] # None
    /\ status[h] = "STARTING" => /\ promise[h] # None
                                 /\ target[h] \in {promise[h].target, None}
    /\ entry[h] # None => /\ promise[h] # None
                          /\ entry[h].mepc \in {promise[h].target, None}

HartInv ==
  /\ TypeOK
  /\ ArgsInside
  /\ LocksHeldInside
  /\ PcMatchesStatus
  /\ EntryMatchesPromise

----------------------------------------------------------------------------
LEMMA InitHartInv == Init => HartInv
BY SbiHartAssumption DEF Init, HartInv, TypeOK, PcValues, Addresses, ArgsInside,
   InStart, LocksHeldInside, Holds, OwnLock, PcMatchesStatus, Running,
   EntryMatchesPromise

LEMMA OpenBootInv ==
  ASSUME HartInv, OpenBoot
  PROVE  HartInv'
<1> USE SbiHartAssumption DEF HartInv
<1>1. TypeOK'
  BY DEF OpenBoot, Goto, data, vars, TypeOK, PcValues, Args, Addresses
<1>2. ArgsInside'
  BY DEF OpenBoot, Goto, data, vars, TypeOK, ArgsInside, InStart
<1>3. LocksHeldInside'
  BY DEF OpenBoot, Goto, data, vars, TypeOK, ArgsInside, LocksHeldInside, Holds, InStart, OwnLock
<1>4. PcMatchesStatus'
  BY DEF OpenBoot, Goto, data, vars, TypeOK, ArgsInside, LocksHeldInside, Holds, InStart, OwnLock, PcMatchesStatus, Running
<1>5. EntryMatchesPromise'
  BY DEF OpenBoot, Goto, data, vars, TypeOK, ArgsInside, PcMatchesStatus, EntryMatchesPromise, Running, Args, InStart
<1> QED
  BY <1>1, <1>2, <1>3, <1>4, <1>5

LEMMA EnterOSInv ==
  ASSUME HartInv, EnterOS
  PROVE  HartInv'
<1> USE SbiHartAssumption DEF HartInv
<1>1. TypeOK'
  BY DEF EnterOS, Goto, data, vars, TypeOK, PcValues, Args, Addresses
<1>2. ArgsInside'
  BY DEF EnterOS, Goto, data, vars, TypeOK, ArgsInside, InStart
<1>3. LocksHeldInside'
  BY DEF EnterOS, Goto, data, vars, TypeOK, ArgsInside, LocksHeldInside, Holds, InStart, OwnLock
<1>4. PcMatchesStatus'
  BY DEF EnterOS, Goto, data, vars, TypeOK, ArgsInside, LocksHeldInside, Holds, InStart, OwnLock, PcMatchesStatus, Running
<1>5. EntryMatchesPromise'
  BY DEF EnterOS, Goto, data, vars, TypeOK, ArgsInside, PcMatchesStatus, EntryMatchesPromise, Running, Args, InStart
<1> QED
  BY <1>1, <1>2, <1>3, <1>4, <1>5

LEMMA BootLockInv ==
  ASSUME HartInv, NEW h \in Harts, BootLock(h)
  PROVE  HartInv'
<1> USE SbiHartAssumption DEF HartInv
<1>1. TypeOK'
  BY DEF BootLock, Goto, data, vars, TypeOK, PcValues, Args, Addresses
<1>2. ArgsInside'
  BY DEF BootLock, Goto, data, vars, TypeOK, ArgsInside, InStart
<1>3. LocksHeldInside'
  BY DEF BootLock, Goto, data, vars, TypeOK, ArgsInside, LocksHeldInside, Holds, InStart, OwnLock
<1>4. PcMatchesStatus'
  BY DEF BootLock, Goto, data, vars, TypeOK, ArgsInside, LocksHeldInside, Holds, InStart, OwnLock, PcMatchesStatus, Running
<1>5. EntryMatchesPromise'
  BY DEF BootLock, Goto, data, vars, TypeOK, ArgsInside, PcMatchesStatus, EntryMatchesPromise, Running, Args, InStart
<1> QED
  BY <1>1, <1>2, <1>3, <1>4, <1>5

LEMMA BootUnlockInv ==
  ASSUME HartInv, NEW h \in Harts, BootUnlock(h)
  PROVE  HartInv'
<1> USE SbiHartAssumption DEF HartInv
<1>1. TypeOK'
  BY DEF BootUnlock, Goto, data, vars, TypeOK, PcValues, Args, Addresses
<1>2. ArgsInside'
  BY DEF BootUnlock, Goto, data, vars, TypeOK, ArgsInside, InStart
<1>3. LocksHeldInside'
  BY DEF BootUnlock, Goto, data, vars, TypeOK, ArgsInside, LocksHeldInside, Holds, InStart, OwnLock
<1>4. PcMatchesStatus'
  BY DEF BootUnlock, Goto, data, vars, TypeOK, ArgsInside, LocksHeldInside, Holds, InStart, OwnLock, PcMatchesStatus, Running
<1>5. EntryMatchesPromise'
  BY DEF BootUnlock, Goto, data, vars, TypeOK, ArgsInside, PcMatchesStatus, EntryMatchesPromise, Running, Args, InStart
<1> QED
  BY <1>1, <1>2, <1>3, <1>4, <1>5

LEMMA BootStatusInv ==
  ASSUME HartInv, NEW h \in Harts, BootStatus(h)
  PROVE  HartInv'
<1> USE SbiHartAssumption DEF HartInv
<1>1. TypeOK'
  BY DEF BootStatus, Goto, data, vars, TypeOK, PcValues, Args, Addresses
<1>2. ArgsInside'
  BY DEF BootStatus, Goto, data, vars, TypeOK, ArgsInside, InStart
<1>3. LocksHeldInside'
  BY DEF BootStatus, Goto, data, vars, TypeOK, ArgsInside, LocksHeldInside, Holds, InStart, OwnLock
<1>4. PcMatchesStatus'
  BY DEF BootStatus, Goto, data, vars, TypeOK, ArgsInside, LocksHeldInside, Holds, InStart, OwnLock, PcMatchesStatus, Running
<1>5. EntryMatchesPromise'
  BY DEF BootStatus, Goto, data, vars, TypeOK, ArgsInside, PcMatchesStatus, EntryMatchesPromise, Running, Args, InStart
<1> QED
  BY <1>1, <1>2, <1>3, <1>4, <1>5

LEMMA BootTargetInv ==
  ASSUME HartInv, NEW h \in Harts, BootTarget(h)
  PROVE  HartInv'
<1> USE SbiHartAssumption DEF HartInv
<1>1. TypeOK'
  BY DEF BootTarget, Goto, data, vars, TypeOK, PcValues, Args, Addresses
<1>2. ArgsInside'
  BY DEF BootTarget, Goto, data, vars, TypeOK, ArgsInside, InStart
<1>3. LocksHeldInside'
  BY DEF BootTarget, Goto, data, vars, TypeOK, ArgsInside, LocksHeldInside, Holds, InStart, OwnLock
<1>4. PcMatchesStatus'
  BY DEF BootTarget, Goto, data, vars, TypeOK, ArgsInside, LocksHeldInside, Holds, InStart, OwnLock, PcMatchesStatus, Running
<1>5. EntryMatchesPromise'
  BY DEF BootTarget, Goto, data, vars, TypeOK, ArgsInside, PcMatchesStatus, EntryMatchesPromise, Running, Args, InStart
<1> QED
  BY <1>1, <1>2, <1>3, <1>4, <1>5

LEMMA CallStartInv ==
  ASSUME HartInv, NEW h \in Harts, NEW a \in Args, CallStart(h, a)
  PROVE  HartInv'
<1> USE SbiHartAssumption DEF HartInv
<1>1. TypeOK'
  BY DEF CallStart, Goto, data, vars, TryLock, Call, TypeOK, PcValues, Args, Addresses
<1>2. ArgsInside'
  BY DEF CallStart, Goto, data, vars, TryLock, Call, TypeOK, ArgsInside, InStart
<1>3. LocksHeldInside'
  BY DEF CallStart, Goto, data, vars, TryLock, Call, TypeOK, ArgsInside, LocksHeldInside, Holds, InStart, OwnLock
<1>4. PcMatchesStatus'
  BY DEF CallStart, Goto, data, vars, TryLock, Call, TypeOK, ArgsInside, LocksHeldInside, Holds, InStart, OwnLock, PcMatchesStatus, Running
<1>5. EntryMatchesPromise'
  BY DEF CallStart, Goto, data, vars, TryLock, Call, TypeOK, ArgsInside, PcMatchesStatus, EntryMatchesPromise, Running, Args, InStart
<1> QED
  BY <1>1, <1>2, <1>3, <1>4, <1>5

LEMMA StartBodyInv ==
  ASSUME HartInv, NEW h \in Harts, StartBody(h)
  PROVE  HartInv'
<1> USE SbiHartAssumption DEF HartInv
<1>0. /\ arg[h].hart \in Harts
      /\ arg[h].target \in Targets
      /\ arg[h].scratch \in Frames
  BY DEF StartBody, Goto, ArgsInside, InStart, Args
<1>1. TypeOK'
  <2>1. /\ pc' \in [Harts -> PcValues]
        /\ status' \in [Harts -> {"INVALID", "STOPPED", "STARTING", "STARTED"}]
        /\ msip' \in [Harts -> BOOLEAN]
    BY <1>0 DEF StartBody, Goto, data, CanStart, Arm, StoreTarget, TypeOK, PcValues
  <2>2. /\ target' \in [Harts -> Addresses]
        /\ scratch' \in [Harts -> Frames \cup {None}]
    BY <1>0 DEF StartBody, data, CanStart, Arm, StoreTarget, TypeOK, Addresses
  <2>3. promise' \in [Harts -> [target : Targets, scratch : Frames] \cup {None}]
    <3>1. [target |-> arg[h].target, scratch |-> arg[h].scratch]
            \in [target : Targets, scratch : Frames]
      BY <1>0
    <3> QED
      BY <1>0, <3>1 DEF StartBody, data, CanStart, Arm, Promise, TypeOK
  <2> QED
    BY <2>1, <2>2, <2>3 DEF StartBody, TypeOK
<1>2. ArgsInside'
  BY DEF StartBody, Goto, data, vars, CanStart, Arm, StoreTarget, Promise, TypeOK, ArgsInside, InStart
<1>3. LocksHeldInside'
  BY DEF StartBody, Goto, data, vars, CanStart, Arm, StoreTarget, Promise, TypeOK, ArgsInside, LocksHeldInside, Holds, InStart, OwnLock
<1>4. PcMatchesStatus'
  BY DEF StartBody, Goto, data, vars, CanStart, Arm, StoreTarget, Promise, TypeOK, ArgsInside, LocksHeldInside, Holds, InStart, OwnLock, PcMatchesStatus, Running
<1>5. EntryMatchesPromise'
  BY DEF StartBody, Goto, data, vars, CanStart, Arm, StoreTarget, Promise, TypeOK, ArgsInside, PcMatchesStatus, EntryMatchesPromise, Running, Args, InStart
<1> QED
  BY <1>1, <1>2, <1>3, <1>4, <1>5

LEMMA StartUnlockInv ==
  ASSUME HartInv, NEW h \in Harts, StartUnlock(h)
  PROVE  HartInv'
<1> USE SbiHartAssumption DEF HartInv
<1>1. TypeOK'
  BY DEF StartUnlock, Goto, data, vars, Unlock, TypeOK, PcValues, Args, Addresses
<1>2. ArgsInside'
  BY DEF StartUnlock, Goto, data, vars, Unlock, TypeOK, ArgsInside, InStart
<1>3. LocksHeldInside'
  BY DEF StartUnlock, Goto, data, vars, Unlock, TypeOK, ArgsInside, LocksHeldInside, Holds, InStart, OwnLock
<1>4. PcMatchesStatus'
  BY DEF StartUnlock, Goto, data, vars, Unlock, TypeOK, ArgsInside, LocksHeldInside, Holds, InStart, OwnLock, PcMatchesStatus, Running
<1>5. EntryMatchesPromise'
  BY DEF StartUnlock, Goto, data, vars, Unlock, TypeOK, ArgsInside, PcMatchesStatus, EntryMatchesPromise, Running, Args, InStart
<1> QED
  BY <1>1, <1>2, <1>3, <1>4, <1>5

LEMMA CallStopInv ==
  ASSUME HartInv, NEW h \in Harts, CallStop(h)
  PROVE  HartInv'
<1> USE SbiHartAssumption DEF HartInv
<1>1. TypeOK'
  BY DEF CallStop, Goto, data, vars, TryLock, Call, TypeOK, PcValues, Args, Addresses
<1>2. ArgsInside'
  BY DEF CallStop, Goto, data, vars, TryLock, Call, TypeOK, ArgsInside, InStart
<1>3. LocksHeldInside'
  BY DEF CallStop, Goto, data, vars, TryLock, Call, TypeOK, ArgsInside, LocksHeldInside, Holds, InStart, OwnLock
<1>4. PcMatchesStatus'
  BY DEF CallStop, Goto, data, vars, TryLock, Call, TypeOK, ArgsInside, LocksHeldInside, Holds, InStart, OwnLock, PcMatchesStatus, Running
<1>5. EntryMatchesPromise'
  BY DEF CallStop, Goto, data, vars, TryLock, Call, TypeOK, ArgsInside, PcMatchesStatus, EntryMatchesPromise, Running, Args, InStart
<1> QED
  BY <1>1, <1>2, <1>3, <1>4, <1>5

LEMMA StopBodyInv ==
  ASSUME HartInv, NEW h \in Harts, StopBody(h)
  PROVE  HartInv'
<1> USE SbiHartAssumption DEF HartInv
<1>1. TypeOK'
  BY DEF StopBody, Goto, data, vars, TypeOK, PcValues, Args, Addresses
<1>2. ArgsInside'
  BY DEF StopBody, Goto, data, vars, TypeOK, ArgsInside, InStart
<1>3. LocksHeldInside'
  BY DEF StopBody, Goto, data, vars, TypeOK, ArgsInside, LocksHeldInside, Holds, InStart, OwnLock, PcMatchesStatus, Running
<1>4. PcMatchesStatus'
  BY DEF StopBody, Goto, data, vars, TypeOK, ArgsInside, LocksHeldInside, Holds, InStart, OwnLock, PcMatchesStatus, Running
<1>5. EntryMatchesPromise'
  BY DEF StopBody, Goto, data, vars, TypeOK, ArgsInside, PcMatchesStatus, EntryMatchesPromise, Running, Args, InStart
<1> QED
  BY <1>1, <1>2, <1>3, <1>4, <1>5

LEMMA StopUnlockInv ==
  ASSUME HartInv, NEW h \in Harts, StopUnlock(h)
  PROVE  HartInv'
<1> USE SbiHartAssumption DEF HartInv
<1>1. TypeOK'
  BY DEF StopUnlock, Goto, data, vars, Unlock, TypeOK, PcValues, Args, Addresses
<1>2. ArgsInside'
  BY DEF StopUnlock, Goto, data, vars, Unlock, TypeOK, ArgsInside, InStart
<1>3. LocksHeldInside'
  BY DEF StopUnlock, Goto, data, vars, Unlock, TypeOK, ArgsInside, LocksHeldInside, Holds, InStart, OwnLock
<1>4. PcMatchesStatus'
  BY DEF StopUnlock, Goto, data, vars, Unlock, TypeOK, ArgsInside, LocksHeldInside, Holds, InStart, OwnLock, PcMatchesStatus, Running
<1>5. EntryMatchesPromise'
  BY DEF StopUnlock, Goto, data, vars, Unlock, TypeOK, ArgsInside, PcMatchesStatus, EntryMatchesPromise, Running, Args, InStart
<1> QED
  BY <1>1, <1>2, <1>3, <1>4, <1>5

LEMMA TakeMsipInv ==
  ASSUME HartInv, NEW h \in Harts, TakeMsip(h)
  PROVE  HartInv'
<1> USE SbiHartAssumption DEF HartInv
<1>1. TypeOK'
  BY DEF TakeMsip, Goto, data, vars, TypeOK, PcValues, Args, Addresses
<1>2. ArgsInside'
  BY DEF TakeMsip, Goto, data, vars, TypeOK, ArgsInside, InStart
<1>3. LocksHeldInside'
  BY DEF TakeMsip, Goto, data, vars, TypeOK, ArgsInside, LocksHeldInside, Holds, InStart, OwnLock
<1>4. PcMatchesStatus'
  BY DEF TakeMsip, Goto, data, vars, TypeOK, ArgsInside, LocksHeldInside, Holds, InStart, OwnLock, PcMatchesStatus, Running
<1>5. EntryMatchesPromise'
  BY DEF TakeMsip, Goto, data, vars, TypeOK, ArgsInside, PcMatchesStatus, EntryMatchesPromise, Running, Args, InStart
<1> QED
  BY <1>1, <1>2, <1>3, <1>4, <1>5

LEMMA MsipLockInv ==
  ASSUME HartInv, NEW h \in Harts, MsipLock(h)
  PROVE  HartInv'
<1> USE SbiHartAssumption DEF HartInv
<1>1. TypeOK'
  BY DEF MsipLock, Goto, data, vars, TryLock, TypeOK, PcValues, Args, Addresses
<1>2. ArgsInside'
  BY DEF MsipLock, Goto, data, vars, TryLock, TypeOK, ArgsInside, InStart
<1>3. LocksHeldInside'
  BY DEF MsipLock, Goto, data, vars, TryLock, TypeOK, ArgsInside, LocksHeldInside, Holds, InStart, OwnLock
<1>4. PcMatchesStatus'
  BY DEF MsipLock, Goto, data, vars, TryLock, TypeOK, ArgsInside, LocksHeldInside, Holds, InStart, OwnLock, PcMatchesStatus, Running
<1>5. EntryMatchesPromise'
  BY DEF MsipLock, Goto, data, vars, TryLock, TypeOK, ArgsInside, PcMatchesStatus, EntryMatchesPromise, Running, Args, InStart
<1> QED
  BY <1>1, <1>2, <1>3, <1>4, <1>5

LEMMA MsipClearInv ==
  ASSUME HartInv, NEW h \in Harts, MsipClear(h)
  PROVE  HartInv'
<1> USE SbiHartAssumption DEF HartInv
<1>1. TypeOK'
  BY DEF MsipClear, Goto, data, vars, TypeOK, PcValues, Args, Addresses
<1>2. ArgsInside'
  BY DEF MsipClear, Goto, data, vars, TypeOK, ArgsInside, InStart
<1>3. LocksHeldInside'
  BY DEF MsipClear, Goto, data, vars, TypeOK, ArgsInside, LocksHeldInside, Holds, InStart, OwnLock
<1>4. PcMatchesStatus'
  BY DEF MsipClear, Goto, data, vars, TypeOK, ArgsInside, LocksHeldInside, Holds, InStart, OwnLock, PcMatchesStatus, Running
<1>5. EntryMatchesPromise'
  BY DEF MsipClear, Goto, data, vars, TypeOK, ArgsInside, PcMatchesStatus, EntryMatchesPromise, Running, Args, InStart
<1> QED
  BY <1>1, <1>2, <1>3, <1>4, <1>5

LEMMA MsipTestInv ==
  ASSUME HartInv, NEW h \in Harts, MsipTest(h)
  PROVE  HartInv'
<1> USE SbiHartAssumption DEF HartInv
<1>1. TypeOK'
  BY DEF MsipTest, Goto, data, vars, TypeOK, PcValues, Args, Addresses
<1>2. ArgsInside'
  BY DEF MsipTest, Goto, data, vars, TypeOK, ArgsInside, InStart
<1>3. LocksHeldInside'
  BY DEF MsipTest, Goto, data, vars, TypeOK, ArgsInside, LocksHeldInside, Holds, InStart, OwnLock
<1>4. PcMatchesStatus'
  BY DEF MsipTest, Goto, data, vars, TypeOK, ArgsInside, LocksHeldInside, Holds, InStart, OwnLock, PcMatchesStatus, Running
<1>5. EntryMatchesPromise'
  BY DEF MsipTest, Goto, data, vars, TypeOK, ArgsInside, PcMatchesStatus, EntryMatchesPromise, Running, Args, InStart
<1> QED
  BY <1>1, <1>2, <1>3, <1>4, <1>5

LEMMA MsipUnlockInv ==
  ASSUME HartInv, NEW h \in Harts, MsipUnlock(h)
  PROVE  HartInv'
<1> USE SbiHartAssumption DEF HartInv
<1>1. TypeOK'
  BY DEF MsipUnlock, Goto, data, vars, Unlock, TypeOK, PcValues, Args, Addresses
<1>2. ArgsInside'
  BY DEF MsipUnlock, Goto, data, vars, Unlock, TypeOK, ArgsInside, InStart
<1>3. LocksHeldInside'
  BY DEF MsipUnlock, Goto, data, vars, Unlock, TypeOK, ArgsInside, LocksHeldInside, Holds, InStart, OwnLock
<1>4. PcMatchesStatus'
  BY DEF MsipUnlock, Goto, data, vars, Unlock, TypeOK, ArgsInside, LocksHeldInside, Holds, InStart, OwnLock, PcMatchesStatus, Running, EntryMatchesPromise
<1>5. EntryMatchesPromise'
  BY DEF MsipUnlock, Goto, data, vars, Unlock, TypeOK, ArgsInside, PcMatchesStatus, EntryMatchesPromise, Running, Args, InStart
<1> QED
  BY <1>1, <1>2, <1>3, <1>4, <1>5

LEMMA RunTargetInv ==
  ASSUME HartInv, NEW h \in Harts, RunTarget(h)
  PROVE  HartInv'
<1> USE SbiHartAssumption DEF HartInv
<1>1. TypeOK'
  BY DEF RunTarget, Goto, data, vars, TypeOK, PcValues, Args, Addresses
<1>2. ArgsInside'
  BY DEF RunTarget, Goto, data, vars, TypeOK, ArgsInside, InStart
<1>3. LocksHeldInside'
  BY DEF RunTarget, Goto, data, vars, TypeOK, ArgsInside, LocksHeldInside, Holds, InStart, OwnLock
<1>4. PcMatchesStatus'
  BY DEF RunTarget, Goto, data, vars, TypeOK, ArgsInside, LocksHeldInside, Holds, InStart, OwnLock, PcMatchesStatus, Running
<1>5. EntryMatchesPromise'
  BY DEF RunTarget, Goto, data, vars, TypeOK, ArgsInside, PcMatchesStatus, EntryMatchesPromise, Running, Args, InStart
<1> QED
  BY <1>1, <1>2, <1>3, <1>4, <1>5
LEMMA StepHartInv ==
  ASSUME HartInv, [Next]_vars
  PROVE  HartInv'
<1>1. CASE OpenBoot \/ EnterOS
  BY <1>1, OpenBootInv, EnterOSInv
<1>2. CASE \E h \in Harts : BootStep(h)
  BY <1>2, BootLockInv, BootUnlockInv, BootStatusInv, BootTargetInv DEF BootStep
<1>3. CASE \E h \in Harts : StartStep(h)
  BY <1>3, StartBodyInv, StartUnlockInv DEF StartStep
<1>4. CASE \E h \in Harts : StopStep(h)
  BY <1>4, StopBodyInv, StopUnlockInv DEF StopStep
<1>5. CASE \E h \in Harts : MsipStep(h)
  BY <1>5, TakeMsipInv, MsipLockInv, MsipClearInv, MsipTestInv, MsipUnlockInv
     DEF MsipStep
<1>6. CASE \E h \in Harts : RunTarget(h)
  BY <1>6, RunTargetInv
<1>7. CASE \E h \in Harts : Environment(h)
  BY <1>7, CallStartInv, CallStopInv DEF Environment
<1>8. CASE UNCHANGED vars
  BY <1>8 DEF vars, data, HartInv, TypeOK, ArgsInside, LocksHeldInside, Holds,
     PcMatchesStatus, EntryMatchesPromise
<1> QED
  BY <1>1, <1>2, <1>3, <1>4, <1>5, <1>6, <1>7, <1>8 DEF Next, Step

LEMMA HartInvImplies ==
  HartInv => /\ TypeOK
             /\ LocksHeldInside
             /\ WakeupPending
             /\ NoSpuriousWakeup
             /\ TableTellsTruth
             /\ NoStaleTarget
<1> SUFFICES ASSUME HartInv
             PROVE  /\ WakeupPending
                    /\ NoSpuriousWakeup
                    /\ TableTellsTruth
                    /\ NoStaleTarget
  BY DEF HartInv
<1>1. \A h \in Harts : pc[h] \in PcValues
  BY DEF HartInv, TypeOK
<1>2. WakeupPending /\ NoSpuriousWakeup
  BY <1>1 DEF HartInv, PcMatchesStatus, WakeupPending, NoSpuriousWakeup, PcValues,
     Running
<1>3. TableTellsTruth
  BY <1>1 DEF HartInv, PcMatchesStatus, TableTellsTruth, PcValues, Running
<1>4. NoStaleTarget
  BY DEF HartInv, EntryMatchesPromise, NoStaleTarget
<1> QED
  BY <1>2, <1>3, <1>4

LEMMA HartInvThm == Spec => []HartInv
<1>1. Init => HartInv
  BY InitHartInv
<1>2. HartInv /\ [Next]_vars => HartInv'
  BY StepHartInv
<1> QED
  BY <1>1, <1>2, PTL DEF Spec

----------------------------------------------------------------------------
\* A hart lock is held by exactly the hart that is inside a critical section on
\* it: mutual exclusion, and no path of hart_start, hart_stop or
\* hart_handle_msip leaves a lock behind.
THEOREM LocksThm == Spec => [](TypeOK /\ LocksHeldInside)
BY HartInvThm, HartInvImplies, PTL

\* Types of the table, the locks, the CLINT and the harts' places in the code
\* (hart.c, svccall.c, main.c).
THEOREM HartTypes == Spec => []TypeOK
BY LocksThm, PTL

\* No start is lost and no hart wakes up without one.
THEOREM WakeupThm == Spec => []WakeupExact
BY HartInvThm, HartInvImplies, PTL DEF WakeupExact

\* The hart table agrees with what the harts do, and a hart enters the latest
\* promised target or address 0.
THEOREM TableThm == Spec => [](TableTellsTruth /\ NoStaleTarget)
BY HartInvThm, HartInvImplies, PTL

----------------------------------------------------------------------------
\* Every store to a status is one of the moves of HartLifecycle.
LEMMA LifecycleStep ==
  ASSUME HartInv, [Next]_vars
  PROVE  [Lifecycle!Next]_status
<1> USE SbiHartAssumption DEF Lifecycle!Next, Lifecycle!Move
<1>1. ASSUME EnterOS
      PROVE  Lifecycle!Ready(Boot)
  BY <1>1 DEF EnterOS, Goto, HartInv, PcMatchesStatus, Lifecycle!Ready
<1>2. ASSUME NEW h \in Harts, BootStatus(h)
      PROVE  Lifecycle!Ready(h)
  BY <1>2 DEF BootStatus, Goto, HartInv, PcMatchesStatus, Lifecycle!Ready
<1>3. ASSUME NEW h \in Harts, StartBody(h)
      PROVE  UNCHANGED status \/ \E g \in Harts : Lifecycle!Start(g)
  <2>1. arg[h].hart \in Harts
    BY <1>3 DEF StartBody, Goto, HartInv, ArgsInside, InStart, Args
  <2>2. status[h] = "STARTED"
    BY <1>3 DEF StartBody, Goto, HartInv, PcMatchesStatus, Running
  <2>3. CASE CanStart(arg[h].hart)
    <3>1. h \in Harts \ {arg[h].hart}
      BY <2>2, <2>3 DEF CanStart
    <3>2. Lifecycle!Start(arg[h].hart)
      BY <1>3, <2>2, <2>3, <3>1 DEF StartBody, CanStart, Arm, Lifecycle!Start
    <3> QED
      BY <2>1, <3>2
  <2>4. CASE ~CanStart(arg[h].hart)
    BY <1>3, <2>4 DEF StartBody, data
  <2> QED
    BY <2>3, <2>4
<1>4. ASSUME NEW h \in Harts, StopBody(h)
      PROVE  Lifecycle!Stop(h)
  BY <1>4 DEF StopBody, Goto, HartInv, PcMatchesStatus, Running, Lifecycle!Stop
<1>5. ASSUME NEW h \in Harts, MsipTest(h)
      PROVE  Lifecycle!Wake(h)
  BY <1>5 DEF MsipTest, Goto, HartInv, PcMatchesStatus, Lifecycle!Wake
<1>6. ASSUME NEW h \in Harts, \/ BootLock(h) \/ BootUnlock(h) \/ BootTarget(h)
                              \/ StartUnlock(h) \/ StopUnlock(h) \/ TakeMsip(h)
                              \/ MsipLock(h) \/ MsipClear(h) \/ MsipUnlock(h)
                              \/ RunTarget(h) \/ Environment(h)
      PROVE  UNCHANGED status
  BY <1>6 DEF BootLock, BootUnlock, BootTarget, StartUnlock, StopUnlock, TakeMsip,
     MsipLock, MsipClear, MsipUnlock, RunTarget, Environment, CallStart, CallStop,
     data
<1>7. ASSUME OpenBoot
      PROVE  UNCHANGED status
  BY <1>7 DEF OpenBoot, data
<1>8. ASSUME UNCHANGED vars
      PROVE  UNCHANGED status
  BY <1>8 DEF vars
<1> QED
  BY <1>1, <1>2, <1>3, <1>4, <1>5, <1>6, <1>7, <1>8 DEF Next, Step, BootStep,
     StartStep, StopStep, MsipStep

\* The firmware implements HartLifecycle: harts boot parked, are started by a
\* running hart, wake by themselves and stop only themselves.
THEOREM LifecycleThm == Spec => LifecycleSpec
<1>1. Init => Lifecycle!Init
  BY DEF Init, Lifecycle!Init
<1>2. HartInv /\ [Next]_vars => [Lifecycle!Next]_status
  BY LifecycleStep
<1> QED
  BY <1>1, <1>2, HartInvThm, PTL DEF Spec, LifecycleSpec, Lifecycle!Spec
============================================================================
