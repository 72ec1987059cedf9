------------------------ MODULE ServerLifecycle_proofs ----------------------
(***************************************************************************)
(* Proofs about ServerLifecycle for any number of faults, with and without *)
(* interrupts: that a verified teardown leaves nothing behind that the     *)
(* lifecycle object names, that an attempt without a fault verifies, and   *)
(* that the controller ends after a bounded number of steps.               *)
(***************************************************************************)
EXTENDS ServerLifecycle, TLAPS

USE LifecycleAssumption

Checks == {"td_server", "td_pid", "td_service", "td_slot", "td_absent",
           "td_removed", "td_verdict"}

\* Nothing is tracked before the spawn, a closed lifecycle is over, and only an
\* interrupt leaves a tunnel that the lifecycle object does not name.
OrderInv == /\ pc \in {"slot", "spawn"} => ~tracked
            /\ stage = "closed" => pc = "ended"
            /\ tunnel = "unowned" => interrupted

\* What the checks made so far in an attempt stand for, while all of them hold.
TunnelInv == pc \in Checks /\ good => tunnel # "running"

DeadInv == /\ pc = "td_pid" => tracked /\ ~Alive(proc)
           /\ pc \in Checks \ {"td_server", "td_pid"} /\ good /\ tracked
                => ~Alive(proc) /\ ~pidFile

SlotInv == /\ pc \in {"td_absent", "td_removed"} => ~slot
           /\ pc = "td_verdict" /\ good => ~slot

SafeInv == OrderInv /\ TunnelInv /\ DeadInv /\ SlotInv /\ VerifiedMeansGone

\* The inductive invariant.
IInv == TypeOK /\ SafeInv

-----------------------------------------------------------------------------
(* Type correctness.                                                       *)

LEMMA InitType == Init => TypeOK
<1> SUFFICES ASSUME Init PROVE TypeOK
  OBVIOUS
<1> USE DEF Init
<1>1. FlagsOK BY Zenon DEF FlagsOK
<1>2. PlaceOK BY DEF PlaceOK, Pcs
<1> QED BY <1>1, <1>2 DEF TypeOK

\* A step spends at most one fault, and only one that is left.
LEMMA FaultCount == ASSUME TypeOK, faults' = faults \/ Fault
                    PROVE  faults' \in 0 .. MaxFaults
BY DEF TypeOK, Fault

LEMMA LaunchType == ASSUME TypeOK, Launch
                    PROVE  TypeOK'
<1> USE DEF hostVars, lifeVars, tdVars, envVars, Raise, Healthy, Fault
<1>1. FlagsOK'
  <2> USE DEF TypeOK, FlagsOK
  <2>1. CASE PrepareSlotActionDirectory
    BY <2>1, Zenon DEF PrepareSlotActionDirectory
  <2>2. CASE SpawnServer BY <2>2, Zenon DEF SpawnServer, SpawnBroken
  <2>3. CASE IdentifyServer BY <2>3, Zenon DEF IdentifyServer
  <2>4. CASE PollListener BY <2>4, Zenon DEF PollListener
  <2>5. CASE LaunchTunnel BY <2>5, Zenon DEF LaunchTunnel
  <2>6. CASE TerminateWithoutTunnel
    BY <2>6, Zenon DEF TerminateWithoutTunnel, TerminateAndVerify
  <2>7. CASE Body BY <2>7, Zenon DEF Body
  <2>8. CASE RefuseSpawn BY <2>8, Zenon DEF RefuseSpawn
  <2> QED BY <2>1, <2>2, <2>3, <2>4, <2>5, <2>6, <2>7, <2>8 DEF Launch
<1>2. PlaceOK'
  <2> USE DEF TypeOK, PlaceOK, Pcs
  <2>1. CASE PrepareSlotActionDirectory
    BY <2>1, Zenon DEF PrepareSlotActionDirectory
  <2>2. CASE SpawnServer BY <2>2, Zenon DEF SpawnServer, SpawnBroken
  <2>3. CASE IdentifyServer BY <2>3, Zenon DEF IdentifyServer
  <2>4. CASE PollListener BY <2>4, Zenon DEF PollListener
  <2>5. CASE LaunchTunnel BY <2>5, Zenon DEF LaunchTunnel
  <2>6. CASE TerminateWithoutTunnel
    BY <2>6, Zenon DEF TerminateWithoutTunnel, TerminateAndVerify
  <2>7. CASE Body BY <2>7, Zenon DEF Body
  <2>8. CASE RefuseSpawn BY <2>8, Zenon DEF RefuseSpawn
  <2> QED BY <2>1, <2>2, <2>3, <2>4, <2>5, <2>6, <2>7, <2>8 DEF Launch
<1>3. faults' = faults \/ Fault
  BY Zenon DEF Launch, PrepareSlotActionDirectory, RefuseSpawn, SpawnServer, SpawnBroken,
     IdentifyServer, PollListener, LaunchTunnel, TerminateWithoutTunnel,
     TerminateAndVerify, Body
<1> QED BY <1>1, <1>2, <1>3, FaultCount DEF TypeOK

LEMMA RecoverType == ASSUME TypeOK, Recover
                     PROVE  TypeOK'
<1> USE DEF hostVars, lifeVars, tdVars, envVars, Raise, Healthy, Fault
<1>1. FlagsOK'
  <2> USE DEF TypeOK, FlagsOK
  <2>1. CASE ResolveCandidate BY <2>1, Zenon DEF ResolveCandidate
  <2>2. CASE RecoverTerminate
    BY <2>2, Zenon DEF RecoverTerminate, TerminateAndVerify
  <2>3. CASE RecoverRemovePidFile BY <2>3, Zenon DEF RecoverRemovePidFile
  <2>4. CASE PersistOrphanRecovery BY <2>4, Zenon DEF PersistOrphanRecovery
  <2> QED BY <2>1, <2>2, <2>3, <2>4 DEF Recover
<1>2. PlaceOK'
  <2> USE DEF TypeOK, PlaceOK, Pcs
  <2>1. CASE ResolveCandidate BY <2>1, Zenon DEF ResolveCandidate
  <2>2. CASE RecoverTerminate
    BY <2>2, Zenon DEF RecoverTerminate, TerminateAndVerify
  <2>3. CASE RecoverRemovePidFile BY <2>3, Zenon DEF RecoverRemovePidFile
  <2>4. CASE PersistOrphanRecovery BY <2>4, SMT DEF PersistOrphanRecovery
  <2> QED BY <2>1, <2>2, <2>3, <2>4 DEF Recover
<1>3. faults' = faults \/ Fault
  BY Zenon DEF Recover, ResolveCandidate, RecoverTerminate,
     TerminateAndVerify, RecoverRemovePidFile, PersistOrphanRecovery
<1> QED BY <1>1, <1>2, <1>3, FaultCount DEF TypeOK

LEMMA TeardownType == ASSUME TypeOK, Teardown
                      PROVE  TypeOK'
<1> USE DEF hostVars, lifeVars, tdVars, envVars, Raise, Healthy, Fault
<1>1. FlagsOK'
  <2> USE DEF TypeOK, FlagsOK
  <2>1. CASE StopLocalProcesses BY <2>1, Zenon DEF StopLocalProcesses
  <2>2. CASE StopServer
    BY <2>2, Zenon DEF StopServer, TerminateAndVerify, AfterTerminate
  <2>3. CASE RemovePidFile BY <2>3, Zenon DEF RemovePidFile
  <2>4. CASE StopSlot
    BY <2>4, Zenon DEF StopSlot, CheckSlotAbsent, RemoveSlotDirectory
  <2>5. CASE VerifySlotRemoved BY <2>5, Zenon DEF VerifySlotRemoved
  <2>6. CASE Verdict
    <3>1. UNCHANGED <<hostVars, candidate, tracked, slotRequired, good, envVars>>
      BY <2>6, Zenon DEF Verdict
    <3>2. slotReceipt' \in BOOLEAN
      BY <2>6, Zenon DEF Verdict
    <3>3. faulty' \in {faulty, TRUE}
      BY <2>6, Zenon DEF Verdict
    <3> QED BY <3>1, <3>2, <3>3, Zenon DEF envVars
  <2>7. CASE CheckService BY <2>7, Zenon DEF CheckService
  <2> QED BY <2>1, <2>2, <2>3, <2>4, <2>5, <2>6, <2>7 DEF Teardown
<1>2. PlaceOK'
  <2> USE DEF TypeOK, PlaceOK, Pcs
  <2>1. CASE StopLocalProcesses BY <2>1, Zenon DEF StopLocalProcesses
  <2>2. CASE StopServer
    BY <2>2, Zenon DEF StopServer, TerminateAndVerify, AfterTerminate
  <2>3. CASE RemovePidFile BY <2>3, Zenon DEF RemovePidFile
  <2>4. CASE StopSlot
    BY <2>4, Zenon DEF StopSlot, CheckSlotAbsent, RemoveSlotDirectory
  <2>5. CASE VerifySlotRemoved BY <2>5, Zenon DEF VerifySlotRemoved
  <2>6. CASE Verdict
    <3>1. attempt' \in {0, 1}
      <4>1. attempt' \in {attempt, 0} \/ (attempt # 1 /\ attempt' = attempt + 1)
        BY <2>6, Zenon DEF Verdict, LastAttempt
      <4> QED BY <4>1
    <3>2. /\ proc' = proc /\ tunnel' = tunnel
          /\ pc' \in {"ended", "td_local"}
          /\ stage' \in {stage, "closed"}
          /\ evidence' \in {evidence, evidence \cup {"teardown_failure"}}
          /\ call' \in {call, "final"}
      BY <2>6, Zenon DEF Verdict, ReportFailure
    <3> QED BY <3>1, <3>2
  <2>7. CASE CheckService BY <2>7, Zenon DEF CheckService
  <2> QED BY <2>1, <2>2, <2>3, <2>4, <2>5, <2>6, <2>7 DEF Teardown
<1>3. faults' = faults \/ Fault
  BY Zenon DEF Teardown, StopLocalProcesses, StopServer, TerminateAndVerify,
     RemovePidFile, CheckService, StopSlot, CheckSlotAbsent, RemoveSlotDirectory,
     VerifySlotRemoved, Verdict
<1> QED BY <1>1, <1>2, <1>3, FaultCount DEF TypeOK

LEMMA EnvironmentType == ASSUME TypeOK, Interrupt \/ Host
                         PROVE  TypeOK'
<1> USE DEF hostVars, lifeVars, tdVars, envVars, Raise, Healthy, Fault
<1>1. FlagsOK'
  <2> USE DEF TypeOK, FlagsOK
  <2>1. CASE Interrupt BY <2>1, Zenon DEF Interrupt, SpawnBroken, InTeardown
  <2>2. CASE ServerBinds BY <2>2, Zenon DEF ServerBinds
  <2>3. CASE ServerDies BY <2>3, Zenon DEF ServerDies
  <2>4. CASE ServiceChanges BY <2>4, Zenon DEF ServiceChanges
  <2> QED BY <2>1, <2>2, <2>3, <2>4 DEF Host
<1>2. PlaceOK'
  <2> USE DEF TypeOK, PlaceOK, Pcs
  <2>1. CASE Interrupt BY <2>1, Zenon DEF Interrupt, SpawnBroken, InTeardown
  <2>2. CASE ServerBinds BY <2>2, Zenon DEF ServerBinds
  <2>3. CASE ServerDies BY <2>3, Zenon DEF ServerDies
  <2>4. CASE ServiceChanges BY <2>4, Zenon DEF ServiceChanges
  <2> QED BY <2>1, <2>2, <2>3, <2>4 DEF Host
<1>3. faults' = faults \/ Fault
  BY Zenon DEF Interrupt, SpawnBroken, Host, ServerBinds, ServerDies, ServiceChanges
<1> QED BY <1>1, <1>2, <1>3, FaultCount DEF TypeOK

LEMMA NextType == ASSUME TypeOK, [Next]_vars
                  PROVE  TypeOK'
<1>1. CASE UNCHANGED vars
  <2> USE <1>1 DEF vars, hostVars, lifeVars, tdVars, envVars, TypeOK
  <2>1. FlagsOK' BY Zenon DEF FlagsOK
  <2>2. PlaceOK' BY Zenon DEF PlaceOK
  <2> QED BY <2>1, <2>2
<1> QED BY <1>1, LaunchType, RecoverType, TeardownType, EnvironmentType
        DEF Next, Controller
-----------------------------------------------------------------------------
(* A verified teardown.                                                    *)

LEMMA InitSafe == Init => SafeInv
BY DEF Init, SafeInv, OrderInv, TunnelInv, DeadInv, SlotInv, VerifiedMeansGone, Checks

\* Outside of a teardown's checks only the order of the launch has to be kept.
LEMMA OutsideChecks == ASSUME pc' \notin Checks, stage' # "closed",
                              pc' \in {"slot", "spawn"} => ~tracked',
                              tunnel' = "unowned" => interrupted'
                       PROVE  SafeInv'
BY DEF SafeInv, OrderInv, TunnelInv, DeadInv, SlotInv, VerifiedMeansGone, Checks

LEMMA LaunchSafe == ASSUME TypeOK, SafeInv, Launch \/ Recover \/ Interrupt
                    PROVE  SafeInv'
<1> USE DEF Raise, Checks
<1>1. stage # "closed"
  BY DEF SafeInv, OrderInv, Launch, PrepareSlotActionDirectory, RefuseSpawn, SpawnServer,
     IdentifyServer, PollListener, LaunchTunnel, TerminateWithoutTunnel, Body,
     Recover, ResolveCandidate, RecoverTerminate, RecoverRemovePidFile,
     PersistOrphanRecovery, Interrupt
<1>2. CASE Launch
  <2>1. pc' \notin Checks /\ stage' # "closed"
    BY <1>1, <1>2, Zenon DEF Launch, PrepareSlotActionDirectory, RefuseSpawn, SpawnServer,
       IdentifyServer, PollListener, LaunchTunnel, TerminateWithoutTunnel, Body
  <2>2. pc' \in {"slot", "spawn"} => pc = "slot" /\ tracked' = tracked
    BY <1>2, Zenon DEF Launch, PrepareSlotActionDirectory, RefuseSpawn, SpawnServer,
       IdentifyServer, PollListener, LaunchTunnel, TerminateWithoutTunnel, Body
  <2>3. tunnel' \in {tunnel, "running"} /\ interrupted' = interrupted
    BY <1>2, Zenon DEF Launch, PrepareSlotActionDirectory, RefuseSpawn, SpawnServer,
       IdentifyServer, PollListener, LaunchTunnel, TerminateWithoutTunnel,
       TerminateAndVerify, Body, hostVars, envVars, Healthy, Fault
  <2> QED BY <2>1, <2>2, <2>3, OutsideChecks DEF SafeInv, OrderInv
<1>3. CASE Recover
  <2>1. pc' \notin Checks \cup {"slot", "spawn"} /\ stage' # "closed"
    BY <1>1, <1>3, Zenon DEF Recover, ResolveCandidate, RecoverTerminate,
       RecoverRemovePidFile, PersistOrphanRecovery
  <2>2. UNCHANGED <<tunnel, interrupted>>
    BY <1>3, Zenon DEF Recover, ResolveCandidate, RecoverTerminate, TerminateAndVerify,
       RecoverRemovePidFile, PersistOrphanRecovery, hostVars, envVars, Healthy, Fault
  <2> QED BY <2>1, <2>2, OutsideChecks DEF SafeInv, OrderInv
<1>4. CASE Interrupt
  <2>1. pc' \in {"td_local", "ended"} /\ stage' = stage /\ interrupted' = TRUE
    BY <1>4, Zenon DEF Interrupt
  <2> QED BY <1>1, <2>1, OutsideChecks
<1> QED BY <1>2, <1>3, <1>4

LEMMA HostSafe == ASSUME TypeOK, SafeInv, Host
                  PROVE  SafeInv'
<1> USE DEF SafeInv, hostVars, lifeVars, tdVars, envVars, Host, ServerBinds, ServerDies,
            ServiceChanges, Alive, Checks
<1>1. OrderInv' BY DEF OrderInv
<1>2. TunnelInv' BY DEF TunnelInv
<1>3. DeadInv' BY DEF DeadInv
<1>4. SlotInv' BY DEF SlotInv
<1>5. VerifiedMeansGone' BY DEF VerifiedMeansGone
<1> QED BY <1>1, <1>2, <1>3, <1>4, <1>5

LEMMA TeardownSafe == ASSUME TypeOK, SafeInv, Teardown
                      PROVE  SafeInv'
<1> USE DEF SafeInv, OrderInv, TunnelInv, DeadInv, SlotInv, VerifiedMeansGone,
            hostVars, lifeVars, tdVars, envVars, Healthy, Fault, Alive, Checks
<1>1. CASE StopLocalProcesses BY <1>1 DEF StopLocalProcesses
<1>2. CASE StopServer
  BY <1>2 DEF StopServer, TerminateAndVerify, AfterTerminate, TypeOK, FlagsOK
<1>3. CASE RemovePidFile
  <2>1. /\ pc = "td_pid" /\ pc' = "td_service"
        /\ UNCHANGED <<proc, slot, tunnel, lifeVars, stage, interrupted>>
    BY <1>3 DEF RemovePidFile
  <2>2. good' => good /\ ~pidFile'
    BY <1>3, Zenon DEF RemovePidFile
  <2> QED BY <2>1, <2>2
<1>4. CASE StopSlot
  <2>1. CASE CheckSlotAbsent
    <3>1. /\ pc' = "td_verdict" /\ slot' = slot
          /\ good' => good /\ ~slot
      BY <2>1, Zenon DEF CheckSlotAbsent
    <3>2. pc = "td_slot" /\ UNCHANGED <<proc, pidFile, tunnel, lifeVars, stage>>
      BY <1>4, Zenon DEF StopSlot
    <3>3. UNCHANGED interrupted
      BY <2>1, Zenon DEF CheckSlotAbsent
    <3> QED BY <3>1, <3>2, <3>3
  <2>2. CASE RemoveSlotDirectory
    <3>1. \/ pc' = "td_absent" /\ ~slot'
          \/ pc' = "td_verdict" /\ ~good'
      BY <2>2, Zenon DEF RemoveSlotDirectory
    <3>2. good' => good
      BY <2>2, Zenon DEF RemoveSlotDirectory
    <3>3. pc = "td_slot" /\ UNCHANGED <<proc, pidFile, tunnel, lifeVars, stage>>
      BY <1>4, Zenon DEF StopSlot
    <3>4. UNCHANGED interrupted
      BY <2>2, Zenon DEF RemoveSlotDirectory
    <3> QED BY <3>1, <3>2, <3>3, <3>4
  <2> QED BY <1>4, <2>1, <2>2 DEF StopSlot
<1>5. CASE VerifySlotRemoved  BY <1>5 DEF VerifySlotRemoved
<1>6. CASE Verdict
  <2>1. /\ pc \in {"td_verdict", "td_removed"}
        /\ UNCHANGED <<hostVars, tracked, good, interrupted>>
    BY <1>6, Zenon DEF Verdict
  <2>2. pc' \notin Checks \cup {"slot", "spawn"}
    BY <1>6, Zenon DEF Verdict
  <2>3. stage' = "closed" => good /\ pc' = "ended"
    BY <1>6, <2>1 DEF Verdict, Closes
  <2> QED BY <2>1, <2>2, <2>3
<1>7. CASE CheckService BY <1>7 DEF CheckService
<1> QED BY <1>1, <1>2, <1>3, <1>4, <1>5, <1>6, <1>7 DEF Teardown

LEMMA NextSafe == ASSUME TypeOK, SafeInv, [Next]_vars
                  PROVE  SafeInv'
<1>1. CASE UNCHANGED vars
  BY <1>1 DEF vars, hostVars, lifeVars, tdVars, envVars, SafeInv, OrderInv, TunnelInv,
              DeadInv, SlotInv, VerifiedMeansGone, Alive
<1> QED BY <1>1, LaunchSafe, HostSafe, TeardownSafe DEF Next, Controller

-----------------------------------------------------------------------------
\* The inductive invariant holds in every reachable state.
THEOREM Invariance == Spec => []IInv
<1>1. Init => IInv
  BY InitType, InitSafe DEF IInv
<1>2. IInv /\ [Next]_vars => IInv'
  BY NextType, NextSafe DEF IInv
<1> QED BY <1>1, <1>2, PTL DEF Spec

\* Every reachable state is well typed.
THEOREM TypeCorrect == Spec => []TypeOK
<1>1. IInv => TypeOK BY DEF IInv
<1> QED BY Invariance, <1>1, PTL

\* However many commands fail or lose their answer, and wherever the operator
\* interrupts, a lifecycle is closed only when the tunnel it names is down, the
\* slot directory gone, the tracked server dead and its PID file removed. A tunnel
\* that nothing names is left by an interrupt of the launch only.
THEOREM VerifiedTeardown == Spec => []VerifiedMeansGone
<1>1. IInv => VerifiedMeansGone BY DEF IInv, SafeInv
<1> QED BY Invariance, <1>1, PTL

-----------------------------------------------------------------------------
(* What a teardown without a fault comes to.                               *)

\* The slot directory is there although preparing it failed, or it is gone and
\* nothing recorded its removal.
Unrecorded == slotRequired = ~slot /\ ~slotReceipt

\* A removal is recorded of a directory that was prepared and is gone, and an
\* attempt without a fault has lost a check over the production service or the
\* slot directory only.
CleanInv ==
  /\ pc = "slot" => ~slotReceipt
  /\ pc \in {"td_absent", "td_removed"} => slotRequired
  /\ slotReceipt => slotRequired /\ ~slot
  /\ pc \in Checks /\ ~faulty => \/ good \/ serviceChanged
                                 \/ pc = "td_verdict" /\ Unrecorded
  /\ CleanAttemptVerifies

\* Before the teardown the slot directory is touched while it is prepared only.
LEMMA OutsideClean ==
  ASSUME TypeOK, CleanInv, Launch \/ Recover \/ Interrupt
  PROVE  CleanInv'
<1>1. CASE PrepareSlotActionDirectory
  BY <1>1 DEF PrepareSlotActionDirectory, Raise, CleanInv, CleanAttemptVerifies, Checks
<1>2. CASE Interrupt
  <2>1. /\ UNCHANGED <<slotRequired, slotReceipt>>
        /\ pc = "slot" \/ slot' = slot
        /\ interrupted' = TRUE
        /\ pc' \in {"td_local", "ended"}
    BY <1>2, SMT DEF Interrupt, Raise, lifeVars
  <2> QED
    BY <2>1 DEF CleanInv, CleanAttemptVerifies, Checks
<1>3. CASE ~(PrepareSlotActionDirectory \/ Interrupt)
  <2>1. /\ UNCHANGED <<slot, slotRequired, slotReceipt>>
        /\ pc' \notin Checks \cup {"slot", "ended"}
    BY <1>3, Zenon DEF Launch, RefuseSpawn, SpawnServer, IdentifyServer, PollListener,
       LaunchTunnel, TerminateWithoutTunnel, Body, Recover, ResolveCandidate,
       RecoverTerminate, RecoverRemovePidFile, PersistOrphanRecovery, Raise,
       hostVars, lifeVars, Checks
  <2> QED
    BY <2>1 DEF CleanInv, CleanAttemptVerifies, Checks
<1> QED
  BY <1>1, <1>2, <1>3

LEMMA TeardownClean ==
  ASSUME TypeOK, SlotInv, CleanInv, Teardown
  PROVE  CleanInv'
<1> USE DEF TypeOK, FlagsOK, CleanInv, CleanAttemptVerifies, Checks, Unrecorded
<1>1. CASE StopLocalProcesses
  <2>1. /\ pc' = "td_server" /\ (good' \/ faulty')
        /\ UNCHANGED <<slot, slotRequired, slotReceipt, serviceChanged>>
    BY <1>1, Zenon DEF StopLocalProcesses, Fault, lifeVars, envVars
  <2> QED
    BY <2>1
<1>2. CASE StopServer
  <2>1. /\ pc = "td_server" /\ pc' \in {"td_pid", "td_service"}
        /\ UNCHANGED <<slot, slotRequired, slotReceipt, serviceChanged>>
    BY <1>2, Zenon DEF StopServer, TerminateAndVerify, AfterTerminate, lifeVars, envVars,
       Healthy, Fault
  <2>2. faulty' \/ (faulty' = faulty /\ good' = good)
    BY <1>2 DEF StopServer, TerminateAndVerify, Healthy, Fault
  <2> QED
    BY <2>1, <2>2
<1>3. CASE RemovePidFile
  <2>1. /\ pc = "td_pid" /\ pc' = "td_service"
        /\ UNCHANGED <<slot, slotRequired, slotReceipt, serviceChanged>>
    BY <1>3, Zenon DEF RemovePidFile, lifeVars, envVars, Healthy, Fault
  <2>2. faulty' \/ (faulty' = faulty /\ good' = good)
    BY <1>3, Zenon DEF RemovePidFile, Healthy, Fault
  <2> QED
    BY <2>1, <2>2
<1>4. CASE StopSlot
  <2>1. pc = "td_slot" /\ UNCHANGED <<slotRequired, slotReceipt, serviceChanged>>
    BY <1>4, Zenon DEF StopSlot, CheckSlotAbsent, RemoveSlotDirectory, lifeVars, envVars,
       Healthy, Fault
  <2>2. CASE CheckSlotAbsent
    <3>1. /\ slotRequired => slotReceipt
          /\ pc' = "td_verdict" /\ slot' = slot
          /\ faulty' \/ (faulty' = faulty /\ good' = (good /\ ~slot))
      BY <2>2, Zenon DEF CheckSlotAbsent, Healthy, Fault
    <3> QED
      BY <2>1, <3>1
  <2>3. CASE RemoveSlotDirectory
    <3>1. /\ slotRequired /\ ~slotReceipt
          /\ \/ pc' = "td_absent" /\ ~slot' /\ faulty' = faulty /\ good' = good
             \/ pc' = "td_verdict" /\ faulty'
             \/ pc' = "td_verdict" /\ ~slot /\ slot' = slot
      BY <2>3 DEF RemoveSlotDirectory, Healthy, Fault
    <3>2. pc' = "td_verdict" /\ slot' = slot /\ ~slot => Unrecorded'
      BY <2>1, <3>1
    <3>3. pc' = "td_absent" /\ good' = good /\ faulty' = faulty 
           => good' \/ faulty' \/ serviceChanged'
      BY <2>1
    <3> QED
      BY <2>1, <3>1, <3>2, <3>3, Zenon
  <2> QED
    BY <1>4, <2>2, <2>3 DEF StopSlot
<1>5. CASE VerifySlotRemoved
  <2>1. /\ pc = "td_absent" /\ pc' \in {"td_removed", "td_verdict"}
        /\ UNCHANGED <<slot, slotRequired, slotReceipt, serviceChanged>>
        /\ faulty' \/ (faulty' = faulty /\ good' = good)
    BY <1>5, Zenon DEF VerifySlotRemoved, hostVars, lifeVars, envVars, Healthy, Fault
  <2>2. slotRequired /\ ~slot /\ (faulty \/ good \/ serviceChanged)
    BY <2>1 DEF SlotInv
  <2> QED
    BY <2>1, <2>2, Zenon
<1>6. CASE Verdict
  <2>1. /\ pc \in {"td_verdict", "td_removed"} /\ pc' \in {"td_local", "ended"}
        /\ UNCHANGED <<slot, slotRequired, serviceChanged>>
        /\ slotReceipt' = (slotReceipt \/ pc = "td_removed")
    BY <1>6, Zenon DEF Verdict, hostVars, lifeVars, envVars, Healthy, Fault
  <2>2. faulty' \/ stage' = "closed" \/ (~good /\ faulty' = faulty)
    BY <1>6 DEF Verdict, Closes, Healthy, Fault
  <2>3. slotReceipt' => slotRequired /\ ~slot
    BY <2>1 DEF SlotInv
  <2> QED
    BY <2>1, <2>2, <2>3
<1>7. CASE CheckService
  <2>1. /\ pc = "td_service" /\ pc' = "td_slot"
        /\ UNCHANGED <<slot, slotRequired, slotReceipt, serviceChanged>>
    BY <1>7, Zenon DEF CheckService, hostVars, lifeVars, envVars, Healthy, Fault
  <2>2. faulty' \/ (faulty' = faulty /\ (good' = good \/ serviceChanged))
    BY <1>7 DEF CheckService, Healthy, Fault
  <2> QED
    BY <2>1, <2>2
<1> QED
  BY <1>1, <1>2, <1>3, <1>4, <1>5, <1>6, <1>7 DEF Teardown

\* A teardown attempt that met no fault verifies, unless the production service
\* has changed since the preflight, or nobody knows of the preparation or the
\* removal of the slot directory (remove_slot_action_directory and the receipt
\* _stop_live_lifecycle caches).
THEOREM CleanTeardown == Spec => []CleanAttemptVerifies
<1>1. ASSUME Init PROVE CleanInv
  BY <1>1 DEF Init, CleanInv, CleanAttemptVerifies, Checks
<1>2. ASSUME IInv, CleanInv, [Next]_vars PROVE CleanInv'
  <2>1. CASE UNCHANGED vars \/ Host
    <3>1. UNCHANGED <<pc, slot, slotRequired, slotReceipt, faulty, good, stage, interrupted>>
      BY <2>1 DEF vars, hostVars, lifeVars, tdVars, envVars, Host, ServerBinds, ServerDies,
                  ServiceChanges
    <3>2. serviceChanged => serviceChanged'
      BY <2>1 DEF vars, envVars, Host, ServerBinds, ServerDies, ServiceChanges
    <3> QED
      BY <1>2, <3>1, <3>2 DEF CleanInv, CleanAttemptVerifies, Unrecorded
  <2> QED
    BY <1>2, <2>1, OutsideClean, TeardownClean DEF Next, Controller, IInv, SafeInv
<1>3. CleanInv => CleanAttemptVerifies
  BY DEF CleanInv
<1> QED
  BY <1>1, <1>2, <1>3, Invariance, PTL DEF Spec

-----------------------------------------------------------------------------
(* The length of a run.                                                    *)

\* The longest way from each place to the end of the call of the teardown it
\* leads to, the place's own step included.
StepsLeft ==
  [slot |-> 34, spawn |-> 33, identify |-> 32, poll |-> 31, tunnel |-> 30,
   untunnel |-> 29, active |-> 29, resolve |-> 18, terminate |-> 17,
   remove_pid |-> 16, persist |-> 15, td_local |-> 7, td_server |-> 6,
   td_pid |-> 5, td_service |-> 4, td_slot |-> 3, td_absent |-> 2,
   td_removed |-> 1, td_verdict |-> 1, ended |-> 0]

\* The second attempt of a call, and the call of the outer finally.
Repeats == (IF attempt = 0 THEN 7 ELSE 0) + (IF call = "try" THEN 14 ELSE 0)

Left == StepsLeft[pc] + (IF InTeardown THEN Repeats ELSE 0)

\* Every step of the controller, and an interrupt, brings it nearer to its end;
\* what the host does meanwhile takes nothing back.
StepsDescend ==
  [][/\ Controller \/ Interrupt => Left' < Left
     /\ Host => Left' = Left]_vars

\* The controller has at most 34 steps, and none are left only when it has
\* ended. A server it owned is then dead, or reported in a teardown failure, or
\* an interrupt cut the teardown off.
EndsSettled ==
  /\ Left \in 0 .. 34
  /\ Left = 0 <=> pc = "ended"
  /\ pc = "ended" /\ tracked => \/ ~Alive(proc)
                                \/ "teardown_failure" \in evidence
                                \/ interrupted

\* The outer finally is entered once, and no teardown ends without a word.
EndInv ==
  /\ ~InTeardown /\ pc # "ended" => call = "try"
  /\ pc = "ended" => \/ stage = "closed" \/ interrupted
                     \/ "teardown_failure" \in evidence

LEMMA StepsLeftAt ==
  /\ StepsLeft["slot"] = 34 /\ StepsLeft["spawn"] = 33 /\ StepsLeft["identify"] = 32
  /\ StepsLeft["poll"] = 31 /\ StepsLeft["tunnel"] = 30 /\ StepsLeft["untunnel"] = 29
  /\ StepsLeft["active"] = 29 /\ StepsLeft["resolve"] = 18 /\ StepsLeft["terminate"] = 17
  /\ StepsLeft["remove_pid"] = 16 /\ StepsLeft["persist"] = 15 /\ StepsLeft["td_local"] = 7
  /\ StepsLeft["td_server"] = 6 /\ StepsLeft["td_pid"] = 5 /\ StepsLeft["td_service"] = 4
  /\ StepsLeft["td_slot"] = 3 /\ StepsLeft["td_absent"] = 2 /\ StepsLeft["td_removed"] = 1
  /\ StepsLeft["td_verdict"] = 1 /\ StepsLeft["ended"] = 0
BY DEF StepsLeft

LEMMA LeftBounded == ASSUME TypeOK
                     PROVE  Left \in 0 .. 34 /\ (Left = 0 <=> pc = "ended")
<1>1. pc \in Pcs
  BY DEF TypeOK, PlaceOK
<1>2. CASE InTeardown
  BY <1>2, StepsLeftAt DEF Left, Repeats, InTeardown
<1>3. CASE ~InTeardown
  BY <1>1, <1>3, StepsLeftAt DEF Left, InTeardown, Pcs
<1> QED BY <1>2, <1>3

\* Where an error or an interrupt leads: to the beginning of the last call.
LEMMA RaiseDescends == ASSUME TypeOK, EndInv, Raise, pc # "ended",
                              InTeardown => call = "try"
                       PROVE  Left' < Left /\ EndInv'
<1>1. Left' = 14 /\ EndInv'
  BY StepsLeftAt DEF Raise, Left, Repeats, InTeardown, EndInv
<1>2. CASE InTeardown
  BY <1>1, <1>2, StepsLeftAt DEF Left, Repeats, InTeardown
<1>3. CASE ~InTeardown
  BY <1>1, <1>3, StepsLeftAt DEF Left, InTeardown, TypeOK, PlaceOK, Pcs
<1> QED BY <1>2, <1>3, <1>1

LEMMA LaunchDescends == ASSUME TypeOK, EndInv, Launch \/ Recover
                        PROVE  Left' < Left /\ EndInv'
<1>1. \/ Raise /\ pc # "ended" /\ ~InTeardown
      \/ /\ UNCHANGED call
         /\ \/ pc = "slot" /\ pc' = "spawn"
            \/ pc = "spawn" /\ pc' \in {"identify", "resolve"}
            \/ pc = "identify" /\ pc' \in {"poll", "resolve"}
            \/ pc = "poll" /\ pc' \in {"tunnel", "resolve"}
            \/ pc = "resolve" /\ pc' \in {"terminate", "persist"}
            \/ pc = "terminate" /\ pc' = "remove_pid"
            \/ pc = "remove_pid" /\ pc' = "persist"
            \/ pc = "tunnel" /\ pc' \in {"active", "untunnel"}
            \/ pc = "active" /\ pc' = "td_local" /\ UNCHANGED attempt
  BY Zenon DEF Launch, PrepareSlotActionDirectory, RefuseSpawn, SpawnServer, IdentifyServer,
     PollListener, LaunchTunnel, TerminateWithoutTunnel, Body, Recover, ResolveCandidate,
     RecoverTerminate, RecoverRemovePidFile, PersistOrphanRecovery, InTeardown
<1>2. CASE Raise /\ pc # "ended" /\ ~InTeardown
  BY <1>2, RaiseDescends
<1>3. CASE ~(Raise /\ pc # "ended" /\ ~InTeardown)
  BY <1>1, <1>3, StepsLeftAt DEF Left, Repeats, InTeardown, EndInv, TypeOK, PlaceOK
<1> QED BY <1>2, <1>3

LEMMA TeardownDescends == ASSUME TypeOK, EndInv, Teardown
                          PROVE  Left' < Left /\ EndInv'
<1>1. CASE Verdict
  <2>1. /\ pc \in {"td_verdict", "td_removed"}
        /\ \/ pc' = "ended" /\ (stage' = "closed" \/ "teardown_failure" \in evidence')
           \/ pc' = "td_local" /\ attempt = 0 /\ attempt' = 1 /\ call' = call
           \/ pc' = "td_local" /\ attempt' = 0 /\ call = "try" /\ call' = "final"
    BY <1>1 DEF Verdict, LastAttempt, ReportFailure, TypeOK, PlaceOK
  <2>2. attempt \in {0, 1}
    BY DEF TypeOK, PlaceOK
  <2> QED BY <2>1, <2>2, StepsLeftAt DEF Left, Repeats, InTeardown, EndInv
<1>2. CASE ~Verdict
  <2>1. /\ UNCHANGED <<attempt, call>>
        /\ \/ pc = "td_local" /\ pc' = "td_server"
           \/ pc = "td_server" /\ pc' \in {"td_pid", "td_service"}
           \/ pc = "td_pid" /\ pc' = "td_service"
           \/ pc = "td_service" /\ pc' = "td_slot"
           \/ pc = "td_slot" /\ pc' \in {"td_absent", "td_verdict"}
           \/ pc = "td_absent" /\ pc' \in {"td_removed", "td_verdict"}
    BY <1>2, Zenon DEF Teardown, StopLocalProcesses, StopServer, AfterTerminate,
       RemovePidFile, CheckService, StopSlot, CheckSlotAbsent, RemoveSlotDirectory,
       VerifySlotRemoved
  <2> QED BY <2>1, StepsLeftAt DEF Left, Repeats, InTeardown, EndInv, TypeOK, PlaceOK
<1> QED BY <1>1, <1>2

LEMMA InterruptDescends == ASSUME TypeOK, EndInv, Interrupt
                           PROVE  Left' < Left /\ EndInv'
<1>1. CASE InTeardown /\ call = "final"
  <2>1. pc' = "ended" /\ interrupted' = TRUE /\ pc # "ended"
    BY <1>1, Zenon DEF Interrupt
  <2> QED BY <2>1, LeftBounded, StepsLeftAt DEF Left, InTeardown, EndInv
<1>2. CASE ~(InTeardown /\ call = "final")
  <2>1. Raise /\ pc # "ended"
    BY <1>2, Zenon DEF Interrupt
  <2> QED BY <1>2, <2>1, RaiseDescends DEF TypeOK, PlaceOK
<1> QED BY <1>1, <1>2

LEMMA HostKeepsSteps == ASSUME EndInv, Host \/ UNCHANGED vars
                        PROVE  Left' = Left /\ EndInv'
<1>1. UNCHANGED <<pc, attempt, call, stage, interrupted, evidence>>
  BY DEF Host, ServerBinds, ServerDies, ServiceChanges, vars, tdVars, envVars
<1> QED BY <1>1 DEF Left, Repeats, InTeardown, EndInv

\* The controller ends after at most 34 steps of its own, wherever commands fail
\* and the operator interrupts, and leaves no server that it owned unreported
\* (_recover_orphan_server, _ensure_verified_teardown, _persist_teardown_failure).
THEOREM ControllerEndsInBound == Spec => []EndsSettled /\ StepsDescend
<1>1. Init => EndInv
  BY DEF Init, EndInv, InTeardown
<1>2. IInv /\ EndInv /\ [Next]_vars => EndInv'
  BY LaunchDescends, TeardownDescends, InterruptDescends, HostKeepsSteps
  DEF IInv, Next, Controller
<1>3. IInv /\ EndInv => EndsSettled
  BY LeftBounded DEF IInv, SafeInv, VerifiedMeansGone, EndInv, EndsSettled
<1>4. IInv /\ EndInv /\ [Next]_vars =>
        [/\ Controller \/ Interrupt => Left' < Left
         /\ Host => Left' = Left]_vars
  BY LaunchDescends, TeardownDescends, InterruptDescends, HostKeepsSteps
  DEF IInv, Controller
<1> QED
  BY <1>1, <1>2, <1>3, <1>4, Invariance, PTL DEF Spec, StepsDescend
=============================================================================
