----------------------- MODULE DetachedLaunch_proofs ------------------------
(***************************************************************************)
(* Proofs about GenerationLease and DetachedLaunch, for any number of      *)
(* runs, launchers, checkouts, result paths and authorizations. First the  *)
(* lease: type correctness, that effects stay under it, that an            *)
(* authorization is used once and its quarantine audited, remote-first     *)
(* release, and the refinement of HostQuarantine. Then the launch: the     *)
(* composition is a behaviour of GenerationLease, so all of this holds of  *)
(* controllers that are spawned and killed by launchers, and the promises  *)
(* of a launch.                                                            *)
(***************************************************************************)
EXTENDS DetachedLaunch, TLAPS

USE LeaseAssumption

-----------------------------------------------------------------------------
(* Type correctness.                                                       *)

LEMMA InitType == Init => TypeOK
BY DEF Init, TypeOK, Pcs, Ended, Stages, Artifacts, ServerStates

LEMMA AcquireType == ASSUME TypeOK, NEW r \in Runs, Acquire(r)
                     PROVE  TypeOK'
<1> USE DEF TypeOK, Pcs, Ended, Stages, Artifacts, vars, locks, host, flags,
            Goto, SetStage, Persist, Fail, KeepFlags
<1>1. CASE Revalidate(r)          BY <1>1 DEF Revalidate
<1>2. CASE AcquireOutputLock(r)
  <2>1. outputLock' \in [Outputs -> Runs \cup {None}]
    BY <1>2 DEF AcquireOutputLock
  <2>2. pc' \in [Runs -> Pcs]
    BY <1>2 DEF AcquireOutputLock
  <2> QED BY <1>2, <2>1, <2>2 DEF AcquireOutputLock
<1>3. CASE PrepareConfig(r)       BY <1>3 DEF PrepareConfig
<1>4. CASE AcquireLocalLease(r)   BY <1>4 DEF AcquireLocalLease
<1>5. CASE RequireRemoteAbsent(r) BY <1>5 DEF RequireRemoteAbsent
<1>6. CASE MkdirRemoteLease(r)    BY <1>6 DEF MkdirRemoteLease
<1>7. CASE VerifyRemoteLease(r)   BY <1>7 DEF VerifyRemoteLease
<1>8. CASE UndoRemoteLease(r)     BY <1>8 DEF UndoRemoteLease
<1>9. CASE CheckUndo(r)           BY <1>9 DEF CheckUndo, QuarantineAcquire
<1>10. CASE RollbackLocalLease(r) BY <1>10 DEF RollbackLocalLease, QuarantineAcquire
<1> QED BY <1>1, <1>2, <1>3, <1>4, <1>5, <1>6, <1>7, <1>8, <1>9, <1>10 DEF Acquire

LEMMA ExecuteType == ASSUME TypeOK, NEW r \in Runs, Execute(r)
                     PROVE  TypeOK'
<1> USE DEF TypeOK, Pcs, Ended, Stages, Artifacts, ServerStates, vars, locks,
            host, flags, Goto, SetStage, Persist, Fail, KeepFlags
<1>1. CASE PrepareClaim(r)         BY <1>1 DEF PrepareClaim
<1>2. CASE ConsumeAuthorization(r) BY <1>2 DEF ConsumeAuthorization
<1>3. CASE PrepareSlotActionDirectory(r)
  BY <1>3 DEF PrepareSlotActionDirectory
<1>4. CASE LaunchServer(r)         BY <1>4 DEF LaunchServer
<1>5. CASE LaunchTunnel(r)         BY <1>5 DEF LaunchTunnel
<1>6. CASE RunCells(r)
  <2>1. PICK as \in SUBSET Artifacts : Persist(r, as)
    BY <1>6 DEF RunCells
  <2>2. /\ pc' \in [Runs -> Pcs] /\ failed' \subseteq Runs
        /\ UNCHANGED <<leaseAcquired, releaseAttempted, released, evidenceLost,
                       stage, locks, host, tries>>
    BY <1>6 DEF RunCells
  <2> QED BY <2>1, <2>2
<1> QED BY <1>1, <1>2, <1>3, <1>4, <1>5, <1>6 DEF Execute

LEMMA FinishType == ASSUME TypeOK, NEW r \in Runs, Finish(r)
                    PROVE  TypeOK'
<1> USE DEF TypeOK, Pcs, Ended, Stages, Artifacts, ServerStates, vars, locks,
            host, flags, Goto, SetStage, Persist, Fail, KeepFlags
<1>1. CASE VerifyTeardown(r)
  BY <1>1 DEF VerifyTeardown, StopLiveLifecycle
<1>2. CASE FailTeardown(r)
  BY <1>2 DEF FailTeardown, StopLiveLifecycle, LastTry
<1>3. CASE FinalChecks(r)           BY <1>3 DEF FinalChecks
<1>4. CASE ReleaseRemoteLease(r)    BY <1>4 DEF ReleaseRemoteLease, ReleaseError
<1>5. CASE CheckRemoteReleased(r)   BY <1>5 DEF CheckRemoteReleased, ReleaseError
<1>6. CASE ReleaseLocalLease(r)
  <2>1. localLock' \in [Roots -> Runs \cup {None}]
    BY <1>6 DEF ReleaseLocalLease
  <2>2. pc' \in [Runs -> Pcs]
    BY <1>6 DEF ReleaseLocalLease, ReleaseError
  <2>3. released' \subseteq Runs /\ failed' \subseteq Runs
    BY <1>6 DEF ReleaseLocalLease, ReleaseError
  <2> QED BY <1>6, <2>1, <2>2, <2>3 DEF ReleaseLocalLease
<1>7. CASE WriteSubstrateReceipt(r) BY <1>7 DEF WriteSubstrateReceipt
<1>8. CASE SkipTeardown(r)          BY <1>8 DEF SkipTeardown
<1>9. CASE ReleaseGate(r)           BY <1>9 DEF ReleaseGate
<1>10. CASE Audit(r)
  <2>1. PICK gone \in SUBSET Removed(r), written \in SUBSET {"lease_audit"} :
          artifacts' = [artifacts EXCEPT ![OutputOf[r]] = (@ \ gone) \cup written]
    BY <1>10 DEF Audit
  <2>2. evidenceLost' \subseteq Runs
    BY <1>10 DEF Audit
  <2>3. /\ pc' = [pc EXCEPT ![r] = "unlock"]
        /\ UNCHANGED <<stage, locks, host, leaseAcquired, releaseAttempted,
                       released, failed, tries>>
    BY <1>10 DEF Audit
  <2> QED BY <2>1, <2>2, <2>3
<1>11. CASE ReleaseOutputLock(r)    BY <1>11 DEF ReleaseOutputLock
<1> QED BY <1>1, <1>2, <1>3, <1>4, <1>5, <1>6, <1>7, <1>8, <1>9, <1>10, <1>11
        DEF Finish

LEMMA CutType == ASSUME TypeOK, NEW r \in Runs, Cut(r)
                 PROVE  TypeOK'
<1> USE DEF TypeOK, Pcs, Ended, Stages, ServerStates, vars, locks, host, flags,
            Goto, SetStage, Fail, KeepFlags
<1>1. CASE InterruptAcquire(r)  BY <1>1 DEF InterruptAcquire
<1>2. CASE InterruptTeardown(r)
  BY <1>2 DEF InterruptTeardown, StopLiveLifecycle
<1>3. CASE InterruptGate(r)     BY <1>3 DEF InterruptGate
<1>4. CASE Crash(r)             BY <1>4 DEF Crash
<1> QED BY <1>1, <1>2, <1>3, <1>4 DEF Cut, Interrupt

LEMMA NextType == TypeOK /\ [Next]_vars => TypeOK'
<1> SUFFICES ASSUME TypeOK, [Next]_vars PROVE TypeOK'
  OBVIOUS
<1>1. CASE UNCHANGED vars
  BY <1>1 DEF TypeOK, vars, locks, host, flags
<1>2. ASSUME NEW r \in Runs, Step(r) PROVE TypeOK'
  BY <1>2, AcquireType, ExecuteType, FinishType DEF Step
<1>3. ASSUME NEW r \in Runs, Cut(r) PROVE TypeOK'
  BY <1>3, CutType
<1> QED BY <1>1, <1>2, <1>3 DEF Next

\* Every variable keeps its type, whatever the number of runs.
THEOREM TypeCorrect == Spec => []TypeOK
BY InitType, NextType, PTL DEF Spec

-----------------------------------------------------------------------------
(* The inductive invariant.                                                *)

PreLease  == {"start", "checked", "locked", "prepared", "probing", "mkdir",
              "verify", "undo", "undo_check", "rollback"}
Leased    == {"leased", "claimed", "launching", "slot_ready", "served",
              "active", "teardown", "quiesce"}
Releasing == {"release", "release_check", "release_local"}

\* What the flags and the stage say of where a run is.
FlagsInv ==
  \A r \in Runs :
    /\ pc[r] \in PreLease =>
         r \notin leaseAcquired /\ r \notin releaseAttempted /\ ~LifecycleStarted(r)
    /\ pc[r] \in Leased => r \in leaseAcquired /\ r \notin releaseAttempted
    /\ pc[r] \in {"leased", "claimed"} => ~LifecycleStarted(r)
    /\ pc[r] \in {"launching", "slot_ready", "served"} => stage[r] = "launching"
    /\ pc[r] = "active" => stage[r] = "active"
    /\ pc[r] = "teardown" => stage[r] \in {"active", "teardown"}
    /\ pc[r] = "quiesce" => stage[r] = "closed"
    /\ pc[r] \in Releasing => r \in releaseAttempted

\* A started lifecycle has the lease, and no release is attempted before its
\* teardown is verified. This is what makes the lease a quarantine marker.
GateInv ==
  \A r \in Runs :
    /\ LifecycleStarted(r) => r \in leaseAcquired
    /\ r \in releaseAttempted /\ LifecycleStarted(r) => TeardownVerified(r)
    /\ server[r] = "tracked" => LifecycleStarted(r) /\ ~TeardownVerified(r)

\* Who holds the two parts of the lease.
HoldInv ==
  \A r \in Runs :
    /\ pc[r] \in {"probing", "mkdir", "verify", "undo", "undo_check",
                  "rollback", "release", "release_check", "release_local"}
         => localLock[RootOf[r]] = r
    /\ pc[r] \in {"verify", "undo", "release"} => remoteLease = r
    /\ r \in leaseAcquired /\ r \notin releaseAttempted =>
         remoteLease = r /\ localLock[RootOf[r]] = r
    /\ r \in leaseAcquired /\ remoteLease = r => localLock[RootOf[r]] = r
    /\ pc[r] = "release_local" => remoteLease # r

IInv == TypeOK /\ FlagsInv /\ GateInv /\ HoldInv

USE DEF TypeOK, PreLease, Leased, Releasing, LifecycleStarted, TeardownVerified

LEMMA AcquireInv == ASSUME IInv, NEW r \in Runs, Acquire(r)
                  PROVE  FlagsInv' /\ GateInv' /\ HoldInv'
<1> USE DEF IInv, FlagsInv, GateInv, HoldInv, vars, locks, host, flags, Goto,
            SetStage, Fail, KeepFlags
<1>1. CASE Revalidate(r)
  BY <1>1 DEF Revalidate
<1>2. CASE AcquireOutputLock(r)
  BY <1>2 DEF AcquireOutputLock
<1>3. CASE PrepareConfig(r)
  BY <1>3 DEF PrepareConfig
<1>4. CASE AcquireLocalLease(r)
  BY <1>4 DEF AcquireLocalLease
<1>5. CASE RequireRemoteAbsent(r)
  BY <1>5 DEF RequireRemoteAbsent
<1>6. CASE MkdirRemoteLease(r)
  BY <1>6 DEF MkdirRemoteLease
<1>7. CASE VerifyRemoteLease(r)
  BY <1>7 DEF VerifyRemoteLease
<1>8. CASE UndoRemoteLease(r)
  BY <1>8 DEF UndoRemoteLease
<1>9. CASE CheckUndo(r)
  BY <1>9 DEF CheckUndo, QuarantineAcquire
<1>10. CASE RollbackLocalLease(r)
  BY <1>10 DEF RollbackLocalLease, QuarantineAcquire
<1> QED BY <1>1, <1>2, <1>3, <1>4, <1>5, <1>6, <1>7, <1>8, <1>9, <1>10 DEF Acquire

LEMMA ExecuteInv == ASSUME IInv, NEW r \in Runs, Execute(r)
                  PROVE  FlagsInv' /\ GateInv' /\ HoldInv'
<1> USE DEF IInv, FlagsInv, GateInv, HoldInv, vars, locks, host, flags, Goto,
            SetStage, Fail, KeepFlags
<1>1. CASE PrepareClaim(r)
  BY <1>1 DEF PrepareClaim
<1>2. CASE ConsumeAuthorization(r)
  BY <1>2 DEF ConsumeAuthorization
<1>3. CASE PrepareSlotActionDirectory(r)
  BY <1>3 DEF PrepareSlotActionDirectory
<1>4. CASE LaunchServer(r)
  BY <1>4 DEF LaunchServer
<1>5. CASE LaunchTunnel(r)
  BY <1>5 DEF LaunchTunnel
<1>6. CASE RunCells(r)
  BY <1>6 DEF RunCells
<1> QED BY <1>1, <1>2, <1>3, <1>4, <1>5, <1>6 DEF Execute

LEMMA FinishInv == ASSUME IInv, NEW r \in Runs, Finish(r)
                 PROVE  FlagsInv' /\ GateInv' /\ HoldInv'
<1> USE DEF IInv, FlagsInv, GateInv, HoldInv, vars, locks, host, flags, Goto,
            SetStage, Fail, KeepFlags
<1>1. CASE VerifyTeardown(r)
  BY <1>1 DEF VerifyTeardown, StopLiveLifecycle, InTeardown, Verified
<1>2. CASE FailTeardown(r)
  BY <1>2 DEF FailTeardown, StopLiveLifecycle, InTeardown
<1>3. CASE FinalChecks(r)
  BY <1>3 DEF FinalChecks
<1>4. CASE ReleaseRemoteLease(r)
  BY <1>4 DEF ReleaseRemoteLease, ReleaseError
<1>5. CASE CheckRemoteReleased(r)
  BY <1>5 DEF CheckRemoteReleased, ReleaseError
<1>6. CASE ReleaseLocalLease(r)
  BY <1>6 DEF ReleaseLocalLease, ReleaseError
<1>7. CASE WriteSubstrateReceipt(r)
  BY <1>7 DEF WriteSubstrateReceipt
<1>8. CASE SkipTeardown(r)
  BY <1>8 DEF SkipTeardown
<1>9. CASE ReleaseGate(r)
  BY <1>9 DEF ReleaseGate, MayRelease
<1>10. CASE Audit(r)
  BY <1>10 DEF Audit
<1>11. CASE ReleaseOutputLock(r)
  BY <1>11 DEF ReleaseOutputLock
<1> QED BY <1>1, <1>2, <1>3, <1>4, <1>5, <1>6, <1>7, <1>8, <1>9, <1>10, <1>11 DEF Finish

LEMMA CutInv == ASSUME IInv, NEW r \in Runs, Cut(r)
                PROVE  FlagsInv' /\ GateInv' /\ HoldInv'
<1> USE DEF IInv, FlagsInv, GateInv, HoldInv, vars, locks, host, flags, Goto,
            SetStage, Fail, KeepFlags
<1>1. CASE InterruptAcquire(r)
  BY <1>1 DEF InterruptAcquire, Acquiring
<1>2. CASE InterruptTeardown(r)
  BY <1>2 DEF InterruptTeardown, StopLiveLifecycle, InTeardown
<1>3. CASE InterruptGate(r)
  BY <1>3 DEF InterruptGate
<1>4. CASE Crash(r)
  BY <1>4 DEF Crash, Ended
<1> QED BY <1>1, <1>2, <1>3, <1>4 DEF Cut, Interrupt

LEMMA InitInv == Init => IInv
<1> SUFFICES ASSUME Init PROVE IInv
  OBVIOUS
<1> QED BY InitType DEF Init, IInv, FlagsInv, GateInv, HoldInv

LEMMA NextInv == IInv /\ [Next]_vars => IInv'
<1> SUFFICES ASSUME IInv, [Next]_vars PROVE FlagsInv' /\ GateInv' /\ HoldInv'
  BY NextType DEF IInv
<1>1. CASE UNCHANGED vars
  BY <1>1 DEF IInv, FlagsInv, GateInv, HoldInv, vars, locks, host, flags
<1>2. ASSUME NEW r \in Runs, Step(r) PROVE FlagsInv' /\ GateInv' /\ HoldInv'
  BY <1>2, AcquireInv, ExecuteInv, FinishInv DEF Step
<1>3. ASSUME NEW r \in Runs, Cut(r) PROVE FlagsInv' /\ GateInv' /\ HoldInv'
  BY <1>3, CutInv
<1> QED BY <1>1, <1>2, <1>3 DEF Next

\* The inductive invariant holds in every reachable state.
THEOREM Invariance == Spec => []IInv
BY InitInv, NextInv, PTL DEF Spec

-----------------------------------------------------------------------------
(* The safety properties.                                                  *)

\* Side effects happen only under both parts of the lease, and an unverified
\* teardown keeps both.
THEOREM EffectsStayUnderLease == Spec => []EffectsUnderLease
<1>1. IInv => EffectsUnderLease
  BY DEF IInv, GateInv, HoldInv, EffectsUnderLease
<1> QED BY <1>1, Invariance, PTL

\* A server in the lifecycle object never outlives its marker.
THEOREM TrackedServersStayUnderLease == Spec => []TrackedServerUnderLease
<1>1. IInv => TrackedServerUnderLease
  BY DEF IInv, GateInv, HoldInv, TrackedServerUnderLease
<1> QED BY <1>1, Invariance, PTL

\* The remote part of the lease always goes first.
THEOREM ReleaseIsRemoteFirst == Spec => []RemoteReleasedFirst
<1>1. IInv => RemoteReleasedFirst
  BY DEF IInv, HoldInv, RemoteReleasedFirst
<1> QED BY <1>1, Invariance, PTL

\* The lease directory is removed by no one but the run that made it.
THEOREM LeaseRemovedByOwner == Spec => OwnerRemovesLease
<1>1. IInv /\ [Next]_vars =>
        [\A r \in Runs : remoteLease = r /\ remoteLease' # r => pc'[r] # pc[r]]_vars
  <2> SUFFICES ASSUME IInv, NEW q \in Runs, Step(q) \/ Cut(q),
                      NEW r \in Runs, remoteLease = r, remoteLease' # r
               PROVE  pc'[r] # pc[r]
    BY DEF Next
  <2> USE DEF IInv, HoldInv, Goto, Fail, locks, Ended
  <2>1. CASE UndoRemoteLease(q)
    BY <2>1 DEF UndoRemoteLease
  <2>2. CASE ReleaseRemoteLease(q)
    BY <2>2 DEF ReleaseRemoteLease, ReleaseError
  <2>3. CASE MkdirRemoteLease(q)
    BY <2>3, LeaseAssumption DEF MkdirRemoteLease
  <2>4. CASE ~(UndoRemoteLease(q) \/ ReleaseRemoteLease(q) \/ MkdirRemoteLease(q))
    BY <2>4 DEF Step, Cut, Interrupt, InterruptAcquire, InterruptTeardown,
       InterruptGate, Crash, Acquire, Execute, Finish, Revalidate,
       AcquireOutputLock, PrepareConfig, AcquireLocalLease,
       RequireRemoteAbsent, VerifyRemoteLease, CheckUndo, RollbackLocalLease,
       PrepareClaim, ConsumeAuthorization, PrepareSlotActionDirectory,
       LaunchServer, LaunchTunnel, RunCells, VerifyTeardown, FailTeardown,
       FinalChecks, CheckRemoteReleased, ReleaseLocalLease,
       WriteSubstrateReceipt, SkipTeardown, ReleaseGate, Audit, ReleaseOutputLock
  <2> QED BY <2>1, <2>2, <2>3, <2>4 DEF Cut
<1> QED BY <1>1, Invariance, PTL DEF Spec, OwnerRemovesLease

-----------------------------------------------------------------------------
(* Single use of an authorization.                                         *)

\* The marker of a consumed authorization is there to stop the next run.
ConsumedInv == \A r \in Runs : Consumed(r) => "consumed" \in artifacts[OutputOf[r]]

\* No step removes a consumed marker or an audit, and no step but
\* ConsumeAuthorization makes a run a consumer.
LEMMA MarkerStays ==
  ASSUME IInv, NEW q \in Runs, Step(q) \/ Cut(q)
  PROVE  /\ \A o \in Outputs : \A a \in {"consumed", "lease_audit"} :
              a \in artifacts[o] => a \in artifacts'[o]
         /\ \A r \in Runs : Consumed(r)' /\ ~Consumed(r) =>
              /\ r = q
              /\ "consumed" \notin artifacts[OutputOf[q]]
              /\ "consumed" \in artifacts'[OutputOf[q]]
<1> USE DEF IInv, FlagsInv, GateInv, Consumed, Goto, Fail, SetStage, Persist,
            Stages
<1>1. CASE Revalidate(q)
  BY <1>1 DEF Revalidate
<1>2. CASE AcquireOutputLock(q)
  BY <1>2 DEF AcquireOutputLock
<1>3. CASE PrepareConfig(q)
  BY <1>3 DEF PrepareConfig
<1>4. CASE AcquireLocalLease(q)
  BY <1>4 DEF AcquireLocalLease
<1>5. CASE RequireRemoteAbsent(q)
  BY <1>5 DEF RequireRemoteAbsent
<1>6. CASE MkdirRemoteLease(q)
  BY <1>6 DEF MkdirRemoteLease
<1>7. CASE VerifyRemoteLease(q)
  BY <1>7 DEF VerifyRemoteLease
<1>8. CASE UndoRemoteLease(q)
  BY <1>8 DEF UndoRemoteLease
<1>9. CASE CheckUndo(q)
  BY <1>9 DEF CheckUndo, QuarantineAcquire
<1>10. CASE RollbackLocalLease(q)
  BY <1>10 DEF RollbackLocalLease, QuarantineAcquire
<1>11. CASE PrepareClaim(q)
  BY <1>11 DEF PrepareClaim
<1>12. CASE ConsumeAuthorization(q)
  BY <1>12 DEF ConsumeAuthorization
<1>13. CASE PrepareSlotActionDirectory(q)
  BY <1>13 DEF PrepareSlotActionDirectory
<1>14. CASE LaunchServer(q)
  BY <1>14 DEF LaunchServer
<1>15. CASE LaunchTunnel(q)
  BY <1>15 DEF LaunchTunnel
<1>16. CASE RunCells(q)
  <2>1. PICK as \in SUBSET Artifacts : Persist(q, as)
    BY <1>16 DEF RunCells, Artifacts
  <2>2. UNCHANGED stage
    BY <1>16 DEF RunCells
  <2>3. \A o \in Outputs : artifacts[o] \subseteq artifacts'[o]
    BY <2>1
  <2> QED BY <2>2, <2>3
<1>17. CASE VerifyTeardown(q)
  BY <1>17 DEF VerifyTeardown, InTeardown
<1>18. CASE FailTeardown(q)
  BY <1>18 DEF FailTeardown, InTeardown
<1>19. CASE FinalChecks(q)
  BY <1>19 DEF FinalChecks
<1>20. CASE ReleaseRemoteLease(q)
  BY <1>20 DEF ReleaseRemoteLease, ReleaseError
<1>21. CASE CheckRemoteReleased(q)
  BY <1>21 DEF CheckRemoteReleased, ReleaseError
<1>22. CASE ReleaseLocalLease(q)
  BY <1>22 DEF ReleaseLocalLease, ReleaseError
<1>23. CASE WriteSubstrateReceipt(q)
  BY <1>23 DEF WriteSubstrateReceipt
<1>24. CASE SkipTeardown(q)
  BY <1>24 DEF SkipTeardown
<1>25. CASE ReleaseGate(q)
  BY <1>25 DEF ReleaseGate, MayRelease
<1>26. CASE Audit(q)
  BY <1>26 DEF Audit, Removed
<1>27. CASE ReleaseOutputLock(q)
  BY <1>27 DEF ReleaseOutputLock
<1>28. CASE Crash(q)
  BY <1>28 DEF Crash
<1>29. CASE InterruptAcquire(q)
  BY <1>29 DEF InterruptAcquire
<1>30. CASE InterruptTeardown(q)
  BY <1>30 DEF InterruptTeardown, InTeardown
<1>31. CASE InterruptGate(q)
  BY <1>31 DEF InterruptGate
<1> QED BY <1>1, <1>2, <1>3, <1>4, <1>5, <1>6, <1>7, <1>8, <1>9, <1>10,
           <1>11, <1>12, <1>13, <1>14, <1>15, <1>16, <1>17, <1>18,
           <1>19, <1>20, <1>21, <1>22, <1>23, <1>24, <1>25, <1>26,
           <1>27, <1>28, <1>29, <1>30, <1>31
        DEF Step, Cut, Interrupt, Acquire, Execute, Finish

\* An authorization is consumed by at most one run.
THEOREM AuthorizationIsSingleUse == Spec => []SingleUse
<1>1. Init => ConsumedInv /\ SingleUse
  BY DEF Init, ConsumedInv, SingleUse, Consumed
<1>2. IInv /\ ConsumedInv /\ SingleUse /\ [Next]_vars => (ConsumedInv /\ SingleUse)'
  <2> SUFFICES ASSUME IInv, ConsumedInv, SingleUse, [Next]_vars
               PROVE  ConsumedInv' /\ SingleUse'
    OBVIOUS
  <2>1. CASE UNCHANGED vars
    BY <2>1 DEF ConsumedInv, SingleUse, Consumed, vars
  <2>2. ASSUME NEW q \in Runs, Step(q) \/ Cut(q)
        PROVE  ConsumedInv' /\ SingleUse'
    <3>1. ConsumedInv'
      BY <2>2, MarkerStays DEF ConsumedInv
    <3>2. ASSUME NEW r \in Runs, NEW p \in Runs, OutputOf[r] = OutputOf[p],
                 Consumed(r)', Consumed(p)'
          PROVE  r = p
      BY <2>2, <3>2, MarkerStays DEF ConsumedInv, SingleUse
    <3> QED BY <3>1, <3>2 DEF SingleUse
  <2> QED BY <2>1, <2>2 DEF Next
<1> QED BY <1>1, <1>2, Invariance, PTL DEF Spec

-----------------------------------------------------------------------------
(* The audit of a quarantine.                                              *)

\* A run that still has the local lock when it cleans up has failed with the
\* lease acquired, or was interrupted while it acquired it; its audit is there
\* before the output lock goes, unless it could not be written.
AuditInv ==
  \A r \in Runs :
    /\ pc[r] \in {"start", "checked", "locked", "prepared", "receipt"} =>
         localLock[RootOf[r]] # r
    /\ pc[r] \in Releasing => r \in leaseAcquired
    /\ localLock[RootOf[r]] = r =>
         /\ pc[r] \in {"cleanup", "gate", "audit"} => AuditDue(r) \/ r \in evidenceLost
         /\ pc[r] \in {"unlock", "done"} =>
              "lease_audit" \in artifacts[OutputOf[r]] \/ r \in evidenceLost

LEMMA AuditKept ==
  ASSUME IInv, AuditInv, NEW q \in Runs, Step(q) \/ Cut(q)
  PROVE  AuditInv'
<1> USE DEF IInv, FlagsInv, HoldInv, AuditInv, AuditDue, Goto, Fail, KeepFlags,
            locks, host, flags
<1>0. \A o \in Outputs : "lease_audit" \in artifacts[o] => "lease_audit" \in artifacts'[o]
  BY MarkerStays
<1>1. CASE Revalidate(q)
  BY <1>0, <1>1 DEF Revalidate
<1>2. CASE AcquireOutputLock(q)
  BY <1>0, <1>2 DEF AcquireOutputLock
<1>3. CASE PrepareConfig(q)
  BY <1>0, <1>3 DEF PrepareConfig
<1>4. CASE AcquireLocalLease(q)
  BY <1>0, <1>4 DEF AcquireLocalLease
<1>5. CASE RequireRemoteAbsent(q)
  BY <1>0, <1>5 DEF RequireRemoteAbsent
<1>6. CASE MkdirRemoteLease(q)
  BY <1>0, <1>6 DEF MkdirRemoteLease
<1>7. CASE VerifyRemoteLease(q)
  BY <1>0, <1>7 DEF VerifyRemoteLease
<1>8. CASE UndoRemoteLease(q)
  BY <1>0, <1>8 DEF UndoRemoteLease
<1>9. CASE CheckUndo(q)
  BY <1>0, <1>9 DEF CheckUndo, QuarantineAcquire
<1>10. CASE RollbackLocalLease(q)
  BY <1>0, <1>10 DEF RollbackLocalLease, QuarantineAcquire
<1>11. CASE PrepareClaim(q)
  BY <1>0, <1>11 DEF PrepareClaim
<1>12. CASE ConsumeAuthorization(q)
  BY <1>0, <1>12 DEF ConsumeAuthorization
<1>13. CASE PrepareSlotActionDirectory(q)
  BY <1>0, <1>13 DEF PrepareSlotActionDirectory
<1>14. CASE LaunchServer(q)
  BY <1>0, <1>14 DEF LaunchServer
<1>15. CASE LaunchTunnel(q)
  BY <1>0, <1>15 DEF LaunchTunnel
<1>16. CASE RunCells(q)
  BY <1>0, <1>16 DEF RunCells
<1>17. CASE VerifyTeardown(q)
  BY <1>0, <1>17 DEF VerifyTeardown, InTeardown
<1>18. CASE FailTeardown(q)
  BY <1>0, <1>18 DEF FailTeardown, InTeardown
<1>19. CASE FinalChecks(q)
  BY <1>0, <1>19 DEF FinalChecks
<1>20. CASE ReleaseRemoteLease(q)
  BY <1>0, <1>20 DEF ReleaseRemoteLease, ReleaseError
<1>21. CASE CheckRemoteReleased(q)
  BY <1>0, <1>21 DEF CheckRemoteReleased, ReleaseError
<1>22. CASE ReleaseLocalLease(q)
  BY <1>0, <1>22 DEF ReleaseLocalLease, ReleaseError
<1>23. CASE WriteSubstrateReceipt(q)
  BY <1>0, <1>23 DEF WriteSubstrateReceipt
<1>24. CASE SkipTeardown(q)
  BY <1>0, <1>24 DEF SkipTeardown
<1>25. CASE ReleaseGate(q)
  BY <1>0, <1>25 DEF ReleaseGate, MayRelease
<1>26. CASE Audit(q)
  BY <1>0, <1>26 DEF Audit, Removed
<1>27. CASE ReleaseOutputLock(q)
  BY <1>0, <1>27 DEF ReleaseOutputLock
<1>28. CASE Crash(q)
  BY <1>0, <1>28 DEF Crash, Ended
<1>29. CASE InterruptAcquire(q)
  BY <1>0, <1>29 DEF InterruptAcquire, Acquiring
<1>30. CASE InterruptTeardown(q)
  BY <1>0, <1>30 DEF InterruptTeardown, InTeardown
<1>31. CASE InterruptGate(q)
  BY <1>0, <1>31 DEF InterruptGate
<1> QED
  BY <1>1, <1>2, <1>3, <1>4, <1>5, <1>6, <1>7, <1>8, <1>9, <1>10, <1>11, <1>12, <1>13, <1>14, <1>15, <1>16, <1>17, <1>18, <1>19, <1>20, <1>21, <1>22, <1>23, <1>24, <1>25, <1>26, <1>27, <1>28, <1>29,
     <1>30, <1>31
  DEF Step, Cut, Interrupt, Acquire, Execute, Finish

\* A run that ends with the local lock in place has left its audit (the
\* generation-lease audit of _run_locked), but for an interrupted acquisition
\* and an audit that could not be written.
THEOREM QuarantineIsAudited == Spec => []QuarantineAudited
<1>1. ASSUME Init PROVE AuditInv
  BY <1>1 DEF Init, AuditInv
<1>2. ASSUME IInv, AuditInv, [Next]_vars PROVE AuditInv'
  <2>1. CASE UNCHANGED vars
    BY <1>2, <2>1 DEF AuditInv, AuditDue, vars, locks, flags
  <2> QED
    BY <1>2, <2>1, AuditKept DEF Next
<1>3. AuditInv => QuarantineAudited
  BY DEF AuditInv, QuarantineAudited
<1> QED
  BY <1>1, <1>2, <1>3, Invariance, PTL DEF Spec

-----------------------------------------------------------------------------
(* The length of a run.                                                    *)

\* The longest way from each place to the end, with two attempts of a teardown.
StepsLeft ==
  [start |-> 31, checked |-> 30, locked |-> 29, prepared |-> 28, probing |-> 27,
   mkdir |-> 26, verify |-> 25, undo |-> 24, undo_check |-> 23, rollback |-> 22,
   leased |-> 21, claimed |-> 20, launching |-> 19, slot_ready |-> 18, served |-> 17,
   active |-> 16, teardown |-> 15, quiesce |-> 13, release |-> 12, release_check |-> 11,
   release_local |-> 10, receipt |-> 9, cleanup |-> 8, gate |-> 6, audit |-> 2,
   unlock |-> 1, done |-> 0, refused |-> 0, crashed |-> 0]

\* An attempt of a teardown that was made is a step less, and a release after a
\* failure is the one of the gate, past the cleanup.
Spent(r) == IF pc[r] \in {"teardown", "cleanup"} THEN tries[r]
            ELSE IF pc[r] \in Releasing /\ r \in failed THEN 7 ELSE 0

Left(r) == StepsLeft[pc[r]] - Spent(r)

\* Each step of a run, and its death, brings it nearer to its end; no step of
\* another run takes it back.
StepsDescend ==
  [][\A r \in Runs : /\ Left(r)' <= Left(r)
                     /\ Step(r) \/ Cut(r) => Left(r)' < Left(r)]_vars

\* No run has more than 31 steps, and none are left only when it has ended. One
\* that ended by itself, and not by a kill, has given its output lock back.
RunIsBounded ==
  \A r \in Runs : /\ Left(r) \in 0 .. 31
                  /\ Left(r) = 0 <=> pc[r] \in Ended
                  /\ pc[r] = "done" => outputLock[OutputOf[r]] # r

\* A run that cleans up has failed, or its one release is behind it: the gate
\* never starts a release that leads back to the cleanup.
CleanupInv ==
  \A r \in Runs :
    /\ pc[r] = "receipt" => r \in releaseAttempted
    /\ pc[r] \in {"cleanup", "gate"} => r \in failed \cup releaseAttempted
    /\ pc[r] = "done" => outputLock[OutputOf[r]] # r
    /\ pc[r] \in {"start", "checked"} => outputLock[OutputOf[r]] # r

LEMMA StepsLeftAt ==
  /\ StepsLeft["start"] = 31 /\ StepsLeft["checked"] = 30 /\ StepsLeft["locked"] = 29
  /\ StepsLeft["prepared"] = 28 /\ StepsLeft["probing"] = 27 /\ StepsLeft["mkdir"] = 26
  /\ StepsLeft["verify"] = 25 /\ StepsLeft["undo"] = 24 /\ StepsLeft["undo_check"] = 23
  /\ StepsLeft["rollback"] = 22 /\ StepsLeft["leased"] = 21 /\ StepsLeft["claimed"] = 20
  /\ StepsLeft["launching"] = 19 /\ StepsLeft["slot_ready"] = 18 /\ StepsLeft["served"] = 17
  /\ StepsLeft["active"] = 16 /\ StepsLeft["teardown"] = 15 /\ StepsLeft["quiesce"] = 13
  /\ StepsLeft["release"] = 12 /\ StepsLeft["release_check"] = 11 /\ StepsLeft["release_local"] = 10
  /\ StepsLeft["receipt"] = 9 /\ StepsLeft["cleanup"] = 8 /\ StepsLeft["gate"] = 6
  /\ StepsLeft["audit"] = 2 /\ StepsLeft["unlock"] = 1 /\ StepsLeft["done"] = 0
  /\ StepsLeft["refused"] = 0 /\ StepsLeft["crashed"] = 0
  BY DEF StepsLeft

\* One step of one run.
LEMMA StepIsOneLess ==
  ASSUME IInv, CleanupInv, NEW q \in Runs, Step(q) \/ Cut(q)
  PROVE  /\ CleanupInv'
         /\ Left(q)' < Left(q)
         /\ \A r \in Runs \ {q} : Left(r)' = Left(r)
<1> USE DEF IInv, FlagsInv, CleanupInv, Left, Spent, Goto, Fail, KeepFlags, locks, host, flags
<1>1. CASE Revalidate(q)
  BY <1>1, StepsLeftAt DEF Revalidate
<1>2. CASE AcquireOutputLock(q)
  BY <1>2, StepsLeftAt DEF AcquireOutputLock
<1>3. CASE PrepareConfig(q)
  BY <1>3, StepsLeftAt DEF PrepareConfig
<1>4. CASE AcquireLocalLease(q)
  BY <1>4, StepsLeftAt DEF AcquireLocalLease
<1>5. CASE RequireRemoteAbsent(q)
  BY <1>5, StepsLeftAt DEF RequireRemoteAbsent
<1>6. CASE MkdirRemoteLease(q)
  BY <1>6, StepsLeftAt DEF MkdirRemoteLease
<1>7. CASE VerifyRemoteLease(q)
  BY <1>7, StepsLeftAt DEF VerifyRemoteLease
<1>8. CASE UndoRemoteLease(q)
  BY <1>8, StepsLeftAt DEF UndoRemoteLease
<1>9. CASE CheckUndo(q)
  BY <1>9, StepsLeftAt DEF CheckUndo, QuarantineAcquire
<1>10. CASE RollbackLocalLease(q)
  BY <1>10, StepsLeftAt DEF RollbackLocalLease, QuarantineAcquire
<1>11. CASE PrepareClaim(q)
  BY <1>11, StepsLeftAt DEF PrepareClaim
<1>12. CASE ConsumeAuthorization(q)
  BY <1>12, StepsLeftAt DEF ConsumeAuthorization
<1>13. CASE PrepareSlotActionDirectory(q)
  BY <1>13, StepsLeftAt DEF PrepareSlotActionDirectory
<1>14. CASE LaunchServer(q)
  BY <1>14, StepsLeftAt DEF LaunchServer
<1>15. CASE LaunchTunnel(q)
  BY <1>15, StepsLeftAt DEF LaunchTunnel
<1>16. CASE RunCells(q)
  BY <1>16, StepsLeftAt DEF RunCells
<1>17. CASE VerifyTeardown(q)
  BY <1>17, StepsLeftAt DEF VerifyTeardown, InTeardown
<1>18. CASE FailTeardown(q)
  BY <1>18, StepsLeftAt DEF FailTeardown, InTeardown, LastTry
<1>19. CASE FinalChecks(q)
  BY <1>19, StepsLeftAt DEF FinalChecks
<1>20. CASE ReleaseRemoteLease(q)
  BY <1>20, StepsLeftAt DEF ReleaseRemoteLease, ReleaseError
<1>21. CASE CheckRemoteReleased(q)
  BY <1>21, StepsLeftAt DEF CheckRemoteReleased, ReleaseError
<1>22. CASE ReleaseLocalLease(q)
  BY <1>22, StepsLeftAt DEF ReleaseLocalLease, ReleaseError
<1>23. CASE WriteSubstrateReceipt(q)
  BY <1>23, StepsLeftAt DEF WriteSubstrateReceipt
<1>24. CASE SkipTeardown(q)
  BY <1>24, StepsLeftAt DEF SkipTeardown
<1>25. CASE ReleaseGate(q)
  BY <1>25, StepsLeftAt DEF ReleaseGate, MayRelease
<1>26. CASE Audit(q)
  BY <1>26, StepsLeftAt DEF Audit
<1>27. CASE ReleaseOutputLock(q)
  BY <1>27, StepsLeftAt DEF ReleaseOutputLock
<1>28. CASE Crash(q)
  BY <1>28, StepsLeftAt DEF Crash, Ended, Pcs
<1>29. CASE InterruptAcquire(q)
  BY <1>29, StepsLeftAt DEF InterruptAcquire, Acquiring
<1>30. CASE InterruptTeardown(q)
  BY <1>30, StepsLeftAt DEF InterruptTeardown, InTeardown
<1>31. CASE InterruptGate(q)
  BY <1>31, StepsLeftAt DEF InterruptGate
<1> QED
  BY <1>1, <1>2, <1>3, <1>4, <1>5, <1>6, <1>7, <1>8, <1>9, <1>10, <1>11, <1>12, <1>13, <1>14,
     <1>15, <1>16, <1>17, <1>18, <1>19, <1>20, <1>21, <1>22, <1>23, <1>24, <1>25, <1>26, <1>27, <1>28, <1>29,
     <1>30, <1>31
  DEF Step, Cut, Interrupt, Acquire, Execute, Finish

LEMMA Bounded == IInv /\ CleanupInv => RunIsBounded
<1> SUFFICES ASSUME IInv, CleanupInv, NEW r \in Runs
             PROVE  /\ Left(r) \in 0 .. 31
                    /\ Left(r) = 0 <=> pc[r] \in Ended
  BY DEF RunIsBounded, CleanupInv
<1>1. pc[r] \in Pcs /\ tries[r] \in 0 .. 2
  BY DEF IInv
<1>2. CASE pc[r] \in {"teardown", "cleanup"}
  BY <1>1, <1>2, StepsLeftAt DEF Left, Spent, Ended
<1>3. CASE pc[r] \in Releasing
  BY <1>1, <1>3, StepsLeftAt DEF Left, Spent, Ended
<1>4. CASE pc[r] \notin {"teardown", "cleanup"} \cup Releasing
  BY <1>1, <1>4, StepsLeftAt DEF Left, Spent, Ended, Pcs
<1> QED BY <1>2, <1>3, <1>4

\* A run of the harness has at most 31 steps, whatever fails and whatever other
\* runs do (_run_locked, _ensure_verified_teardown, release_generation_lease).
THEOREM RunsEndInBound == Spec => []RunIsBounded /\ StepsDescend
<1>1. ASSUME Init PROVE CleanupInv
  BY <1>1 DEF Init, CleanupInv
<1>2. ASSUME IInv, CleanupInv, [Next]_vars PROVE CleanupInv'
  <2>1. CASE UNCHANGED vars
    BY <1>2, <2>1 DEF CleanupInv, vars, locks, flags
  <2> QED BY <1>2, <2>1, StepIsOneLess DEF Next
<1>3. IInv /\ CleanupInv /\ [Next]_vars => RunIsBounded'
  BY <1>2, NextInv, Bounded, PTL
<1>4. ASSUME IInv, CleanupInv, [Next]_vars
      PROVE  [\A r \in Runs : /\ Left(r)' <= Left(r)
                              /\ Step(r) \/ Cut(r) => Left(r)' < Left(r)]_vars
  <2> SUFFICES ASSUME NEW q \in Runs, Step(q) \/ Cut(q), NEW r \in Runs
               PROVE  /\ Left(r)' <= Left(r)
                      /\ Step(r) \/ Cut(r) => Left(r)' < Left(r)
    BY <1>4 DEF Next
  <2>1. Left(r) \in 0 .. 31
    BY <1>4, Bounded DEF RunIsBounded
  <2>2. Left(r)' <= Left(r)
    <3>1. CASE r = q
      <4>1. Left(r)' \in 0 .. 31
        BY <1>3, <1>4 DEF RunIsBounded
      <4> QED BY <1>4, <2>1, <3>1, <4>1, StepIsOneLess
    <3>2. CASE r # q
      BY <1>4, <2>1, <3>2, StepIsOneLess
    <3> QED BY <3>1, <3>2
  <2>3. Step(r) \/ Cut(r) => Left(r)' < Left(r)
    BY <1>4, StepIsOneLess
  <2> QED BY <2>2, <2>3
<1> QED
  BY <1>1, <1>2, <1>4, Bounded, Invariance, PTL DEF Spec, StepsDescend

-----------------------------------------------------------------------------
(* Refinement.                                                             *)

\* The marker that the two roots and every authorization share behaves as the
\* abstract quarantine: one holder at a time, never released while running.
THEOREM Refinement == Spec => ImplementsQuarantine
<1>1. Init => Quarantine!Init
  BY DEF Init, Quarantine!Init, Phase, LifecycleStarted, TeardownVerified
<1>2. IInv /\ [Next]_vars => [Quarantine!Next]_Quarantine!vars
  <2> SUFFICES ASSUME IInv, NEW r \in Runs, Step(r) \/ Cut(r)
               PROVE  [Quarantine!Next]_Quarantine!vars
    BY DEF Next, vars, locks, Quarantine!vars, Phase, LifecycleStarted, TeardownVerified
  <2> USE DEF IInv, FlagsInv, GateInv, HoldInv, Goto, Fail, SetStage, locks,
              Quarantine!vars, Quarantine!Next
  <2>1. CASE MkdirRemoteLease(r)
    BY <2>1 DEF MkdirRemoteLease, Quarantine!Take, Phase
  <2>2. CASE UndoRemoteLease(r)
    BY <2>2 DEF UndoRemoteLease, Quarantine!Release, Phase
  <2>3. CASE ConsumeAuthorization(r)
    <3>1. CASE stage' = stage
      BY <2>3, <3>1 DEF ConsumeAuthorization, Phase
    <3>2. CASE stage' # stage
      <4>1. /\ remoteLease = r /\ remoteLease' = r /\ Phase(r) = "fresh"
            /\ stage' = [stage EXCEPT ![r] = "launching"]
        BY <2>3, <3>2 DEF ConsumeAuthorization, Phase
      <4>2. \A q \in Runs : Phase(q)' = IF q = r THEN "running" ELSE Phase(q)
        BY <4>1 DEF Phase
      <4>3. [q \in Runs |-> Phase(q)]'
              = [[q \in Runs |-> Phase(q)] EXCEPT ![r] = "running"]
        BY <4>2
      <4> QED BY <4>1, <4>3 DEF Quarantine!Begin
    <3> QED BY <3>1, <3>2
  <2>4. CASE VerifyTeardown(r)
    <3>1. /\ remoteLease = r /\ remoteLease' = r /\ Phase(r) = "running"
          /\ stage' = [stage EXCEPT ![r] = "closed"]
      BY <2>4 DEF VerifyTeardown, InTeardown, Phase
    <3>2. \A q \in Runs : Phase(q)' = IF q = r THEN "closed" ELSE Phase(q)
      BY <3>1 DEF Phase
    <3>3. [q \in Runs |-> Phase(q)]'
            = [[q \in Runs |-> Phase(q)] EXCEPT ![r] = "closed"]
      BY <3>2
    <3> QED BY <3>1, <3>3 DEF Quarantine!Close
  <2>5. CASE ReleaseRemoteLease(r)
    BY <2>5 DEF ReleaseRemoteLease, ReleaseError, Quarantine!Release, Phase
  <2>6. CASE \/ Revalidate(r) \/ LaunchTunnel(r) \/ FailTeardown(r)
             \/ InterruptTeardown(r)
    <3>1. remoteLease' = remoteLease
      BY <2>6 DEF Revalidate, LaunchTunnel, FailTeardown, InterruptTeardown
    <3>2. ASSUME NEW q \in Runs PROVE Phase(q)' = Phase(q)
      <4>1. CASE Revalidate(r)
        BY <4>1 DEF Revalidate, Phase
      <4>2. CASE LaunchTunnel(r)
        BY <4>2 DEF LaunchTunnel, Phase
      <4>3. CASE FailTeardown(r)
        BY <4>3 DEF FailTeardown, InTeardown, Phase
      <4>4. CASE InterruptTeardown(r)
        BY <4>4 DEF InterruptTeardown, InTeardown, Phase
      <4> QED BY <2>6, <4>1, <4>2, <4>3, <4>4
    <3> QED BY <3>1, <3>2
  <2>7. CASE ~(\/ MkdirRemoteLease(r) \/ UndoRemoteLease(r)
               \/ ConsumeAuthorization(r) \/ VerifyTeardown(r)
               \/ ReleaseRemoteLease(r) \/ Revalidate(r) \/ LaunchTunnel(r)
               \/ FailTeardown(r) \/ InterruptTeardown(r))
    BY <2>7 DEF Step, Cut, Interrupt, InterruptAcquire, InterruptGate, Crash, Phase, Acquire, Execute, Finish,
       AcquireOutputLock, PrepareConfig, AcquireLocalLease,
       RequireRemoteAbsent, VerifyRemoteLease, CheckUndo, RollbackLocalLease,
       PrepareClaim, PrepareSlotActionDirectory, LaunchServer, RunCells,
       FinalChecks, CheckRemoteReleased, ReleaseLocalLease,
       WriteSubstrateReceipt, SkipTeardown, ReleaseGate, Audit, ReleaseOutputLock
  <2> QED BY <2>1, <2>2, <2>3, <2>4, <2>5, <2>6, <2>7
<1> QED BY <1>1, <1>2, Invariance, PTL DEF Spec, Quarantine!Spec, ImplementsQuarantine

-----------------------------------------------------------------------------
(* The composition behaves as GenerationLease.                             *)

LEMMA LauncherIsGoverned ==
  ASSUME NEW l \in Detached, Launcher(l)
  PROVE  UNCHANGED vars \/ (pc[l] \notin Ended /\ Crash(l))
BY DEF Launcher, ValidateLaunch, CheckLaunchPaths, TakeLaunchLock,
   SpawnController, PollClaim, PollExit, RecordLaunch, KillController,
   ReleaseLaunchLock, InterruptLauncher, CrashLauncher

\* Launchers add nothing to what governed runs do: a kill is a crash.
THEOREM RunsStayGoverned == LaunchSpec => Spec
<1>1. LaunchInit => Init
  BY DEF LaunchInit
<1>2. [LaunchNext]_allVars => [Next]_vars
  <2> SUFFICES ASSUME [LaunchNext]_allVars PROVE [Next]_vars
    OBVIOUS
  <2>1. CASE UNCHANGED allVars
    BY <2>1 DEF allVars
  <2>2. ASSUME NEW l \in Detached, Launcher(l) PROVE [Next]_vars
    BY <2>2, LauncherIsGoverned, DetachedAssumption DEF Next, Cut
  <2>3. ASSUME NEW r \in Runs, Controller(r) PROVE [Next]_vars
    BY <2>3 DEF Controller, Next
  <2> QED BY <2>1, <2>2, <2>3 DEF LaunchNext
<1> QED BY <1>1, <1>2, PTL DEF LaunchSpec, Spec

\* An authorization is consumed by one run, however many launchers and
\* operators start it and whichever controllers are killed.
THEOREM LaunchedOnceOnly == LaunchSpec => []SingleUse
BY RunsStayGoverned, AuthorizationIsSingleUse, PTL

\* A controller that is killed with a lifecycle on the host leaves the host
\* under its lease.
THEOREM KilledUnderLease == LaunchSpec => []EffectsUnderLease
BY RunsStayGoverned, EffectsStayUnderLease, PTL

LEMMA GovernedInv == LaunchSpec => []IInv
BY RunsStayGoverned, Invariance, PTL

-----------------------------------------------------------------------------
(* What one step of a run does to its siblings.                            *)

Outside  == {"start", "checked"} \cup Ended
PreClaim == {"prepared", "probing", "mkdir", "verify", "undo", "undo_check",
             "rollback", "leased"}

Claims(q) == pc[q] = "leased" /\ pc'[q] = "claimed"

\* A claim is written by PrepareClaim alone and is never removed; the output
\* lock is taken when it is free and given back last.
RunFacts(q) ==
  /\ pc[q] \notin Ended
  /\ \A r \in Runs \ {q} : pc'[r] = pc[r]
  /\ \A o \in Outputs : "claim" \in artifacts[o] => "claim" \in artifacts'[o]
  /\ \A o \in Outputs : "claim" \in artifacts'[o] /\ "claim" \notin artifacts[o]
       => o = OutputOf[q] /\ Claims(q)
  /\ Claims(q) => "claim" \in artifacts'[OutputOf[q]]
  /\ pc'[q] \in PreClaim => \/ pc[q] \in PreClaim
                            \/ pc[q] = "locked" /\ artifacts[OutputOf[q]] = {}
  /\ \/ outputLock' = outputLock /\ (pc'[q] \in Outside \/ pc[q] \notin Outside)
     \/ /\ outputLock[OutputOf[q]] = None
        /\ outputLock' = [outputLock EXCEPT ![OutputOf[q]] = q]
     \/ /\ pc[q] \notin Outside /\ pc'[q] \in Outside
        /\ outputLock' = [outputLock EXCEPT ![OutputOf[q]] = None]

LEMMA RunStep == ASSUME IInv, NEW q \in Runs, Step(q) \/ Cut(q)
                 PROVE  RunFacts(q)
<1> USE LeaseAssumption
    DEF IInv, TypeOK, RunFacts, Claims, Outside, PreClaim, Ended, Goto, Fail,
        Persist, locks, host, flags, LifecycleStarted, TeardownVerified
<1>1. CASE Revalidate(q)                 BY <1>1 DEF Revalidate
<1>2. CASE AcquireOutputLock(q)          BY <1>2 DEF AcquireOutputLock
<1>3. CASE PrepareConfig(q)              BY <1>3 DEF PrepareConfig, ResultPathsFresh
<1>4. CASE AcquireLocalLease(q)          BY <1>4 DEF AcquireLocalLease
<1>5. CASE RequireRemoteAbsent(q)        BY <1>5 DEF RequireRemoteAbsent
<1>6. CASE MkdirRemoteLease(q)           BY <1>6 DEF MkdirRemoteLease
<1>7. CASE VerifyRemoteLease(q)          BY <1>7 DEF VerifyRemoteLease
<1>8. CASE UndoRemoteLease(q)            BY <1>8 DEF UndoRemoteLease
<1>9. CASE CheckUndo(q)                  BY <1>9 DEF CheckUndo, QuarantineAcquire
<1>10. CASE RollbackLocalLease(q)        BY <1>10 DEF RollbackLocalLease, QuarantineAcquire
<1>11. CASE PrepareClaim(q)              BY <1>11 DEF PrepareClaim
<1>12. CASE ConsumeAuthorization(q)      BY <1>12 DEF ConsumeAuthorization
<1>13. CASE PrepareSlotActionDirectory(q)
  BY <1>13 DEF PrepareSlotActionDirectory
<1>14. CASE LaunchServer(q)              BY <1>14 DEF LaunchServer
<1>15. CASE LaunchTunnel(q)              BY <1>15 DEF LaunchTunnel
<1>16. CASE RunCells(q)
  <2>1. PICK as \in SUBSET {"ledger", "active", "receipt"} : Persist(q, as)
    BY <1>16 DEF RunCells
  <2>2. pc[q] = "active" /\ pc' \in {[pc EXCEPT ![q] = "teardown"],
                                     [pc EXCEPT ![q] = "cleanup"]}
    BY <1>16 DEF RunCells
  <2>3. outputLock' = outputLock
    BY <1>16 DEF RunCells
  <2>4. \A o \in Outputs : ("claim" \in artifacts'[o]) <=> ("claim" \in artifacts[o])
    BY <2>1
  <2> QED BY <2>2, <2>3, <2>4
<1>17. CASE VerifyTeardown(q)            BY <1>17 DEF VerifyTeardown, InTeardown
<1>18. CASE FailTeardown(q)              BY <1>18 DEF FailTeardown, InTeardown
<1>19. CASE FinalChecks(q)               BY <1>19 DEF FinalChecks
<1>20. CASE ReleaseRemoteLease(q)        BY <1>20 DEF ReleaseRemoteLease, ReleaseError
<1>21. CASE CheckRemoteReleased(q)       BY <1>21 DEF CheckRemoteReleased, ReleaseError
<1>22. CASE ReleaseLocalLease(q)         BY <1>22 DEF ReleaseLocalLease, ReleaseError
<1>23. CASE WriteSubstrateReceipt(q)
  <2>1. \A o \in Outputs : ("claim" \in artifacts'[o]) <=> ("claim" \in artifacts[o])
    BY <1>23 DEF WriteSubstrateReceipt
  <2>2. /\ pc[q] = "receipt" /\ pc' = [pc EXCEPT ![q] = "cleanup"]
        /\ outputLock' = outputLock
    BY <1>23 DEF WriteSubstrateReceipt
  <2> QED BY <2>1, <2>2
<1>24. CASE SkipTeardown(q)              BY <1>24 DEF SkipTeardown
<1>25. CASE ReleaseGate(q)               BY <1>25 DEF ReleaseGate
<1>26. CASE Audit(q)                     BY <1>26 DEF Audit, Removed
<1>27. CASE ReleaseOutputLock(q)         BY <1>27 DEF ReleaseOutputLock
<1>28. CASE Crash(q)                     BY <1>28 DEF Crash
<1>29. CASE InterruptAcquire(q)          BY <1>29 DEF InterruptAcquire, Acquiring
<1>30. CASE InterruptTeardown(q)         BY <1>30 DEF InterruptTeardown, InTeardown
<1>31. CASE InterruptGate(q)             BY <1>31 DEF InterruptGate
<1> QED BY <1>1, <1>2, <1>3, <1>4, <1>5, <1>6, <1>7, <1>8, <1>9, <1>10,
           <1>11, <1>12, <1>13, <1>14, <1>15, <1>16, <1>17, <1>18,
           <1>19, <1>20, <1>21, <1>22, <1>23, <1>24, <1>25, <1>26,
           <1>27, <1>28, <1>29, <1>30, <1>31
        DEF Step, Cut, Interrupt, Acquire, Execute, Finish

-----------------------------------------------------------------------------
\* One run at a time is behind the output lock, and until it claims there is
\* no claim: it found the siblings absent when it came in.
LockInv ==
  \A r \in Runs :
    /\ pc[r] \notin Outside => outputLock[OutputOf[r]] = r
    /\ pc[r] \in PreClaim => "claim" \notin artifacts[OutputOf[r]]

LEMMA LockStep == ASSUME IInv, LockInv, NEW q \in Runs, Step(q) \/ Cut(q)
                  PROVE  LockInv'
<1>1. RunFacts(q)
  BY RunStep
<1>2. ASSUME NEW r \in Runs, pc'[r] \notin Outside
      PROVE  outputLock'[OutputOf[r]] = r
  <2>1. CASE r = q
    BY <1>1, <1>2, <2>1, LeaseAssumption DEF RunFacts, LockInv, IInv, TypeOK
  <2>2. CASE r # q
    <3>1. pc[r] \notin Outside /\ outputLock[OutputOf[r]] = r
      BY <1>1, <1>2, <2>2 DEF RunFacts, LockInv
    <3>2. r # None
      BY LeaseAssumption
    <3>3. pc[q] \notin Outside => OutputOf[q] # OutputOf[r]
      BY <2>2, <3>1 DEF LockInv
    <3> QED BY <1>1, <3>1, <3>2, <3>3, LeaseAssumption DEF RunFacts, IInv, TypeOK
  <2> QED BY <2>1, <2>2
<1>3. ASSUME NEW r \in Runs, pc'[r] \in PreClaim
      PROVE  "claim" \notin artifacts'[OutputOf[r]]
  <2>1. CASE r = q
    <3>1. "claim" \notin artifacts[OutputOf[q]]
      BY <1>1, <1>3, <2>1 DEF RunFacts, LockInv
    <3>2. ~Claims(q)
      BY <1>3, <2>1 DEF Claims, PreClaim
    <3> QED BY <1>1, <2>1, <3>1, <3>2, LeaseAssumption DEF RunFacts
  <2>2. CASE r # q
    <3>1. pc[r] \in PreClaim /\ "claim" \notin artifacts[OutputOf[r]]
      BY <1>1, <1>3, <2>2 DEF RunFacts, LockInv
    <3>2. outputLock[OutputOf[r]] = r
      BY <3>1 DEF LockInv, PreClaim, Outside, Ended
    <3>3. Claims(q) => outputLock[OutputOf[q]] = q
      BY DEF Claims, LockInv, Outside, Ended
    <3>4. ~(Claims(q) /\ OutputOf[q] = OutputOf[r])
      BY <2>2, <3>2, <3>3
    <3> QED BY <1>1, <3>1, <3>4, LeaseAssumption DEF RunFacts
  <2> QED BY <2>1, <2>2
<1> QED BY <1>2, <1>3 DEF LockInv
-----------------------------------------------------------------------------
(* The inductive invariant of the launchers.                               *)

Places == {"validate", "check", "lock", "spawn", "poll", "poll_exit",
           "record", "kill", "unlock", "returned"}
Before == {"validate", "check", "lock", "spawn"}

LaunchTypeOK ==
  /\ at \in [Detached -> Places]
  /\ seen \in [Detached -> StartupStates]
  /\ result \in [Detached -> {"none", "refused", "failed", "started",
                              "interrupted", "killed"}]
  /\ spawned \subseteq Detached
  /\ controllerLog \subseteq Outputs
  /\ launchReceipt \in [Outputs -> [by : Detached \cup {None}, state : StartupStates]]
  /\ claimant \in [Outputs -> Runs \cup {None}]

\* Where a launcher is, what it has seen and how it ended.
PlaceInv ==
  \A l \in Detached :
    /\ at[l] \in Before => l \notin spawned
    /\ at[l] \in Before \cup {"poll", "poll_exit"} => seen[l] = "pending"
    /\ at[l] \notin {"unlock", "returned"} => result[l] = "none"
    /\ at[l] \in {"unlock", "returned"} => result[l] # "none"

\* What each outcome says of the controller.
OutcomeInv ==
  \A l \in Detached :
    /\ result[l] = "refused" => l \notin spawned
    /\ result[l] = "failed" => l \notin spawned \/ pc[l] \in Ended
    /\ result[l] = "started" =>
         launchReceipt[OutputOf[l]] = [by |-> l, state |-> "claim_observed"]

SpawnInv == OneController /\ \A l \in spawned : OutputOf[l] \in controllerLog

\* An observed claim is on disk and names the launcher's own controller.
ClaimInv ==
  /\ \A l \in Detached : seen[l] = "claim_observed" =>
       "claim" \in artifacts[OutputOf[l]] /\ claimant[OutputOf[l]] = l
  /\ \A o \in Outputs : launchReceipt[o].state = "claim_observed" =>
       /\ launchReceipt[o].by \in Detached
       /\ OutputOf[launchReceipt[o].by] = o
       /\ seen[launchReceipt[o].by] = "claim_observed"

LInv == LaunchTypeOK /\ PlaceInv /\ OutcomeInv /\ SpawnInv /\ ClaimInv

LEMMA LaunchInitInv == LaunchInit => LockInv /\ LInv
BY LeaseAssumption, DetachedAssumption
   DEF LaunchInit, Init, LockInv, LInv, LaunchTypeOK, PlaceInv, OutcomeInv,
       SpawnInv, ClaimInv, OneController, Places, Before, StartupStates,
       NoReceipt, Outside, PreClaim, Ended

\* A step of a controller moves no launcher, and it writes its claim only
\* where there is none yet.
LEMMA ControllerInv ==
  ASSUME IInv, LockInv, LInv, NEW q \in Runs, Controller(q)
  PROVE  LInv'
<1>1. RunFacts(q)
  BY RunStep DEF Controller
<1>2. UNCHANGED <<at, seen, result, spawned, controllerLog, launchReceipt>>
  BY DEF Controller, launchVars
<1>3. claimant' = IF Claims(q) THEN [claimant EXCEPT ![OutputOf[q]] = q]
                  ELSE claimant
  BY DEF Controller, Claims
<1>4. LaunchTypeOK'
  BY <1>2, <1>3, LeaseAssumption DEF LInv, LaunchTypeOK
<1>5. PlaceInv' /\ SpawnInv'
  BY <1>2 DEF LInv, PlaceInv, SpawnInv, OneController
<1>6. \A r \in Runs : pc[r] \in Ended => pc'[r] \in Ended
  BY <1>1 DEF RunFacts
<1>7. OutcomeInv'
  BY <1>2, <1>6, DetachedAssumption DEF LInv, OutcomeInv
<1>8. Claims(q) => "claim" \notin artifacts[OutputOf[q]]
  BY DEF Claims, LockInv, PreClaim
<1>9. ASSUME NEW l \in Detached, seen[l] = "claim_observed"
      PROVE  "claim" \in artifacts'[OutputOf[l]] /\ claimant'[OutputOf[l]] = l
  <2>1. "claim" \in artifacts[OutputOf[l]] /\ claimant[OutputOf[l]] = l
    BY <1>9 DEF LInv, ClaimInv
  <2>2. OutputOf[l] \in Outputs
    BY LeaseAssumption, DetachedAssumption
  <2> QED BY <1>1, <1>3, <1>8, <2>1, <2>2 DEF RunFacts, LInv, LaunchTypeOK
<1> QED BY <1>2, <1>4, <1>5, <1>7, <1>9 DEF LInv, ClaimInv

\* A step of a launcher, by what it does to the files; the runs stay where
\* they are but for the controller that it kills.
LEMMA LauncherInv ==
  ASSUME IInv, LInv, NEW l \in Detached, Launcher(l)
  PROVE  LInv'
<1> USE LeaseAssumption, DetachedAssumption
    DEF LInv, Proceed, Ends, Refuse, vars, host, locks, flags
<1>1. CASE ValidateLaunch(l)
  <2>1. LaunchTypeOK'
    <3>1. at' \in [Detached -> Places]
      BY <1>1 DEF ValidateLaunch, LaunchTypeOK, Places
    <3>2. result' \in [Detached -> {"none", "refused", "failed", "started",
                                    "interrupted", "killed"}]
      BY <1>1 DEF ValidateLaunch, LaunchTypeOK
    <3> QED BY <1>1, <3>1, <3>2 DEF ValidateLaunch, LaunchTypeOK
  <2>2. PlaceInv'
    BY <1>1 DEF ValidateLaunch, LaunchTypeOK, PlaceInv, Before
  <2>3. OutcomeInv'
    BY <1>1 DEF ValidateLaunch, LaunchTypeOK, PlaceInv, OutcomeInv, Before
  <2>4. SpawnInv'
    BY <1>1 DEF ValidateLaunch, LaunchTypeOK, SpawnInv, OneController
  <2>5. ClaimInv'
    BY <1>1 DEF ValidateLaunch, LaunchTypeOK, PlaceInv, ClaimInv, Before
  <2> QED BY <2>1, <2>2, <2>3, <2>4, <2>5
<1>2. CASE CheckLaunchPaths(l)
  <2>1. LaunchTypeOK'
    BY <1>2 DEF CheckLaunchPaths, LaunchTypeOK, Places, StartupStates
  <2>2. PlaceInv'
    BY <1>2 DEF CheckLaunchPaths, LaunchTypeOK, PlaceInv, Before
  <2>3. OutcomeInv'
    BY <1>2 DEF CheckLaunchPaths, LaunchTypeOK, PlaceInv, OutcomeInv, Before
  <2>4. SpawnInv'
    BY <1>2 DEF CheckLaunchPaths, LaunchTypeOK, SpawnInv, OneController
  <2>5. ClaimInv'
    BY <1>2 DEF CheckLaunchPaths, LaunchTypeOK, PlaceInv, ClaimInv, Before
  <2> QED BY <2>1, <2>2, <2>3, <2>4, <2>5
<1>3. CASE TakeLaunchLock(l)
  <2>1. LaunchTypeOK'
    BY <1>3 DEF TakeLaunchLock, LaunchTypeOK, Places, StartupStates
  <2>2. PlaceInv'
    BY <1>3 DEF TakeLaunchLock, LaunchTypeOK, PlaceInv, Before
  <2>3. OutcomeInv'
    BY <1>3 DEF TakeLaunchLock, LaunchTypeOK, PlaceInv, OutcomeInv, Before
  <2>4. SpawnInv'
    BY <1>3 DEF TakeLaunchLock, LaunchTypeOK, SpawnInv, OneController
  <2>5. ClaimInv'
    BY <1>3 DEF TakeLaunchLock, LaunchTypeOK, PlaceInv, ClaimInv, Before
  <2> QED BY <2>1, <2>2, <2>3, <2>4, <2>5
<1>4. CASE SpawnController(l)
  <2>1. LaunchTypeOK'
    BY <1>4 DEF SpawnController, LaunchTypeOK, Places, StartupStates
  <2>2. PlaceInv'
    BY <1>4 DEF SpawnController, LaunchTypeOK, PlaceInv, Before
  <2>3. OutcomeInv'
    BY <1>4 DEF SpawnController, LaunchTypeOK, PlaceInv, OutcomeInv, Before
  <2>4. SpawnInv'
    BY <1>4 DEF SpawnController, LaunchTypeOK, SpawnInv, OneController
  <2>5. ClaimInv'
    BY <1>4 DEF SpawnController, LaunchTypeOK, PlaceInv, ClaimInv, Before
  <2> QED BY <2>1, <2>2, <2>3, <2>4, <2>5
<1>5. CASE PollClaim(l)
  <2>1. LaunchTypeOK'
    BY <1>5 DEF PollClaim, OwnClaim, LaunchTypeOK, Places, StartupStates
  <2>2. PlaceInv'
    BY <1>5 DEF PollClaim, OwnClaim, LaunchTypeOK, PlaceInv, Before
  <2>3. OutcomeInv'
    BY <1>5 DEF PollClaim, OwnClaim, LaunchTypeOK, PlaceInv, OutcomeInv, Before
  <2>4. SpawnInv'
    BY <1>5 DEF PollClaim, OwnClaim, LaunchTypeOK, SpawnInv, OneController
  <2>5. ClaimInv'
    BY <1>5 DEF PollClaim, OwnClaim, LaunchTypeOK, PlaceInv, ClaimInv, Before
  <2> QED BY <2>1, <2>2, <2>3, <2>4, <2>5
<1>6. CASE PollExit(l)
  <2>1. LaunchTypeOK'
    <3>1. at' \in [Detached -> Places]
      <4>1. Proceed(l, "record") \/ Proceed(l, "poll")
        BY <1>6 DEF PollExit
      <4> QED BY <4>1 DEF LaunchTypeOK, Places
    <3>2. seen' \in [Detached -> StartupStates]
      BY <1>6 DEF PollExit, LaunchTypeOK, StartupStates
    <3> QED BY <1>6, <3>1, <3>2 DEF PollExit, LaunchTypeOK
  <2>2. PlaceInv'
    BY <1>6 DEF PollExit, LaunchTypeOK, PlaceInv, Before
  <2>3. OutcomeInv'
    BY <1>6 DEF PollExit, LaunchTypeOK, PlaceInv, OutcomeInv, Before
  <2>4. SpawnInv'
    BY <1>6 DEF PollExit, LaunchTypeOK, SpawnInv, OneController
  <2>5. ClaimInv'
    BY <1>6 DEF PollExit, LaunchTypeOK, PlaceInv, ClaimInv, Before
  <2> QED BY <2>1, <2>2, <2>3, <2>4, <2>5
<1>7. CASE RecordLaunch(l)
  <2>1. CASE launchReceipt' = launchReceipt
    <3>1. at[l] = "record" /\ at' = [at EXCEPT ![l] = "kill"]
      BY <1>7, <2>1 DEF RecordLaunch, LaunchTypeOK, StartupStates, NoReceipt
    <3>2. UNCHANGED <<vars, seen, result, spawned, controllerLog, claimant>>
      BY <1>7, <2>1 DEF RecordLaunch, LaunchTypeOK, StartupStates, NoReceipt
    <3>3. LaunchTypeOK'
      BY <2>1, <3>1, <3>2 DEF LaunchTypeOK, Places
    <3>4. PlaceInv'
      BY <3>1, <3>2 DEF LaunchTypeOK, PlaceInv, Before
    <3>5. OutcomeInv' /\ SpawnInv' /\ ClaimInv'
      BY <2>1, <3>2 DEF OutcomeInv, SpawnInv, OneController, ClaimInv
    <3> QED BY <3>3, <3>4, <3>5
  <2>2. CASE launchReceipt' # launchReceipt
    <3> DEFINE o == OutputOf[l]
    <3>1. /\ at[l] = "record" /\ launchReceipt[o] = NoReceipt
          /\ launchReceipt' = [launchReceipt EXCEPT ![o] = [by |-> l, state |-> seen[l]]]
      BY <1>7, <2>2 DEF RecordLaunch
    <3>2. UNCHANGED <<vars, seen, spawned, controllerLog, claimant>>
      BY <1>7 DEF RecordLaunch
    <3>3. \/ /\ seen[l] = "claim_observed"
             /\ at' = [at EXCEPT ![l] = "unlock"]
             /\ result' = [result EXCEPT ![l] = "started"]
          \/ at' = [at EXCEPT ![l] = "kill"] /\ result' = result
      BY <1>7, <2>2 DEF RecordLaunch
    <3>4. o \in Outputs /\ seen[l] \in StartupStates
      BY DEF LaunchTypeOK
    <3>5. [by |-> l, state |-> seen[l]] \in
            [by : Detached \cup {None}, state : StartupStates]
      BY <3>4
    <3>6. LaunchTypeOK'
      <4>1. launchReceipt' \in
              [Outputs -> [by : Detached \cup {None}, state : StartupStates]]
        BY <3>1, <3>4, <3>5 DEF LaunchTypeOK
      <4>2. at' \in [Detached -> Places]
        BY <3>3 DEF LaunchTypeOK, Places
      <4>3. result' \in [Detached -> {"none", "refused", "failed", "started",
                                      "interrupted", "killed"}]
        BY <3>3 DEF LaunchTypeOK
      <4> QED BY <3>2, <4>1, <4>2, <4>3 DEF LaunchTypeOK
    <3>7. PlaceInv'
      BY <3>1, <3>2, <3>3 DEF LaunchTypeOK, PlaceInv, Before
    <3>8. launchReceipt'[o] = [by |-> l, state |-> seen[l]]
      BY <3>1, <3>4 DEF LaunchTypeOK
    <3>9. \A p \in Outputs \ {o} : launchReceipt'[p] = launchReceipt[p]
      BY <3>1 DEF LaunchTypeOK
    <3>10. OutcomeInv'
      <4>1. ASSUME NEW k \in Detached, result'[k] = "started"
            PROVE  launchReceipt'[OutputOf[k]] = [by |-> k, state |-> "claim_observed"]
        <5>1. CASE k = l
          BY <3>1, <3>3, <3>8, <4>1, <5>1 DEF PlaceInv
        <5>2. CASE k # l
          <6>1. launchReceipt[OutputOf[k]] = [by |-> k, state |-> "claim_observed"]
            BY <3>3, <4>1, <5>2 DEF OutcomeInv, LaunchTypeOK
          <6>2. OutputOf[k] # o
            BY <3>1, <6>1 DEF NoReceipt
          <6> QED BY <3>9, <6>1, <6>2
        <5> QED BY <5>1, <5>2
      <4> QED BY <3>2, <3>3, <4>1 DEF OutcomeInv, LaunchTypeOK
    <3>11. SpawnInv'
      BY <3>2 DEF SpawnInv, OneController
    <3>12. ClaimInv'
      <4>1. ASSUME NEW p \in Outputs, launchReceipt'[p].state = "claim_observed"
            PROVE  /\ launchReceipt'[p].by \in Detached
                   /\ OutputOf[launchReceipt'[p].by] = p
                   /\ seen[launchReceipt'[p].by] = "claim_observed"
        BY <3>8, <3>9, <4>1 DEF ClaimInv
      <4> QED BY <3>2, <4>1 DEF ClaimInv
    <3> QED BY <3>6, <3>7, <3>10, <3>11, <3>12
  <2> QED BY <2>1, <2>2
<1>8. CASE KillController(l)
  <2>1. LaunchTypeOK'
    BY <1>8 DEF KillController, Crash, Goto, Ended, LaunchTypeOK, Places, StartupStates
  <2>2. PlaceInv'
    BY <1>8 DEF KillController, Crash, Goto, Ended, LaunchTypeOK, PlaceInv, Before
  <2>3. OutcomeInv'
    <3>1. pc'[l] \in Ended /\ \A k \in Detached \ {l} : pc'[k] = pc[k]
      BY <1>8 DEF KillController, Crash, Goto, Ended, IInv, TypeOK
    <3>2. result' = [result EXCEPT ![l] = "failed"] /\ UNCHANGED <<spawned, launchReceipt>>
      BY <1>8 DEF KillController
    <3> QED BY <3>1, <3>2 DEF LaunchTypeOK, OutcomeInv
  <2>4. SpawnInv'
    BY <1>8 DEF KillController, Crash, Goto, Ended, LaunchTypeOK, SpawnInv, OneController
  <2>5. ClaimInv'
    BY <1>8 DEF KillController, Crash, Goto, Ended, LaunchTypeOK, PlaceInv, ClaimInv, Before
  <2> QED BY <2>1, <2>2, <2>3, <2>4, <2>5
<1>9. CASE ReleaseLaunchLock(l)
  <2>1. LaunchTypeOK'
    BY <1>9 DEF ReleaseLaunchLock, LaunchTypeOK, Places, StartupStates
  <2>2. PlaceInv'
    BY <1>9 DEF ReleaseLaunchLock, LaunchTypeOK, PlaceInv, Before
  <2>3. OutcomeInv'
    BY <1>9 DEF ReleaseLaunchLock, LaunchTypeOK, PlaceInv, OutcomeInv, Before
  <2>4. SpawnInv'
    BY <1>9 DEF ReleaseLaunchLock, LaunchTypeOK, SpawnInv, OneController
  <2>5. ClaimInv'
    BY <1>9 DEF ReleaseLaunchLock, LaunchTypeOK, PlaceInv, ClaimInv, Before
  <2> QED BY <2>1, <2>2, <2>3, <2>4, <2>5
<1>10. CASE InterruptLauncher(l)
  <2>1. LaunchTypeOK'
    BY <1>10 DEF InterruptLauncher, LaunchTypeOK, Places, StartupStates
  <2>2. PlaceInv'
    BY <1>10 DEF InterruptLauncher, LaunchTypeOK, PlaceInv, Before
  <2>3. OutcomeInv'
    BY <1>10 DEF InterruptLauncher, LaunchTypeOK, PlaceInv, OutcomeInv, Before
  <2>4. SpawnInv'
    BY <1>10 DEF InterruptLauncher, LaunchTypeOK, SpawnInv, OneController
  <2>5. ClaimInv'
    BY <1>10 DEF InterruptLauncher, LaunchTypeOK, PlaceInv, ClaimInv, Before
  <2> QED BY <2>1, <2>2, <2>3, <2>4, <2>5
<1>11. CASE CrashLauncher(l)
  <2>1. LaunchTypeOK'
    BY <1>11 DEF CrashLauncher, LaunchTypeOK, Places, StartupStates
  <2>2. PlaceInv'
    BY <1>11 DEF CrashLauncher, LaunchTypeOK, PlaceInv, Before
  <2>3. OutcomeInv'
    BY <1>11 DEF CrashLauncher, LaunchTypeOK, PlaceInv, OutcomeInv, Before
  <2>4. SpawnInv'
    BY <1>11 DEF CrashLauncher, LaunchTypeOK, SpawnInv, OneController
  <2>5. ClaimInv'
    BY <1>11 DEF CrashLauncher, LaunchTypeOK, PlaceInv, ClaimInv, Before
  <2> QED BY <2>1, <2>2, <2>3, <2>4, <2>5
<1> QED BY <1>1, <1>2, <1>3, <1>4, <1>5, <1>6, <1>7, <1>8, <1>9, <1>10, <1>11
        DEF Launcher

\* The launchers and their controllers keep the invariant.
THEOREM LaunchInvariance == LaunchSpec => [](IInv /\ LockInv /\ LInv)
<1>1. IInv /\ LockInv /\ LInv /\ [LaunchNext]_allVars => (LockInv /\ LInv)'
  <2> SUFFICES ASSUME IInv, LockInv, LInv, [LaunchNext]_allVars
               PROVE  LockInv' /\ LInv'
    OBVIOUS
  <2>1. CASE UNCHANGED allVars
    BY <2>1 DEF allVars, vars, launchVars, locks, LockInv, LInv, LaunchTypeOK,
       PlaceInv, OutcomeInv, SpawnInv, ClaimInv, OneController
  <2>2. ASSUME NEW l \in Detached, Launcher(l) PROVE LockInv' /\ LInv'
    <3>1. CASE UNCHANGED vars
      BY <2>2, <3>1, LauncherInv DEF vars, locks, LockInv
    <3>2. CASE Crash(l)
      BY <2>2, <3>2, LauncherInv, LockStep, DetachedAssumption DEF Cut
    <3> QED BY <2>2, <3>1, <3>2, LauncherIsGoverned
  <2>3. ASSUME NEW r \in Runs, Controller(r) PROVE LockInv' /\ LInv'
    <3>1. Step(r) \/ Cut(r)
      BY <2>3 DEF Controller
    <3> QED BY <2>3, <3>1, ControllerInv, LockStep
  <2> QED BY <2>1, <2>2, <2>3 DEF LaunchNext
<1> QED BY <1>1, LaunchInitInv, GovernedInv, PTL DEF LaunchSpec

\* A result path gets at most one detached controller, ever.
THEOREM OneControllerOnly == LaunchSpec => []OneController
<1>1. LInv => OneController
  BY DEF LInv, SpawnInv
<1> QED BY <1>1, LaunchInvariance, PTL

\* A receipt that reports a claim names the process that made it.
THEOREM ReceiptIsTrue == LaunchSpec => []ReceiptNamesClaimant
<1>1. LInv => ReceiptNamesClaimant
  BY DEF LInv, ClaimInv, ReceiptNamesClaimant
<1> QED BY <1>1, LaunchInvariance, PTL

\* No controller outlives a launcher that failed.
THEOREM FailedLaunchLeavesNothing == LaunchSpec => []NoUnrecordedController
<1>1. LInv => NoUnrecordedController
  <2> SUFFICES ASSUME LInv, NEW l \in spawned, at[l] = "returned",
                      result[l] \notin {"interrupted", "killed"}
               PROVE  \/ pc[l] \in Ended
                      \/ launchReceipt[OutputOf[l]] =
                           [by |-> l, state |-> "claim_observed"]
    BY DEF NoUnrecordedController
  <2>1. l \in Detached /\ result[l] \in {"failed", "started"}
    BY DEF LInv, LaunchTypeOK, PlaceInv, OutcomeInv
  <2> QED BY <2>1 DEF LInv, OutcomeInv
<1> QED BY <1>1, LaunchInvariance, PTL
=============================================================================
