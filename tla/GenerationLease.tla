--------------------------- MODULE GenerationLease --------------------------
(***************************************************************************)
(* The governed run of m3_prompt_only_execution.py: a probe or a pilot     *)
(* takes its output lock, the two-part generation lease (a local O_EXCL    *)
(* file per project root, one directory on the shared host), consumes its  *)
(* single-use authorization, touches the host, tears down, and releases    *)
(* the lease or leaves it as a quarantine marker.                          *)
(*                                                                         *)
(* _run_locked (pilot) and _run_probe_locked (probe) share this machine.   *)
(* Every remote command may fail without effect, take effect, or take      *)
(* effect and lose its answer; a controller may be killed or interrupted   *)
(* at any step.                                                            *)
(***************************************************************************)
EXTENDS Naturals

CONSTANTS Runs,       \* controller processes, each one call of run_authorized_*
          Roots,      \* project roots: checkouts, each with its .runs directory
          Outputs,    \* result paths; an authorization binds exactly one
          RootOf,     \* the checkout a run executes from
          OutputOf,   \* the result path, hence the authorization, of a run
          None

ASSUME LeaseAssumption == /\ RootOf \in [Runs -> Roots]
                          /\ OutputOf \in [Runs -> Outputs]
                          /\ None \notin Runs

VARIABLES
  pc,               \* where each controller is
  stage,            \* _LifecyclePermit.stage
  outputLock,       \* <output>.lock
  artifacts,        \* the other siblings of each output that exist
  localLock,        \* .runs/<screen>-generation-lease.lock of each root
  remoteLease,      \* who made /tmp/<screen>-generation-lease, or None
  slotDir,          \* who made the slot-action directory, or None
  slotRequired,     \* runs with lifecycle["slot_action_dir_required"]
  server,           \* each run's OFF server on the host
  leaseAcquired, releaseAttempted, released,   \* the flags of _run_locked
  failed,           \* runs whose failure_error is set
  evidenceLost,     \* history: runs that could not write a lease audit (their
                    \* acquisition was interrupted, or the write failed)
  tries             \* unverified attempts of the running teardown call

locks  == <<outputLock, localLock, remoteLease>>
host   == <<slotDir, slotRequired, server>>
flags  == <<leaseAcquired, releaseAttempted, released, failed, evidenceLost>>
vars   == <<pc, stage, locks, artifacts, host, flags, tries>>

Ended == {"done", "refused", "crashed"}

Pcs == {"start", "checked", "locked", "prepared", "probing", "mkdir", "verify",
        "undo", "undo_check", "rollback", "leased", "claimed", "launching",
        "slot_ready", "served", "active", "teardown", "quiesce", "release",
        "release_check", "release_local", "receipt", "cleanup", "gate",
        "audit", "unlock"} \cup Ended

Stages == {"validated", "revalidated", "launching", "active", "teardown", "closed"}

Artifacts == {"config_dir", "claim", "consumed", "active", "ledger", "receipt",
              "teardown_failure", "substrate_receipt", "lease_audit"}

\* "untracked": alive on the host while lifecycle["server"] is None.
ServerStates == {"none", "tracked", "untracked", "dead"}

Consumed(r)         == stage[r] \notin {"validated", "revalidated"}
LifecycleStarted(r) == stage[r] \in {"launching", "active", "teardown", "closed"}
TeardownVerified(r) == stage[r] = "closed"

-----------------------------------------------------------------------------
Init ==
  /\ pc = [r \in Runs |-> "start"]
  /\ stage = [r \in Runs |-> "validated"]
  /\ outputLock = [o \in Outputs |-> None]
  /\ artifacts = [o \in Outputs |-> {}]
  /\ localLock = [p \in Roots |-> None]
  /\ remoteLease = None
  /\ slotDir = None
  /\ slotRequired = {}
  /\ server = [r \in Runs |-> "none"]
  /\ leaseAcquired = {} /\ releaseAttempted = {} /\ released = {} /\ failed = {}
  /\ evidenceLost = {}
  /\ tries = [r \in Runs |-> 0]

Goto(r, l) == pc' = [pc EXCEPT ![r] = l]

SetStage(r, s) == stage' = [stage EXCEPT ![r] = s]

Persist(r, as) == artifacts' = [artifacts EXCEPT ![OutputOf[r]] = @ \cup as]

\* The except clause of _run_locked: the error is kept for the audit and the
\* outer finally runs.
Fail(r) == /\ failed' = failed \cup {r}
           /\ Goto(r, "cleanup")

KeepFlags == UNCHANGED <<leaseAcquired, releaseAttempted, released, evidenceLost>>

-----------------------------------------------------------------------------
(* Before the protected region.                                            *)

\* Validation, the not-consumed check and the runtime revalidation; the last
\* may fail, and the authorization may expire meanwhile.
Revalidate(r) ==
  /\ pc[r] = "start"
  /\ \/ /\ "consumed" \notin artifacts[OutputOf[r]]
        /\ SetStage(r, "revalidated")
        /\ Goto(r, "checked")
     \/ Goto(r, "refused") /\ UNCHANGED stage
  /\ UNCHANGED <<locks, artifacts, host, flags, tries>>

AcquireOutputLock(r) ==
  /\ pc[r] = "checked"
  /\ IF outputLock[OutputOf[r]] = None
     THEN /\ outputLock' = [outputLock EXCEPT ![OutputOf[r]] = r]
          /\ Goto(r, "locked")
     ELSE Goto(r, "refused") /\ UNCHANGED outputLock
  /\ UNCHANGED <<stage, localLock, remoteLease, artifacts, host, flags, tries>>

\* _require_fresh_result_paths. (The orphan-recovery sibling is not listed
\* there; a launch failure finds no active marker, so it is never written.)
ResultPathsFresh(r) == artifacts[OutputOf[r]] = {}

\* A stale sibling, or a config that does not validate, raises before the
\* protected region: only the output lock is given back.
PrepareConfig(r) ==
  /\ pc[r] = "locked"
  /\ \/ /\ ResultPathsFresh(r)
        /\ Persist(r, {"config_dir"})
        /\ Goto(r, "prepared")
     \/ Goto(r, "unlock") /\ UNCHANGED artifacts
  /\ UNCHANGED <<stage, locks, host, flags, tries>>

-----------------------------------------------------------------------------
(* _acquire_generation_lease.                                              *)

AcquireLocalLease(r) ==
  /\ pc[r] = "prepared"
  /\ IF localLock[RootOf[r]] = None
     THEN /\ localLock' = [localLock EXCEPT ![RootOf[r]] = r]
          /\ Goto(r, "probing")
          /\ UNCHANGED failed
     ELSE Fail(r) /\ UNCHANGED localLock
  /\ KeepFlags
  /\ UNCHANGED <<stage, outputLock, remoteLease, artifacts, host, tries>>

RequireRemoteAbsent(r) ==
  /\ pc[r] = "probing"
  /\ \/ remoteLease = None /\ Goto(r, "mkdir")
     \/ Goto(r, "rollback")
  /\ UNCHANGED <<stage, locks, artifacts, host, flags, tries>>

\* Mutant: mkdir -p, which does not fail on a directory that is there.
Mutant_MkdirParents(r) ==
  /\ pc[r] = "mkdir"
  /\ remoteLease' = r
  /\ Goto(r, "verify")
  /\ UNCHANGED <<stage, outputLock, localLock, artifacts, host, flags, tries>>

\* mkdir stands outside the try: a loser, or a run that lost the answer, never
\* removes a directory it does not know to be its own.
MkdirRemoteLease(r) ==
  /\ pc[r] = "mkdir"
  /\ \/ /\ remoteLease = None
        /\ remoteLease' = r
        /\ Goto(r, "verify") \/ Goto(r, "rollback")
     \/ Goto(r, "rollback") /\ UNCHANGED remoteLease
  /\ UNCHANGED <<stage, outputLock, localLock, artifacts, host, flags, tries>>

\* chmod, owner and emptiness checks of the new directory.
VerifyRemoteLease(r) ==
  /\ pc[r] = "verify"
  /\ \/ Goto(r, "leased") /\ leaseAcquired' = leaseAcquired \cup {r}
     \/ Goto(r, "undo") /\ UNCHANGED leaseAcquired
  /\ UNCHANGED <<stage, locks, artifacts, host, releaseAttempted, released,
                 failed, evidenceLost, tries>>

\* The best-effort rmdir: its failure is swallowed.
UndoRemoteLease(r) ==
  /\ pc[r] = "undo"
  /\ remoteLease' \in {None, remoteLease}
  /\ Goto(r, "undo_check")
  /\ UNCHANGED <<stage, outputLock, localLock, artifacts, host, flags, tries>>

\* _GenerationLeaseAcquireQuarantineError: ownership is unknown, both parts
\* stay and no release will be attempted.
QuarantineAcquire(r) ==
  /\ leaseAcquired' = leaseAcquired \cup {r}
  /\ releaseAttempted' = releaseAttempted \cup {r}
  /\ UNCHANGED <<released, evidenceLost>>
  /\ Fail(r)

CheckUndo(r) ==
  /\ pc[r] = "undo_check"
  /\ \/ remoteLease = None /\ Goto(r, "rollback") /\ UNCHANGED flags
     \/ QuarantineAcquire(r)
  /\ UNCHANGED <<stage, locks, artifacts, host, tries>>

\* The local lock is unlinked only when it still names this authorization.
RollbackLocalLease(r) ==
  /\ pc[r] = "rollback"
  /\ \/ /\ localLock[RootOf[r]] = r
        /\ localLock' = [localLock EXCEPT ![RootOf[r]] = None]
        /\ Fail(r)
        /\ KeepFlags
     \/ QuarantineAcquire(r) /\ UNCHANGED localLock
  /\ UNCHANGED <<stage, outputLock, remoteLease, artifacts, host, tries>>

-----------------------------------------------------------------------------
(* Consumption and the launch.                                             *)

PrepareClaim(r) ==
  /\ pc[r] = "leased"
  /\ \/ Persist(r, {"claim"}) /\ Goto(r, "claimed") /\ UNCHANGED failed
     \/ Fail(r) /\ UNCHANGED artifacts
  /\ KeepFlags
  /\ UNCHANGED <<stage, locks, host, tries>>

\* The marker is linked without overwrite; cleanup is armed before the host is
\* touched (stages consumed and launching, lifecycle_started). A failure after
\* the link leaves the marker of a run that never touched the host.
ConsumeAuthorization(r) ==
  /\ pc[r] = "claimed"
  /\ \/ /\ "consumed" \notin artifacts[OutputOf[r]]
        /\ Persist(r, {"consumed"})
        /\ \/ /\ SetStage(r, "launching")
              /\ Goto(r, "launching")
              /\ UNCHANGED failed
           \/ Fail(r) /\ UNCHANGED stage
     \/ Fail(r) /\ UNCHANGED <<artifacts, stage>>
  /\ KeepFlags
  /\ UNCHANGED <<locks, host, tries>>

\* A failed preparation may leave the directory behind: the answer to mkdir or
\* the rollback's rmdir can be lost.
PrepareSlotActionDirectory(r) ==
  /\ pc[r] = "launching"
  /\ \/ /\ slotDir = None
        /\ slotDir' = r
        /\ slotRequired' = slotRequired \cup {r}
        /\ Goto(r, "slot_ready")
        /\ UNCHANGED failed
     \/ /\ slotDir' \in IF slotDir = None THEN {None, r} ELSE {slotDir}
        /\ Fail(r)
        /\ UNCHANGED slotRequired
  /\ KeepFlags
  /\ UNCHANGED <<stage, locks, artifacts, server, tries>>

\* launch_off_server_remote. A failure either leaves no server, or one that
\* the recovery killed and verified, or one it could not: that one is in no
\* lifecycle object. The recovery evidence is written on most failing paths.
LaunchServer(r) ==
  /\ pc[r] = "slot_ready"
  /\ \/ /\ server' = [server EXCEPT ![r] = "tracked"]
        /\ Goto(r, "served")
        /\ UNCHANGED <<artifacts, failed>>
     \/ /\ \E s \in {"none", "dead", "untracked"} :
             server' = [server EXCEPT ![r] = s]
        /\ Persist(r, {}) \/ Persist(r, {"active"})
        /\ Fail(r)
  /\ KeepFlags
  /\ UNCHANGED <<stage, locks, slotDir, slotRequired, tries>>

\* When the tunnel fails the tracked server is terminated at once; either way
\* the lifecycle object still names it.
LaunchTunnel(r) ==
  /\ pc[r] = "served"
  /\ \/ SetStage(r, "active") /\ Goto(r, "active") /\ UNCHANGED <<server, failed>>
     \/ /\ \E s \in {"tracked", "dead"} : server' = [server EXCEPT ![r] = s]
        /\ Fail(r)
        /\ UNCHANGED stage
  /\ KeepFlags
  /\ UNCHANGED <<locks, artifacts, slotDir, slotRequired, tries>>

\* Readiness and the cells (pilot) or the one slot clear (probe). A failing
\* cell may leave its active marker and a prefix of the ledger.
RunCells(r) ==
  /\ pc[r] = "active"
  /\ \/ Persist(r, {"ledger", "receipt"}) /\ Goto(r, "teardown") /\ UNCHANGED failed
     \/ Fail(r) /\ \E as \in SUBSET {"ledger", "active"} : Persist(r, as)
  /\ KeepFlags
  /\ UNCHANGED <<stage, locks, host, tries>>

-----------------------------------------------------------------------------
(* Teardown and release.                                                   *)

\* The conjunction that derives `verified`; `ok` stands for the checks of the
\* local processes, the PID file, the log and the unrelated service. A server
\* outside the lifecycle object counts as dead.
Verified(r, ok) == ok /\ server'[r] # "tracked" /\ slotDir' = None

\* One _stop_live_lifecycle: only a server in the lifecycle object is killed,
\* only a required slot directory is removed.
StopLiveLifecycle(r, verified) ==
  \E killed, removed, ok \in BOOLEAN :
    /\ server' = IF killed /\ server[r] = "tracked"
                 THEN [server EXCEPT ![r] = "dead"] ELSE server
    /\ slotDir' = IF removed /\ r \in slotRequired THEN None ELSE slotDir
    /\ verified = Verified(r, ok)
    /\ UNCHANGED slotRequired

InTeardown(r) ==
  \/ pc[r] = "teardown"
  \/ pc[r] = "cleanup" /\ LifecycleStarted(r) /\ ~TeardownVerified(r)

\* retries=1: the second unverified attempt of a call is its last.
LastTry(r) == tries[r] = 1

VerifyTeardown(r) ==
  /\ InTeardown(r)
  /\ StopLiveLifecycle(r, TRUE)
  /\ SetStage(r, "closed")
  /\ tries' = [tries EXCEPT ![r] = 0]
  /\ Goto(r, IF pc[r] = "teardown" THEN "quiesce" ELSE "gate")
  /\ UNCHANGED <<locks, artifacts, flags>>

\* _ensure_verified_teardown makes two attempts, then persists the failure, if
\* it can, and raises; the outer finally calls it once more, and there the error
\* leaves the release gate still to run.
FailTeardown(r) ==
  /\ InTeardown(r)
  /\ StopLiveLifecycle(r, FALSE)
  /\ SetStage(r, "teardown")
  /\ IF LastTry(r)
     THEN /\ tries' = [tries EXCEPT ![r] = 0]
          /\ Persist(r, {}) \/ Persist(r, {"teardown_failure"})
          /\ failed' = failed \cup {r}
          /\ Goto(r, IF pc[r] = "teardown" THEN "cleanup" ELSE "gate")
     ELSE /\ tries' = [tries EXCEPT ![r] = @ + 1]
          /\ UNCHANGED <<pc, artifacts, failed>>
  /\ KeepFlags
  /\ UNCHANGED locks

\* Final quiescence and remote bundle checks, then the one release attempt.
FinalChecks(r) ==
  /\ pc[r] = "quiesce"
  /\ \/ /\ releaseAttempted' = releaseAttempted \cup {r}
        /\ Goto(r, "release")
        /\ UNCHANGED failed
     \/ Fail(r) /\ UNCHANGED releaseAttempted
  /\ UNCHANGED <<stage, locks, artifacts, host, leaseAcquired, released,
                 evidenceLost, tries>>

\* In the try the error fails the run; in the finally it is only recorded.
ReleaseError(r) == IF r \in failed
                   THEN Goto(r, "audit") /\ UNCHANGED failed
                   ELSE Fail(r)

\* release_generation_lease verifies, then rmdir, which removes the directory
\* whoever made it.
ReleaseRemoteLease(r) ==
  /\ pc[r] = "release"
  /\ \/ /\ remoteLease # None
        /\ remoteLease' = None
        /\ \/ Goto(r, "release_check") /\ UNCHANGED failed
           \/ ReleaseError(r)
     \/ ReleaseError(r) /\ UNCHANGED remoteLease
  /\ KeepFlags
  /\ UNCHANGED <<stage, outputLock, localLock, artifacts, host, tries>>

\* Another run may have taken the host between rmdir and the absence check.
CheckRemoteReleased(r) ==
  /\ pc[r] = "release_check"
  /\ \/ remoteLease = None /\ Goto(r, "release_local") /\ UNCHANGED failed
     \/ ReleaseError(r)
  /\ KeepFlags
  /\ UNCHANGED <<stage, locks, artifacts, host, tries>>

ReleaseLocalLease(r) ==
  /\ pc[r] = "release_local"
  /\ \/ /\ localLock[RootOf[r]] = r
        /\ localLock' = [localLock EXCEPT ![RootOf[r]] = None]
        /\ released' = released \cup {r}
        /\ Goto(r, IF r \in failed THEN "audit" ELSE "receipt")
        /\ UNCHANGED failed
     \/ ReleaseError(r) /\ UNCHANGED <<localLock, released>>
  /\ UNCHANGED <<stage, outputLock, remoteLease, artifacts, host,
                 leaseAcquired, releaseAttempted, evidenceLost, tries>>

WriteSubstrateReceipt(r) ==
  /\ pc[r] = "receipt"
  /\ \/ Persist(r, {"substrate_receipt"}) /\ Goto(r, "cleanup") /\ UNCHANGED failed
     \/ Fail(r) /\ UNCHANGED artifacts
  /\ KeepFlags
  /\ UNCHANGED <<stage, locks, host, tries>>

\* The finally of a run without side effects, or already torn down.
SkipTeardown(r) ==
  /\ pc[r] = "cleanup"
  /\ LifecycleStarted(r) => TeardownVerified(r)
  /\ Goto(r, "gate")
  /\ UNCHANGED <<stage, locks, artifacts, host, flags, tries>>

\* Mutant: the gate forgets the lifecycle.
Mutant_MayRelease(r) == r \in leaseAcquired /\ r \notin releaseAttempted

MayRelease(r) == /\ r \in leaseAcquired
                 /\ r \notin released
                 /\ r \notin releaseAttempted
                 /\ ~LifecycleStarted(r) \/ TeardownVerified(r)

ReleaseGate(r) ==
  /\ pc[r] = "gate"
  /\ IF MayRelease(r)
     THEN /\ releaseAttempted' = releaseAttempted \cup {r}
          /\ Goto(r, "release")
     ELSE Goto(r, "audit") /\ UNCHANGED releaseAttempted
  /\ UNCHANGED <<stage, locks, artifacts, host, leaseAcquired, released,
                 failed, evidenceLost, tries>>

\* An unconsumed grant stays usable: its config directory is removed.
Removed(r) == IF Consumed(r) THEN {} ELSE {"config_dir"}

\* Mutant: only a release that was never attempted is audited.
Mutant_AuditUnattempted(r) == r \in failed /\ r \in leaseAcquired \ releaseAttempted

AuditDue(r) == r \in failed /\ r \in leaseAcquired

\* Removal and audit are best effort: their errors are swallowed, and the run
\* goes on without the audit. A probe writes its failure receipt, which is its
\* audit, even when it never had the lease.
Audit(r) ==
  /\ pc[r] = "audit"
  /\ \E gone \in SUBSET Removed(r), written \in SUBSET {"lease_audit"} :
       /\ written # {} => r \in failed
       /\ artifacts' = [artifacts EXCEPT ![OutputOf[r]] = (@ \ gone) \cup written]
       /\ evidenceLost' = IF AuditDue(r) /\ written = {}
                          THEN evidenceLost \cup {r} ELSE evidenceLost
  /\ Goto(r, "unlock")
  /\ UNCHANGED <<stage, locks, host, leaseAcquired, releaseAttempted, released,
                 failed, tries>>

\* Mutant: the output lock is not given back.
Mutant_KeepOutputLock(r) ==
  /\ pc[r] = "unlock"
  /\ Goto(r, "done")
  /\ UNCHANGED <<stage, locks, artifacts, host, flags, tries>>

\* Mutant: the siblings go with the lock, the consumed marker included.
Mutant_UnlinkSiblings(r) ==
  /\ pc[r] = "unlock"
  /\ outputLock' = [outputLock EXCEPT ![OutputOf[r]] = None]
  /\ artifacts' = [artifacts EXCEPT ![OutputOf[r]] = {}]
  /\ Goto(r, "done")
  /\ UNCHANGED <<stage, localLock, remoteLease, host, flags, tries>>

ReleaseOutputLock(r) ==
  /\ pc[r] = "unlock"
  /\ outputLock' = [outputLock EXCEPT ![OutputOf[r]] = None]
  /\ Goto(r, "done")
  /\ UNCHANGED <<stage, localLock, remoteLease, artifacts, host, flags, tries>>

-----------------------------------------------------------------------------
\* SIGKILL or power loss: every file, directory and server stays as it is.
Crash(r) == /\ pc[r] \notin Ended
            /\ Goto(r, "crashed")
            /\ UNCHANGED <<stage, locks, artifacts, host, flags, tries>>

Acquiring == {"prepared", "probing", "mkdir", "verify", "undo", "undo_check",
              "rollback"}

\* KeyboardInterrupt and SystemExit pass every `except Exception`. During the
\* acquisition nothing is rolled back and lease_acquired is not set, so the
\* finally clause neither releases nor audits what was already made.
InterruptAcquire(r) ==
  /\ pc[r] \in Acquiring
  /\ Fail(r)
  /\ evidenceLost' = evidenceLost \cup {r}
  /\ UNCHANGED <<stage, locks, artifacts, host, leaseAcquired, releaseAttempted,
                 released, tries>>

\* A teardown that is cut off is not retried and persists no failure.
InterruptTeardown(r) ==
  /\ InTeardown(r)
  /\ StopLiveLifecycle(r, FALSE)
  /\ SetStage(r, "teardown")
  /\ tries' = [tries EXCEPT ![r] = 0]
  /\ failed' = failed \cup {r}
  /\ Goto(r, IF pc[r] = "teardown" THEN "cleanup" ELSE "gate")
  /\ KeepFlags
  /\ UNCHANGED <<locks, artifacts>>

\* The release that is due is not begun; the audit of the inner finally is.
InterruptGate(r) ==
  /\ pc[r] = "gate"
  /\ Goto(r, "audit")
  /\ UNCHANGED <<stage, locks, artifacts, host, flags, tries>>

\* Anywhere else an interrupt does what a failure of the step does.
Interrupt(r) == InterruptAcquire(r) \/ InterruptTeardown(r) \/ InterruptGate(r)

Acquire(r) == \/ Revalidate(r) \/ AcquireOutputLock(r) \/ PrepareConfig(r)
              \/ AcquireLocalLease(r) \/ RequireRemoteAbsent(r)
              \/ MkdirRemoteLease(r) \/ VerifyRemoteLease(r)
              \/ UndoRemoteLease(r) \/ CheckUndo(r) \/ RollbackLocalLease(r)

Execute(r) == \/ PrepareClaim(r) \/ ConsumeAuthorization(r)
              \/ PrepareSlotActionDirectory(r) \/ LaunchServer(r)
              \/ LaunchTunnel(r) \/ RunCells(r)

Finish(r) == \/ VerifyTeardown(r) \/ FailTeardown(r) \/ FinalChecks(r)
             \/ ReleaseRemoteLease(r) \/ CheckRemoteReleased(r)
             \/ ReleaseLocalLease(r) \/ WriteSubstrateReceipt(r)
             \/ SkipTeardown(r) \/ ReleaseGate(r) \/ Audit(r)
             \/ ReleaseOutputLock(r)

Step(r) == Acquire(r) \/ Execute(r) \/ Finish(r)

\* What ends a run early.
Cut(r) == Interrupt(r) \/ Crash(r)

Next == \E r \in Runs : Step(r) \/ Cut(r)

Spec == Init /\ [][Next]_vars

\* A controller is one sequential process and every command it waits for has
\* a timeout: it keeps taking steps until it ends or is killed.
FairSpec == Spec /\ \A r \in Runs : WF_vars(Step(r))
-----------------------------------------------------------------------------
(* Properties.                                                             *)

\* Types. A call of the teardown never passes its one retry.
TypeOK ==
  /\ pc \in [Runs -> Pcs]
  /\ stage \in [Runs -> Stages]
  /\ outputLock \in [Outputs -> Runs \cup {None}]
  /\ artifacts \in [Outputs -> SUBSET Artifacts]
  /\ localLock \in [Roots -> Runs \cup {None}]
  /\ remoteLease \in Runs \cup {None}
  /\ slotDir \in Runs \cup {None}
  /\ slotRequired \subseteq Runs
  /\ server \in [Runs -> ServerStates]
  /\ leaseAcquired \subseteq Runs /\ releaseAttempted \subseteq Runs
  /\ released \subseteq Runs /\ failed \subseteq Runs
  /\ evidenceLost \subseteq Runs
  /\ tries \in [Runs -> 0 .. 1]

\* From the moment cleanup is armed until teardown is verified a run holds both
\* parts of the lease, for ever if teardown never verifies or the controller
\* is killed. Two runs therefore never touch the host at once.
EffectsUnderLease ==
  \A r \in Runs : LifecycleStarted(r) /\ ~TeardownVerified(r) =>
    remoteLease = r /\ localLock[RootOf[r]] = r

\* A server that the lifecycle object names is never alive on a host whose
\* quarantine marker is not this run's.
TrackedServerUnderLease ==
  \A r \in Runs : server[r] = "tracked" => remoteLease = r

\* An authorization is consumed by one run: no resume and no relaunch, whatever
\* crashed or failed in between.
SingleUse ==
  \A r, q \in Runs : /\ OutputOf[r] = OutputOf[q]
                     /\ Consumed(r)
                     /\ Consumed(q)
                     => r = q

\* Release is remote-first: a run that had the whole lease never leaves its
\* directory on the host without the local lock that explains it.
RemoteReleasedFirst ==
  \A r \in Runs : r \in leaseAcquired /\ remoteLease = r => localLock[RootOf[r]] = r

\* A run that returns with the local lock still in place left the audit that an
\* adjudicator needs to remove it, however the lease came to stay: an acquisition
\* whose rollback could not be verified, a teardown that never verified, or a
\* release that failed half-way, in the try or in the finally. There are two
\* exceptions, and no third: the acquisition was interrupted before the run knew
\* that it had the lease, or the audit itself could not be written.
QuarantineAudited ==
  \A r \in Runs : pc[r] = "done" /\ localLock[RootOf[r]] = r =>
    "lease_audit" \in artifacts[OutputOf[r]] \/ r \in evidenceLost

\* Only the run that made the host's lease directory ever removes it, whatever
\* other runs fail, roll back or release at the same time.
OwnerRemovesLease ==
  [][\A r \in Runs : remoteLease = r /\ remoteLease' # r => pc'[r] # pc[r]]_vars

\* Every run ends: refused, done with its output lock given back, or killed.
EveryRunEnds ==
  \A r \in Runs : <>(\/ pc[r] \in {"refused", "crashed"}
                     \/ pc[r] = "done" /\ outputLock[OutputOf[r]] # r)

Phase(r) == IF TeardownVerified(r) THEN "closed"
            ELSE IF LifecycleStarted(r) THEN "running" ELSE "fresh"

Quarantine == INSTANCE HostQuarantine WITH holder <- remoteLease,
                                           phase  <- [r \in Runs |-> Phase(r)]

\* The governed run implements the abstract quarantine of the host.
ImplementsQuarantine == Quarantine!Spec
=============================================================================
