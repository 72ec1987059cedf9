--------------------------- MODULE ServerLifecycle --------------------------
(***************************************************************************)
(* The host side of one governed run, command by command: the erase-only   *)
(* slot directory, the launch of the OFF server and the recovery of an     *)
(* orphan when it fails, the tunnel, and the retried teardown.             *)
(*                                                                         *)
(* What the controller believes (candidate, tracked, good) is kept apart   *)
(* from what is true on the host (proc, pidFile, slot). Each command may   *)
(* meet a fault: no effect, or an effect whose answer is lost; a process   *)
(* that outlives its SIGKILL and a stranger on the port are faults too. A  *)
(* behaviour has at most MaxFaults faults, and possibly none, so that      *)
(* fairness never relies on one to happen. An interrupt is a               *)
(* KeyboardInterrupt. The production service of the host is not ours: it   *)
(* may leave at any time, and for good, the state the preflight recorded.  *)
(***************************************************************************)
EXTENDS Naturals

CONSTANTS MaxFaults,    \* transport faults in a behaviour
          Interrupts    \* may the operator interrupt the controller?

ASSUME LifecycleAssumption == MaxFaults \in Nat /\ Interrupts \in BOOLEAN

VARIABLES
  proc,          \* the OFF server process: absent, loading, listening, dead
  pidFile,       \* the run's PID file exists on the host
  slot,          \* the slot-action directory exists on the host
  tunnel,        \* the local tunnel: none, running, stopped, or unowned: it
                 \* runs and lifecycle["tunnel_owned"] is not set
  pc, stage,
  candidate,     \* the PID of the server is known (partial receipt or recovered)
  tracked,       \* lifecycle["server"] is set
  slotRequired, slotReceipt,
  evidence,      \* persisted: "orphan" (recovery receipt), "teardown_failure"
  good,          \* every check of this teardown attempt held so far
  attempt,       \* attempts of this _ensure_verified_teardown call, 0 or 1
  call,          \* which call: in the try, or in the outer finally
  faults,        \* faults left
  faulty,        \* this teardown attempt met a fault
  interrupted,   \* the operator interrupted the controller
  serviceChanged \* the production service is not as the preflight saw it

hostVars == <<proc, pidFile, slot, tunnel>>
lifeVars == <<candidate, tracked, slotRequired, slotReceipt>>
tdVars   == <<good, attempt, call, faulty>>
envVars  == <<interrupted, serviceChanged>>
vars     == <<hostVars, lifeVars, tdVars, pc, stage, evidence, faults, envVars>>

Pcs == {"slot", "spawn", "identify", "poll", "resolve", "terminate",
        "remove_pid", "persist", "tunnel", "untunnel", "active", "td_local",
        "td_server", "td_pid", "td_service", "td_slot", "td_absent",
        "td_removed", "td_verdict", "ended"}

InTeardown == pc \in {"td_local", "td_server", "td_pid", "td_service", "td_slot",
                      "td_absent", "td_removed", "td_verdict"}

Alive(p) == p \in {"loading", "listening"}

Init ==
  /\ proc = "absent" /\ pidFile = FALSE /\ slot = FALSE /\ tunnel = "none"
  /\ pc = "slot" /\ stage = "launching"
  /\ candidate = FALSE /\ tracked = FALSE
  /\ slotRequired = FALSE /\ slotReceipt = FALSE
  /\ evidence = {}
  /\ good = TRUE /\ attempt = 0 /\ call = "try" /\ faulty = FALSE
  /\ faults \in 0 .. MaxFaults
  /\ interrupted = FALSE
  /\ serviceChanged \in BOOLEAN

Healthy == UNCHANGED <<faults, faulty, envVars>>
Fault   == /\ faults > 0
           /\ faults' = faults - 1
           /\ faulty' = TRUE
           /\ UNCHANGED envVars

\* An error leaves the try: the outer finally starts its own teardown call.
Raise == /\ pc' = "td_local"
         /\ call' = "final"
         /\ attempt' = 0
         /\ UNCHANGED good

-----------------------------------------------------------------------------
(* The host goes on by itself.                                             *)

ServerBinds == /\ proc = "loading"
               /\ proc' = "listening"
               /\ UNCHANGED <<pidFile, slot, tunnel, lifeVars, tdVars, pc,
                              stage, evidence, faults, envVars>>

ServerDies == /\ Alive(proc)
              /\ proc' = "dead"
              /\ UNCHANGED <<pidFile, slot, tunnel, lifeVars, tdVars, pc,
                             stage, evidence, faults, envVars>>

\* Its log has grown, its state has changed, or the host was rebooted: the
\* cursors of the preflight are never met again.
ServiceChanges == /\ ~serviceChanged
                  /\ serviceChanged' = TRUE
                  /\ UNCHANGED <<hostVars, lifeVars, tdVars, pc, stage,
                                 evidence, faults, interrupted>>

-----------------------------------------------------------------------------
(* Launch.                                                                 *)

\* prepare_slot_action_directory: a failure may leave the directory, and then
\* required stays FALSE.
PrepareSlotActionDirectory ==
  /\ pc = "slot"
  /\ \/ /\ slot' = TRUE /\ slotRequired' = TRUE
        /\ pc' = "spawn"
        /\ Healthy
        /\ UNCHANGED <<good, attempt, call>>
     \/ /\ slot' \in BOOLEAN
        /\ Fault /\ Raise
        /\ UNCHANGED slotRequired
  /\ UNCHANGED <<proc, pidFile, tunnel, candidate, tracked, slotReceipt, stage,
                 evidence>>

\* The connection may break before, between or after the commands of the
\* launch script.
SpawnBroken == /\ proc' \in {"absent", "loading"}
               /\ pidFile' \in {FALSE, proc' = "loading"}

\* The launch script starts the server, writes the PID file, echoes the PID.
SpawnServer ==
  /\ pc = "spawn"
  /\ \/ /\ proc' = "loading" /\ pidFile' = TRUE /\ candidate' = TRUE
        /\ pc' = "identify"
        /\ Healthy
     \/ /\ SpawnBroken
        /\ pc' = "resolve"
        /\ Fault
        /\ UNCHANGED candidate
  /\ UNCHANGED <<slot, tunnel, tracked, slotRequired, slotReceipt, good,
                 attempt, call, stage, evidence>>

\* Before the script runs: the log path must be absent, which is checked outside
\* the protected scope, and the port must be free, which is checked inside it.
RefuseSpawn ==
  /\ pc = "spawn"
  /\ \/ Raise /\ (Healthy \/ Fault)
     \/ pc' = "resolve" /\ Healthy /\ UNCHANGED <<good, attempt, call>>
  /\ UNCHANGED <<hostVars, lifeVars, stage, evidence>>

\* Process group, command line and environment marker of the new process; a
\* server that died, or that did not exec yet, fails the check.
IdentifyServer ==
  /\ pc = "identify"
  /\ \/ Alive(proc) /\ pc' = "poll" /\ Healthy
     \/ pc' = "resolve" /\ Healthy
     \/ pc' = "resolve" /\ Fault
  /\ UNCHANGED <<hostVars, lifeVars, good, attempt, call, stage, evidence>>

\* The bounded listener poll; it also gives up at its deadline and when the
\* authorization expires.
PollListener ==
  /\ pc = "poll"
  /\ \/ /\ proc = "listening"
        /\ tracked' = TRUE
        /\ pc' = "tunnel"
        /\ Healthy
     \/ pc' = "resolve" /\ Healthy /\ UNCHANGED tracked
     \/ pc' = "resolve" /\ Fault /\ UNCHANGED tracked
  /\ UNCHANGED <<hostVars, candidate, slotRequired, slotReceipt, good, attempt,
                 call, stage, evidence>>

-----------------------------------------------------------------------------
(* _recover_orphan_server.                                                 *)

\* The PID file, then a scan of /proc/*/environ for the run marker; each
\* answers "unknown" when the command fails.
ResolveCandidate ==
  /\ pc = "resolve"
  /\ \/ /\ candidate' = (candidate \/ pidFile \/ Alive(proc))
        /\ Healthy
     \/ candidate' = candidate /\ Fault
  /\ pc' = IF candidate' THEN "terminate" ELSE "persist"
  /\ UNCHANGED <<hostVars, tracked, slotRequired, slotReceipt, good, attempt,
                 call, stage, evidence>>

\* Mutant: a kill that was sent counts as a death.
Mutant_TrustKill(verified) ==
  \/ /\ proc' = IF Alive(proc) THEN "dead" ELSE proc
     /\ verified = TRUE
     /\ Healthy
  \/ /\ proc' \in {proc, IF Alive(proc) THEN "dead" ELSE proc}
     /\ verified = TRUE
     /\ Fault

\* _terminate_and_verify_remote: identity, SIGTERM, SIGKILL, then death and
\* port release. A failed identity check signals nothing, a failed death check
\* counts as alive.
TerminateAndVerify(verified) ==
  \/ /\ proc' = IF Alive(proc) THEN "dead" ELSE proc
     /\ verified = TRUE
     /\ Healthy
  \/ /\ proc' \in {proc, IF Alive(proc) THEN "dead" ELSE proc}
     /\ verified \in {FALSE, ~Alive(proc')}
     /\ Fault

RecoverTerminate ==
  /\ pc = "terminate"
  /\ \E verified \in BOOLEAN : TerminateAndVerify(verified) /\ good' = verified
  /\ pc' = "remove_pid"
  /\ UNCHANGED <<pidFile, slot, tunnel, lifeVars, attempt, call, stage, evidence>>

\* The PID file is removed before the verdict on the server is acted upon, and
\* a failure here leaves the recovery: no receipt is persisted.
RecoverRemovePidFile ==
  /\ pc = "remove_pid"
  /\ \/ /\ pidFile' = FALSE
        /\ Healthy
        /\ IF good THEN Raise
           ELSE pc' = "persist" /\ UNCHANGED <<good, attempt, call>>
     \/ /\ pidFile' \in {FALSE, pidFile}
        /\ Fault /\ Raise
  /\ UNCHANGED <<proc, slot, tunnel, lifeVars, stage, evidence>>

PersistOrphanRecovery ==
  /\ pc = "persist"
  /\ evidence' = evidence \cup {"orphan"}
  /\ Raise /\ Healthy
  /\ UNCHANGED <<hostVars, lifeVars, stage>>

-----------------------------------------------------------------------------
(* Tunnel and body.                                                        *)

LaunchTunnel ==
  /\ pc = "tunnel"
  /\ \/ tunnel' = "running" /\ stage' = "active" /\ pc' = "active"
     \/ pc' = "untunnel" /\ UNCHANGED <<tunnel, stage>>
  /\ Healthy
  /\ UNCHANGED <<proc, pidFile, slot, lifeVars, good, attempt, call, evidence>>

\* The server is terminated when its tunnel cannot start; verified or not, an
\* error is raised and the lifecycle object still names the server.
TerminateWithoutTunnel ==
  /\ pc = "untunnel"
  /\ \E verified \in BOOLEAN : TerminateAndVerify(verified)
  /\ Raise
  /\ UNCHANGED <<pidFile, slot, tunnel, lifeVars, stage, evidence>>

\* Readiness, slot clears and cells, which either finish or raise.
Body ==
  /\ pc = "active"
  /\ \/ pc' = "td_local" /\ UNCHANGED <<good, attempt, call>>
     \/ Raise
  /\ Healthy
  /\ UNCHANGED <<hostVars, lifeVars, stage, evidence>>

\* A KeyboardInterrupt is no Exception: neither the launch's recovery, nor the
\* untracked tunnel cleanup, nor the teardown's retry sees it. It goes straight
\* to the outer finally, and out of it. What the command it cut off has already
\* done is not recorded anywhere: the tunnel, for one, runs before the lifecycle
\* object names it.
Interrupt ==
  /\ Interrupts
  /\ pc # "ended"
  /\ IF InTeardown /\ call = "final"
     THEN pc' = "ended" /\ UNCHANGED <<good, attempt, call>>
     ELSE Raise
  /\ IF pc = "spawn" THEN SpawnBroken ELSE UNCHANGED <<proc, pidFile>>
  /\ slot' \in IF pc = "slot" THEN BOOLEAN ELSE {slot}
  /\ tunnel' \in IF pc = "tunnel" THEN {"none", "unowned"} ELSE {tunnel}
  /\ interrupted' = TRUE
  /\ UNCHANGED <<faults, faulty, serviceChanged, lifeVars, stage, evidence>>

-----------------------------------------------------------------------------
(* _stop_live_lifecycle, check by check.                                   *)

StopLocalProcesses ==
  /\ pc = "td_local"
  /\ stage' = "teardown"
  /\ \/ /\ tunnel' = IF tunnel = "running" THEN "stopped" ELSE tunnel
        /\ good' = TRUE
        /\ faulty' = FALSE /\ UNCHANGED <<faults, envVars>>
     \/ /\ tunnel = "running"
        /\ good' = FALSE
        /\ Fault
        /\ UNCHANGED tunnel
  /\ pc' = "td_server"
  /\ UNCHANGED <<proc, pidFile, slot, lifeVars, attempt, call, evidence>>

\* The PID file is removed only after death and port release.
AfterTerminate(verified) == IF verified THEN "td_pid" ELSE "td_service"

\* remote_process_dead and remote_port_released start out TRUE and are only
\* questioned when the lifecycle object names a server.
StopServer ==
  /\ pc = "td_server"
  /\ IF tracked
     THEN \E verified \in BOOLEAN :
            /\ TerminateAndVerify(verified)
            /\ good' = (good /\ verified)
            /\ pc' = AfterTerminate(verified)
     ELSE /\ pc' = "td_service"
          /\ Healthy
          /\ UNCHANGED <<proc, good>>
  /\ UNCHANGED <<pidFile, slot, tunnel, lifeVars, attempt, call, stage, evidence>>

\* Mutant: rm without -f.
Mutant_RmWithoutForce ==
  /\ pc = "td_pid"
  /\ pidFile' = FALSE /\ Healthy
  /\ good' = (good /\ pidFile)
  /\ pc' = "td_service"
  /\ UNCHANGED <<proc, slot, tunnel, lifeVars, attempt, call, stage, evidence>>

\* rm -f and the absence checks: an earlier attempt may have removed the file.
RemovePidFile ==
  /\ pc = "td_pid"
  /\ \/ pidFile' = FALSE /\ Healthy /\ UNCHANGED good
     \/ pidFile' \in {FALSE, pidFile} /\ Fault /\ good' = FALSE
  /\ pc' = "td_service"
  /\ UNCHANGED <<proc, slot, tunnel, lifeVars, attempt, call, stage, evidence>>

\* The barrier of the production service is established once more and must be
\* equal to the one of the preflight, in every attempt.
CheckService ==
  /\ pc = "td_service"
  /\ \/ good' = (good /\ ~serviceChanged) /\ Healthy
     \/ good' = FALSE /\ Fault
  /\ pc' = "td_slot"
  /\ UNCHANGED <<hostVars, lifeVars, attempt, call, stage, evidence>>

\* The path must be absent: never required, or removed by an earlier attempt
\* whose receipt is cached.
CheckSlotAbsent ==
  /\ slotRequired => slotReceipt
  /\ \/ good' = (good /\ ~slot) /\ Healthy
     \/ good' = FALSE /\ Fault
  /\ pc' = "td_verdict"
  /\ UNCHANGED slot

\* remove_slot_action_directory: stat, rmdir. A directory that is already gone
\* fails the stat.
RemoveSlotDirectory ==
  /\ slotRequired /\ ~slotReceipt
  /\ \/ /\ slot
        /\ slot' = FALSE
        /\ pc' = "td_absent"
        /\ Healthy
        /\ UNCHANGED good
     \/ /\ (~slot /\ Healthy) \/ Fault
        /\ slot' \in {slot, FALSE}
        /\ pc' = "td_verdict"
        /\ good' = FALSE

StopSlot ==
  /\ pc = "td_slot"
  /\ CheckSlotAbsent \/ RemoveSlotDirectory
  /\ UNCHANGED <<proc, pidFile, tunnel, lifeVars, attempt, call, stage, evidence>>

\* The receipt exists only once the absence check answered, and the lifecycle
\* object has it only at the end of the attempt.
VerifySlotRemoved ==
  /\ pc = "td_absent"
  /\ \/ pc' = "td_removed" /\ Healthy /\ UNCHANGED good
     \/ pc' = "td_verdict" /\ good' = FALSE /\ Fault
  /\ UNCHANGED <<hostVars, lifeVars, attempt, call, stage, evidence>>

Closes(ok) == ok

\* retries=1.
LastAttempt == attempt = 1

\* Mutant: only the first call of a run reports.
Mutant_ReportOnce == IF call = "try"
                     THEN evidence' = evidence \cup {"teardown_failure"}
                     ELSE UNCHANGED evidence

\* _persist_teardown_failure.
ReportFailure == evidence' = evidence \cup {"teardown_failure"}

\* The log of a server that is known is read last; then the attempt closes the
\* lifecycle, is retried once, or is persisted as a failure. After a failure in
\* the try, the outer finally makes a second call.
Verdict ==
  /\ pc \in {"td_verdict", "td_removed"}
  /\ slotReceipt' = (slotReceipt \/ pc = "td_removed")
  /\ \E ok \in BOOLEAN :
       /\ IF ok THEN good /\ Healthy
          ELSE IF good THEN tracked /\ Fault ELSE Healthy
       /\ IF Closes(ok)
          THEN /\ stage' = "closed"
               /\ pc' = "ended"
               /\ UNCHANGED <<attempt, call, evidence>>
          ELSE IF ~LastAttempt
          THEN /\ attempt' = attempt + 1
               /\ pc' = "td_local"
               /\ UNCHANGED <<stage, call, evidence>>
          ELSE /\ ReportFailure
               /\ attempt' = 0
               /\ call' = "final"
               /\ pc' = IF call = "try" THEN "td_local" ELSE "ended"
               /\ UNCHANGED stage
  /\ UNCHANGED <<hostVars, candidate, tracked, slotRequired, good>>

-----------------------------------------------------------------------------
Launch == \/ PrepareSlotActionDirectory \/ RefuseSpawn \/ SpawnServer
          \/ IdentifyServer \/ PollListener \/ LaunchTunnel \/ TerminateWithoutTunnel \/ Body

Recover == ResolveCandidate \/ RecoverTerminate \/ RecoverRemovePidFile
           \/ PersistOrphanRecovery

Teardown == StopLocalProcesses \/ StopServer \/ RemovePidFile \/ CheckService
            \/ StopSlot \/ VerifySlotRemoved \/ Verdict

Controller == Launch \/ Recover \/ Teardown

Host == ServerBinds \/ ServerDies \/ ServiceChanges

Next == Controller \/ Interrupt \/ Host

Spec == Init /\ [][Next]_vars

\* The controller is sequential, and every command and poll has a deadline.
FairSpec == Spec /\ WF_vars(Controller)
-----------------------------------------------------------------------------
(* Properties.                                                             *)

FlagsOK ==
  /\ pidFile \in BOOLEAN /\ slot \in BOOLEAN /\ candidate \in BOOLEAN
  /\ tracked \in BOOLEAN /\ slotRequired \in BOOLEAN /\ slotReceipt \in BOOLEAN
  /\ good \in BOOLEAN /\ faulty \in BOOLEAN /\ interrupted \in BOOLEAN
  /\ serviceChanged \in BOOLEAN

PlaceOK ==
  /\ proc \in {"absent", "loading", "listening", "dead"}
  /\ tunnel \in {"none", "running", "stopped", "unowned"}
  /\ pc \in Pcs
  /\ stage \in {"launching", "active", "teardown", "closed"}
  /\ evidence \subseteq {"orphan", "teardown_failure"}
  /\ attempt \in {0, 1}
  /\ call \in {"try", "final"}

\* Types. No teardown call passes its one retry, however many commands fail.
TypeOK == FlagsOK /\ PlaceOK /\ faults \in 0 .. MaxFaults

\* What a verified teardown stands for, whatever answers were lost on the way:
\* nothing that the lifecycle object names is left on the host or locally, and no
\* slot directory, named or not. A tunnel may outlive it in one case only: the
\* operator interrupted the launch after ssh was started and before the lifecycle
\* object named it.
VerifiedMeansGone ==
  stage = "closed" => /\ tunnel # "running" /\ ~slot
                      /\ tunnel = "unowned" => interrupted
                      /\ tracked => ~Alive(proc) /\ ~pidFile

\* When the last attempt of a teardown met no fault and no interrupt, and did
\* not verify, then a retry could not have helped: the production service has
\* changed, the slot directory is there although preparing it failed, or it is
\* gone and nothing recorded its removal. What an earlier attempt did or failed
\* to do to the server, its PID file and the tunnel never stands in the way.
CleanAttemptVerifies ==
  pc = "ended" /\ stage # "closed" /\ ~faulty /\ ~interrupted =>
    \/ serviceChanged
    \/ slotRequired = ~slot /\ ~slotReceipt

\* The controller ends, wherever commands fail and the operator interrupts, and
\* a server it took ownership of is then dead or reported in a teardown failure,
\* unless an interrupt cut the teardown off.
TrackedServerSettles ==
  <>(pc = "ended" /\ (tracked => \/ ~Alive(proc)
                                \/ "teardown_failure" \in evidence
                                \/ interrupted))

\* "verified is derived only from ... remote server death": a verified teardown
\* leaves no server of this run. A failed launch shows that it may.
VerifiedMeansNoServer == stage = "closed" => ~Alive(proc)
=============================================================================
