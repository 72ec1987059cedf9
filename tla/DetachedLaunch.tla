--------------------------- MODULE DetachedLaunch ---------------------------
(***************************************************************************)
(* launch_authorized_prompt_only_detached composed with the governed runs  *)
(* it starts. A launcher checks that the result path is fresh, takes the   *)
(* launch lock, spawns one controller in a session of its own, and polls   *)
(* for the claim the controller writes; a controller that does not claim   *)
(* in time is killed with its process group. The controllers are the runs  *)
(* of GenerationLease: the run a launcher spawns bears the launcher's      *)
(* name, and the operator may start other runs of the same authorization   *)
(* by hand at any time. Python does not handle SIGTERM, so a controller    *)
(* that is killed runs no finally clause: the kill is GenerationLease's    *)
(* Crash.                                                                  *)
(***************************************************************************)
EXTENDS GenerationLease

CONSTANT Detached    \* the runs that are started by a launcher

ASSUME DetachedAssumption == Detached \subseteq Runs

VARIABLES
  at,             \* where each launcher is
  seen,           \* its startup_state
  result,         \* how it ended
  spawned,        \* launchers whose controller process exists, or existed
  launchLock,     \* <output>.launch.lock
  controllerLog,  \* outputs whose <output>.controller.log exists
  launchReceipt,  \* <output>.launch.json: the controller it names and its state
  claimant        \* controller_pid in <output>.claim.json

launchVars == <<at, seen, result, launchLock, controllerLog, launchReceipt>>
allVars    == <<vars, launchVars, spawned, claimant>>

StartupStates == {"pending", "claim_observed", "exited_before_claim",
                  "startup_timeout"}
NoReceipt     == [by |-> None, state |-> "pending"]

LaunchInit ==
  /\ Init
  /\ at = [l \in Detached |-> "validate"]
  /\ seen = [l \in Detached |-> "pending"]
  /\ result = [l \in Detached |-> "none"]
  /\ spawned = {}
  /\ launchLock = [o \in Outputs |-> None]
  /\ controllerLog = {}
  /\ launchReceipt = [o \in Outputs |-> NoReceipt]
  /\ claimant = [o \in Outputs |-> None]

Proceed(l, place) == at' = [at EXCEPT ![l] = place]

Ends(l, how) == result' = [result EXCEPT ![l] = how]

\* An exception that leaves the launcher before it has the launch lock.
Refuse(l) == Proceed(l, "returned") /\ Ends(l, "refused")

-----------------------------------------------------------------------------
(* The launcher.                                                           *)

\* Validation, the not-consumed check and the runtime revalidation.
ValidateLaunch(l) ==
  /\ at[l] = "validate"
  /\ \/ "consumed" \notin artifacts[OutputOf[l]] /\ Proceed(l, "check")
                                                /\ UNCHANGED result
     \/ Refuse(l)
  /\ UNCHANGED <<vars, seen, spawned, launchLock, controllerLog, launchReceipt,
                 claimant>>

\* No sibling of the result path exists, the two locks included.
LaunchPathsFresh(o) ==
  /\ artifacts[o] = {} /\ outputLock[o] = None /\ launchLock[o] = None
  /\ o \notin controllerLog /\ launchReceipt[o] = NoReceipt

CheckLaunchPaths(l) ==
  /\ at[l] = "check"
  /\ IF LaunchPathsFresh(OutputOf[l]) THEN Proceed(l, "lock") /\ UNCHANGED result
                                      ELSE Refuse(l)
  /\ UNCHANGED <<vars, seen, spawned, launchLock, controllerLog, launchReceipt,
                 claimant>>

TakeLaunchLock(l) ==
  /\ at[l] = "lock"
  /\ IF launchLock[OutputOf[l]] = None
     THEN /\ launchLock' = [launchLock EXCEPT ![OutputOf[l]] = l]
          /\ Proceed(l, "spawn")
          /\ UNCHANGED result
     ELSE Refuse(l) /\ UNCHANGED launchLock
  /\ UNCHANGED <<vars, seen, spawned, controllerLog, launchReceipt, claimant>>

\* Mutant: the controller log is opened with "w".
Mutant_SpawnController(l) ==
  /\ at[l] = "spawn"
  /\ controllerLog' = controllerLog \cup {OutputOf[l]}
  /\ spawned' = spawned \cup {l}
  /\ Proceed(l, "poll")
  /\ UNCHANGED <<vars, seen, result, launchLock, launchReceipt, claimant>>

\* The log is opened with "x", which fails where an earlier launch left its
\* own, and Popen may fail after it.
SpawnController(l) ==
  /\ at[l] = "spawn"
  /\ \/ /\ OutputOf[l] \notin controllerLog
        /\ controllerLog' = controllerLog \cup {OutputOf[l]}
        /\ spawned' = spawned \cup {l}
        /\ Proceed(l, "poll")
        /\ UNCHANGED result
     \/ /\ controllerLog' \in {controllerLog, controllerLog \cup {OutputOf[l]}}
        /\ Proceed(l, "unlock") /\ Ends(l, "failed")
        /\ UNCHANGED spawned
  /\ UNCHANGED <<vars, seen, launchLock, launchReceipt, claimant>>

\* Mutant: any valid claim of this authorization will do.
Mutant_OwnClaim(l) == TRUE

\* _validate_claim and the comparison with process.pid.
OwnClaim(l) == claimant[OutputOf[l]] = l

\* One look at the claim file; when it is there and names another process the
\* launch fails.
PollClaim(l) ==
  /\ at[l] = "poll"
  /\ IF "claim" \notin artifacts[OutputOf[l]]
     THEN Proceed(l, "poll_exit") /\ UNCHANGED seen
     ELSE IF OwnClaim(l)
     THEN Proceed(l, "record") /\ seen' = [seen EXCEPT ![l] = "claim_observed"]
     ELSE Proceed(l, "kill") /\ UNCHANGED seen
  /\ UNCHANGED <<vars, result, spawned, launchLock, controllerLog,
                 launchReceipt, claimant>>

\* process.poll(), a step of its own: the controller may have claimed since.
PollExit(l) ==
  /\ at[l] = "poll_exit"
  /\ \/ /\ pc[l] \in Ended
        /\ Proceed(l, "record")
        /\ seen' = [seen EXCEPT ![l] = "exited_before_claim"]
     \/ /\ pc[l] \notin Ended
        /\ \/ Proceed(l, "poll") /\ UNCHANGED seen
           \/ /\ Proceed(l, "record")
              /\ seen' = [seen EXCEPT ![l] = "startup_timeout"]
  /\ UNCHANGED <<vars, result, spawned, launchLock, controllerLog,
                 launchReceipt, claimant>>

\* The launch receipt is linked without overwrite, whatever the state; only a
\* launch whose claim was observed succeeds.
RecordLaunch(l) ==
  /\ at[l] = "record"
  /\ \/ /\ launchReceipt[OutputOf[l]] = NoReceipt
        /\ launchReceipt' = [launchReceipt EXCEPT ![OutputOf[l]] =
                               [by |-> l, state |-> seen[l]]]
        /\ IF seen[l] = "claim_observed"
           THEN Proceed(l, "unlock") /\ Ends(l, "started")
           ELSE Proceed(l, "kill") /\ UNCHANGED result
     \/ Proceed(l, "kill") /\ UNCHANGED <<launchReceipt, result>>
  /\ UNCHANGED <<vars, seen, spawned, launchLock, controllerLog, claimant>>

\* Mutant: only a controller that was seen to hang is killed.
Mutant_KillController(l) ==
  /\ at[l] = "kill"
  /\ IF pc[l] \in Ended \/ seen[l] # "startup_timeout" THEN UNCHANGED vars
                                                     ELSE Crash(l)
  /\ Proceed(l, "unlock") /\ Ends(l, "failed")
  /\ UNCHANGED <<seen, spawned, launchLock, controllerLog, launchReceipt,
                 claimant>>

\* SIGTERM, then SIGKILL, to the process group, and the wait for its leader.
KillController(l) ==
  /\ at[l] = "kill"
  /\ IF pc[l] \in Ended THEN UNCHANGED vars ELSE Crash(l)
  /\ Proceed(l, "unlock") /\ Ends(l, "failed")
  /\ UNCHANGED <<seen, spawned, launchLock, controllerLog, launchReceipt,
                 claimant>>

ReleaseLaunchLock(l) ==
  /\ at[l] = "unlock"
  /\ launchLock' = [launchLock EXCEPT ![OutputOf[l]] = None]
  /\ Proceed(l, "returned")
  /\ UNCHANGED <<vars, seen, result, spawned, controllerLog, launchReceipt,
                 claimant>>

\* A KeyboardInterrupt passes `except Exception`: the lock is released and the
\* controller, in a session of its own, goes on.
InterruptLauncher(l) ==
  /\ at[l] \in {"spawn", "poll", "poll_exit", "record", "kill"}
  /\ Proceed(l, "unlock") /\ Ends(l, "interrupted")
  /\ UNCHANGED <<vars, seen, spawned, launchLock, controllerLog, launchReceipt,
                 claimant>>

\* The launcher itself is killed: its lock stays.
CrashLauncher(l) ==
  /\ at[l] # "returned"
  /\ Proceed(l, "returned") /\ Ends(l, "killed")
  /\ UNCHANGED <<vars, seen, spawned, launchLock, controllerLog, launchReceipt,
                 claimant>>

Launcher(l) == \/ ValidateLaunch(l) \/ CheckLaunchPaths(l) \/ TakeLaunchLock(l)
               \/ SpawnController(l) \/ PollClaim(l) \/ PollExit(l)
               \/ RecordLaunch(l) \/ KillController(l) \/ ReleaseLaunchLock(l)
               \/ InterruptLauncher(l) \/ CrashLauncher(l)

-----------------------------------------------------------------------------
(* The controllers.                                                        *)

\* _write_claim puts the pid of the process that writes it into the claim.
Controller(r) ==
  /\ r \in Detached => r \in spawned
  /\ Step(r) \/ Cut(r)
  /\ claimant' = IF pc[r] = "leased" /\ pc'[r] = "claimed"
                 THEN [claimant EXCEPT ![OutputOf[r]] = r] ELSE claimant
  /\ UNCHANGED <<launchVars, spawned>>

LaunchNext == \/ \E l \in Detached : Launcher(l)
              \/ \E r \in Runs : Controller(r)

LaunchSpec == LaunchInit /\ [][LaunchNext]_allVars

-----------------------------------------------------------------------------
(* Properties.                                                             *)

\* However many launchers passed the check of the siblings before one of them
\* spawned, a result path gets at most one detached controller, ever: the
\* launch lock is given back, the log is what keeps the second one out.
OneController ==
  \A l, k \in spawned : OutputOf[l] = OutputOf[k] => l = k

\* A launch receipt that says claim_observed names the process that wrote the
\* claim, even when a run started by hand was faster than the controller.
ReceiptNamesClaimant ==
  \A o \in Outputs : launchReceipt[o].state = "claim_observed" =>
    "claim" \in artifacts[o] /\ claimant[o] = launchReceipt[o].by

\* "On startup/poll/claim failure the entire controller process GROUP is
\* terminated and awaited": no controller works on after its launcher is gone
\* unless a receipt says that its claim was observed, or the launcher itself
\* was interrupted or killed.
NoUnrecordedController ==
  \A l \in spawned :
    at[l] = "returned" /\ result[l] \notin {"interrupted", "killed"}
      => \/ pc[l] \in Ended
         \/ launchReceipt[OutputOf[l]] = [by |-> l, state |-> "claim_observed"]
=============================================================================
