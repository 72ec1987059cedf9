----------------------------- MODULE WorkerRpc ------------------------------
(***************************************************************************)
(* The tool bridge of one Pi session: the RPC client in gym-tools.ts, the  *)
(* ssh process it spawns, and the worker of worker.py, which serves one    *)
(* request at a time.  Calls of one message run in parallel, an abort      *)
(* settles them while the worker goes on, and each of the three processes  *)
(* may end before the others.                                              *)
(***************************************************************************)
EXTENDS Integers, Sequences, FiniteSets

CONSTANTS Calls,            \* the tool calls of the model
          Unbrowser,        \* those of the unbrowser tool
          ToolLimit,        \* --gym-tool-limit, shared by all tools
          UnbrowserLimit,   \* --gym-unbrowser-tool-limit
          Faults            \* what may fail: "link", "worker", "death"

\* A call is neither a request of the client itself nor what became of one.
ASSUME CallsAssumption ==
  /\ Unbrowser \subseteq Calls
  /\ {"ping", "shutdown", "none", "waiting", "limit", "aborted", "failed"} \cap Calls = {}
ASSUME LimitAssumption == ToolLimit \in Nat /\ UnbrowserLimit \in Nat
ASSUME FaultAssumption == Faults \subseteq {"link", "worker", "death"}

VARIABLES phase,              \* what Pi and the extension are doing
          child,              \* the client has a worker (child # null)
          sent,               \* sent[id] is the request that took this id
          pending,            \* ids without an answer
          result,             \* what became of each request
          toolCallCount, unbrowserCallCount,
          aborted,            \* the signal of Pi's run
          ssh,                \* the ssh process: "none", "up", "exited"
          signals,            \* the signals it was sent
          grace,              \* the timer of shutdownWorker
          toWorker, fromWorker, \* ids on their way
          workerUp,           \* the remote worker
          executing,          \* id of the request it serves, 0 if none
          executed,           \* calls that reached the sandbox or the browser
          failed,             \* the faults that happened
          verified            \* the orchestrator has verified the workspace

client  == <<phase, child, sent, pending, result, toolCallCount, unbrowserCallCount, aborted>>
process == <<ssh, signals, grace>>
remote  == <<toWorker, fromWorker, workerUp, executing, executed>>
outside == <<failed, verified>>
vars    == <<client, process, remote, outside>>

Requests == Calls \cup {"ping", "shutdown"}

\* Pi's event loop runs.
Alive == phase \notin {"exited", "dead"}

Waiting(r) == \E id \in pending : sent[id] = r

Prefixes(s) == {SubSeq(s, 1, n) : n \in 0 .. Len(s)}

Init ==
  /\ phase = "new"
  /\ child = FALSE
  /\ sent = <<>>
  /\ pending = {}
  /\ result = [r \in Requests |-> "none"]
  /\ toolCallCount = 0
  /\ unbrowserCallCount = 0
  /\ aborted = FALSE
  /\ ssh = "none"
  /\ signals = {}
  /\ grace = "none"
  /\ toWorker = <<>>
  /\ fromWorker = <<>>
  /\ workerUp = FALSE
  /\ executing = 0
  /\ executed = {}
  /\ failed = {}
  /\ verified = FALSE

-----------------------------------------------------------------------------
(* The client *)

\* rpcCall: without a child, or on a stream node has destroyed, the request
\* fails at once; a request written to a dead ssh process is lost.
RpcCall(r) ==
  LET id == Len(sent) + 1 IN
  /\ sent' = Append(sent, r)
  /\ \/ /\ child
        /\ pending' = pending \cup {id}
        /\ result' = [result EXCEPT ![r] = "waiting"]
        /\ toWorker' = IF ssh = "up" THEN Append(toWorker, id) ELSE toWorker
     \/ /\ ~child \/ ssh # "up"
        /\ result' = [result EXCEPT ![r] = "failed"]
        /\ UNCHANGED <<pending, toWorker>>

\* session_start: the worker is started and pinged.
SessionStart ==
  /\ phase = "new"
  /\ phase' = "starting"
  /\ child' = TRUE
  /\ ssh' = "up"
  /\ workerUp' = TRUE
  /\ sent' = <<"ping">>
  /\ pending' = {1}
  /\ result' = [result EXCEPT !["ping"] = "waiting"]
  /\ toWorker' = <<1>>
  /\ toolCallCount' = 0
  /\ unbrowserCallCount' = 0
  /\ UNCHANGED <<aborted, signals, grace, fromWorker, executing, executed, outside>>

\* A configuration that does not validate: no worker is started. Pi reports
\* the error of the handler and goes on.
RejectConfiguration ==
  /\ phase = "new"
  /\ phase' = "running"
  /\ UNCHANGED <<child, sent, pending, result, toolCallCount, unbrowserCallCount, aborted,
                 process, remote, outside>>

Ready ==
  /\ phase = "starting"
  /\ result["ping"] = "ping"
  /\ phase' = "running"
  /\ UNCHANGED <<child, sent, pending, result, toolCallCount, unbrowserCallCount, aborted,
                 process, remote, outside>>

LimitReached(c) ==
  \/ toolCallCount >= ToolLimit
  \/ c \in Unbrowser /\ unbrowserCallCount >= UnbrowserLimit

Refuse(c) ==
  /\ phase = "running"
  /\ result[c] = "none"
  /\ LimitReached(c)
  /\ result' = [result EXCEPT ![c] = "limit"]
  /\ UNCHANGED <<phase, child, sent, pending, toolCallCount, unbrowserCallCount, aborted,
                 process, remote, outside>>

Count(c) ==
  /\ toolCallCount' = toolCallCount + 1
  /\ unbrowserCallCount' = IF c \in Unbrowser THEN unbrowserCallCount + 1 ELSE unbrowserCallCount

\* execute of a tool: the call is counted before it is sent.
Execute(c) ==
  /\ phase = "running"
  /\ result[c] = "none"
  /\ ~LimitReached(c)
  /\ Count(c)
  /\ IF aborted
     THEN /\ result' = [result EXCEPT ![c] = "aborted"]
          /\ UNCHANGED <<sent, pending, toWorker>>
     ELSE RpcCall(c)
  /\ UNCHANGED <<phase, child, aborted, process, fromWorker, workerUp, executing, executed,
                 outside>>

\* onAbort of every call that waits: nothing is sent to the worker.
Abort ==
  /\ phase = "running"
  /\ ~aborted
  /\ aborted' = TRUE
  /\ pending' = {}
  /\ result' = [r \in Requests |-> IF Waiting(r) THEN "aborted" ELSE result[r]]
  /\ UNCHANGED <<phase, child, sent, toolCallCount, unbrowserCallCount, process, remote, outside>>

\* The pending request an answer settles.
Answered(id) == {i \in pending : i = id}

\* handleRpcLine; readline is closed once shutdownWorker is through.
HandleRpcLine ==
  /\ Alive /\ child
  /\ fromWorker # <<>>
  /\ fromWorker' = Tail(fromWorker)
  /\ LET id == Head(fromWorker)
         settled == Answered(id) IN
     /\ pending' = pending \ settled
     /\ result' = [r \in Requests |-> IF \E i \in settled : sent[i] = r THEN sent[id] ELSE result[r]]
  /\ UNCHANGED <<phase, child, sent, toolCallCount, unbrowserCallCount, aborted, process,
                 toWorker, workerUp, executing, executed, outside>>

\* Mutant: the requests that wait are forgotten.
Mutant_RejectAllPending == pending' = {} /\ UNCHANGED result

RejectAllPending ==
  /\ pending' = {}
  /\ result' = [r \in Requests |-> IF Waiting(r) THEN "failed" ELSE result[r]]

\* The "close" event, after the last line of ssh was read.
Close ==
  /\ Alive /\ child
  /\ ssh = "exited"
  /\ fromWorker = <<>>
  /\ RejectAllPending
  /\ child' = FALSE
  /\ UNCHANGED <<phase, sent, toolCallCount, unbrowserCallCount, aborted, process, remote, outside>>

\* shutdownWorker up to its await: after a failed ping, or at session_shutdown
\* when the model has its last result.
BeginShutdown ==
  /\ \/ /\ phase = "starting"
        /\ result["ping"] = "failed"
        /\ phase' = IF child THEN "failing" ELSE "running"
     \/ /\ phase = "running"
        /\ \A c \in Calls : result[c] # "waiting"
        /\ phase' = IF child THEN "stopping" ELSE "closed"
  /\ IF child THEN RpcCall("shutdown") ELSE UNCHANGED <<sent, pending, result, toWorker>>
  /\ UNCHANGED <<child, toolCallCount, unbrowserCallCount, aborted, process, fromWorker,
                 workerUp, executing, executed, outside>>

\* Mutant: the answer to "shutdown" is not awaited.
Mutant_ShutdownSettled == TRUE

ShutdownSettled == result["shutdown"] # "waiting"

\* The rest of shutdownWorker.
EndShutdown ==
  /\ phase \in {"failing", "stopping"}
  /\ ShutdownSettled
  /\ phase' = IF phase = "failing" THEN "running" ELSE "closed"
  /\ child' = FALSE
  /\ IF ssh = "up"
     THEN signals' = {"TERM"} /\ grace' = "armed"
     ELSE UNCHANGED <<signals, grace>>
  /\ UNCHANGED <<sent, pending, result, toolCallCount, unbrowserCallCount, aborted, ssh,
                 remote, outside>>

\* The timer: ChildProcess.killed is set by the SIGTERM already.
GraceOver ==
  /\ Alive
  /\ grace = "armed"
  /\ grace' = "over"
  /\ signals' = IF signals = {} /\ ssh = "up" THEN {"KILL"} ELSE signals
  /\ UNCHANGED <<client, ssh, remote, outside>>

PiExits ==
  /\ phase = "closed"
  /\ phase' = "exited"
  /\ UNCHANGED <<child, sent, pending, result, toolCallCount, unbrowserCallCount, aborted,
                 process, remote, outside>>

\* The wall-clock limit (subprocess.run kills Pi), or an error event nobody
\* listens to, such as EPIPE on the stream to ssh.
PiDies ==
  /\ "death" \in Faults
  /\ Alive /\ phase # "new"
  /\ phase' = "dead"
  /\ failed' = failed \cup {"death"}
  /\ UNCHANGED <<child, sent, pending, result, toolCallCount, unbrowserCallCount, aborted,
                 process, remote, verified>>

\* _run_attempt: events are recorded and the workspace is verified.
Verify ==
  /\ ~Alive /\ ~verified
  /\ verified' = TRUE
  /\ UNCHANGED <<client, process, remote, failed>>

-----------------------------------------------------------------------------
(* The worker and its ssh process *)

\* serve reads the next line; handle_request starts what it asks for.
Take ==
  /\ workerUp /\ executing = 0
  /\ toWorker # <<>>
  /\ executing' = Head(toWorker)
  /\ toWorker' = Tail(toWorker)
  /\ executed' = executed \cup ({sent[Head(toWorker)]} \cap Calls)
  /\ UNCHANGED <<client, process, fromWorker, workerUp, outside>>

\* Mutant: the worker goes on after it answered "shutdown".
Mutant_Stops(id) == FALSE

Stops(id) == sent[id] = "shutdown"

\* The response of the request that was served, an error included.  Without
\* ssh it is lost, and the write may raise, which ends serve.
Respond ==
  /\ workerUp /\ executing # 0
  /\ executing' = 0
  /\ \/ /\ ssh = "up"
        /\ fromWorker' = Append(fromWorker, executing)
        /\ workerUp' = ~Stops(executing)
     \/ /\ ssh # "up"
        /\ UNCHANGED fromWorker
        /\ workerUp' \in {FALSE, ~Stops(executing)}
  /\ UNCHANGED <<client, process, toWorker, executed, outside>>

\* The end of standard input, closed by ssh or by the death of Pi.
EndOfInput ==
  /\ workerUp /\ executing = 0 /\ toWorker = <<>>
  /\ ssh # "up" \/ ~Alive
  /\ workerUp' = FALSE
  /\ UNCHANGED <<client, process, toWorker, fromWorker, executing, executed, outside>>

\* The worker is killed; the transient unit of its command is not its child.
WorkerDies ==
  /\ "worker" \in Faults
  /\ workerUp
  /\ workerUp' = FALSE
  /\ toWorker' = <<>>
  /\ failed' = failed \cup {"worker"}
  /\ UNCHANGED <<client, process, fromWorker, executing, executed, verified>>

\* Such a command ends by itself or by RuntimeMaxSec.
OrphanEnds ==
  /\ ~workerUp /\ executing # 0
  /\ executing' = 0
  /\ UNCHANGED <<client, process, toWorker, fromWorker, workerUp, executed, outside>>

\* The remote command is over and its output delivered.
SshEnds ==
  /\ ssh = "up" /\ ~workerUp
  /\ ssh' = "exited"
  /\ toWorker' = <<>>
  /\ UNCHANGED <<client, signals, grace, fromWorker, workerUp, executing, executed, outside>>

\* ssh obeys a signal or loses the connection: what it had not forwarded is
\* lost in both directions.
SshBreaks ==
  /\ ssh = "up"
  /\ \/ signals # {} /\ UNCHANGED failed
     \/ "link" \in Faults /\ failed' = failed \cup {"link"}
  /\ ssh' = "exited"
  /\ toWorker' \in Prefixes(toWorker)
  /\ fromWorker' \in Prefixes(fromWorker)
  /\ UNCHANGED <<client, signals, grace, workerUp, executing, executed, verified>>

-----------------------------------------------------------------------------
PiStep == \/ SessionStart \/ RejectConfiguration \/ Ready \/ Abort
          \/ \E c \in Calls : Refuse(c) \/ Execute(c)
          \/ HandleRpcLine \/ Close \/ BeginShutdown \/ EndShutdown \/ GraceOver
          \/ PiExits \/ PiDies

WorkerStep == Take \/ Respond \/ EndOfInput \/ WorkerDies \/ OrphanEnds

SshStep == SshEnds \/ SshBreaks

Next == PiStep \/ WorkerStep \/ SshStep \/ Verify

Spec == Init /\ [][Next]_vars

\* The event loop of Pi reads what it is sent and goes on after an await; the
\* worker serves its requests, whose commands have time limits; ssh ends with
\* the remote command.  No fault and no choice of the model is owed.
FairSpec == /\ Spec
            /\ WF_vars(HandleRpcLine) /\ WF_vars(Close) /\ WF_vars(Ready)
            /\ WF_vars(phase = "starting" /\ BeginShutdown)
            /\ WF_vars(EndShutdown) /\ WF_vars(PiExits)
            /\ WF_vars(Take) /\ WF_vars(Respond) /\ WF_vars(EndOfInput)
            /\ WF_vars(SshEnds)

-----------------------------------------------------------------------------
Ids == DOMAIN sent

\* Once "shutdown" is answered the worker has done all that it was ever sent:
\* no call is in service, on its way, or unread (serve, shutdownWorker).
ShutdownDrains ==
  result["shutdown"] = "shutdown" =>
    /\ executing = 0 /\ toWorker = <<>> /\ ~workerUp
    /\ \A r \in Requests : result[r] # "waiting"

NoCallLeft ==
  \A id \in Ids : sent[id] \in Calls =>
    executing # id /\ (workerUp => \A i \in DOMAIN toWorker : toWorker[i] # id)

\* Without a fault the workspace that is verified is final: no call runs or is
\* still to run, although aborted calls are queued when Pi begins to stop.
QuietVerification == verified /\ failed = {} => NoCallLeft

\* Every request ends, with an answer, an abort or the end of the worker; so
\* does the shutdown that waits for one (rejectAllPending).
EveryRequestSettles ==
  \A r \in Requests : result[r] = "waiting" ~> (result[r] # "waiting" \/ phase = "dead")
=============================================================================
