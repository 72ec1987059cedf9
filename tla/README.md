# Verification of the PyrepLab Bayesian agent harness

This directory holds TLA+ models of the harness, TLC configurations that check
them on small instances, and TLAPS proofs of the main safety properties for
every value of their constants. `PROJECT.json` is the index: components, runs,
mutants of every property, the source lines behind every definition, findings,
hazards and theorems. `M3` below is
`src/src/pyreplab_harness/m3_prompt_only_execution.py`, `SB` is
`src/src/pyreplab_harness/m3_utility_routing_smoke.py`, `TS3` is
`src/pi_extensions/gym-budget-v3.ts`; other files are named by their last part.

## 1. Inventory of the system

The harness measures how treatments (prompts, tools, bundles) change what a
small agent (Pi, driving a local model) does on generated tasks. It runs on a
controller machine; task workspaces, the model server and the production
service `gemma.service` live on one remote host reached by ssh. A governed run
is allowed by a single-use authorization document, starts its own model server
on that host without touching the production service, runs 72 cells through a
tunnel, tears everything down and writes hash-bound receipts.

| Component | State it keeps | Operations | Interacts with | Hard behaviour | What makes it correct |
|---|---|---|---|---|---|
| Governed run (M3) | stage of the permit, output lock, sibling files (claim, consumed, active, ledger, receipts), lease flags | revalidate, lock, acquire lease, consume, launch, run, tear down, release, audit | remote host by ssh; server lifecycle; other runs on the same lease | competing controllers, lost ssh answers, crash between two steps | effects only under the lease; one use per authorization; the lease stays whenever something may be left, and is audited |
| Detached launch (M3) | launch lock, controller log, launch receipt, controller process | check, lock, spawn, poll, record, kill | the governed runs it spawns or that are started by hand | a claim that races the timeout, an interrupt after the spawn | one controller per result path; a receipt names the process that claimed; a failed launch leaves no controller |
| Server lifecycle (M3) | remote PID file, process, log, slot directory; local tunnel; `lifecycle` dict | prepare slot directory, launch, recover an orphan, tunnel, tear down with one retry | ssh, `llama-server` | a failing command that did its work, an interrupt that skips `except Exception`, a repeated teardown | a verified teardown left nothing; a server is dead, tracked or reported |
| Cell loop and ledger (M3) | ledger, active marker, cumulative budget, slot clear and proxy receipts | per cell: clear slot, proxy, Pi, classify, append | proxy, orchestrator | stop at the first infrastructure error, no resume | prefix of the manifest order, one record per cell |
| Cache proxy (cache_proxy.py) | next turn, receipt file, one thread per request | forward, record, stop | Pi, model server, cell loop | an answer passed on before its receipt is written, threads that die with the process | every answer Pi used is on record when the record is accepted as evidence |
| Stage-B routing smoke (SB) | raw ledger, active marker, preflight file, execution receipt, safe export | preflight, resume, run panels of two schedules, replace a block, export | attempt orchestration; operator | sessions that die anywhere and resume from files, adjudication | each attempt once; a block replaced once and as a whole; only verified attempts exported |
| Attempt orchestration (orchestrator.py) | attempt directory on the host, attempt records | prepare, run, record, verify | ssh, Pi, tool bridge | failure of any step, wall-clock limit | a record for each attempt, with the right class |
| Budget extension (TS3) | admissions, blocks, attempt ids, admitted, executed and suppressed ids, violations | one handler per Pi event | Pi's agent loop; harness checks of the receipt | batched calls, repeated ids, abort, reload | limits hold on what Pi did; the receipt reconciles |
| Tool bridge (gym-tools.ts, worker.py) | pending calls by id, worker process | call, answer, abort, timeout, exit, shutdown | Pi, sandbox | answer after abort or timeout, worker death | each call settles once |
| Unbrowser session (unbrowser_rpc.py) | browser process, whether it navigated, whether it was observed, current URL | navigate, query, interact, submit, describe, close | browser process, worker | a browser that hangs or dies, pages that lead elsewhere | the model only sees and acts on accepted pages; every call is answered |
| Event normalisation (events.py) | none | fold over Pi's JSON events | budget receipt | synthetic messages after an abort | turns counted once |
| Batch runner (batch.py) | append-only results file | expand, preflight, run, append, resume | orchestrator | crash while appending, lines that do not parse | each job counted once |
| Task generators and graders | files of a task | generate, grade | workspace | none (sequential) | deterministic by seed |
| No-live protocol layer, gates | JSON documents | build, validate, decide | ledgers | none (pure) | hash binding |
| Older runners (empty overlay, exploratory screen, pilots, routing probe) | claim, active marker, ledger | same scheme as the governed run, older | ssh, Pi | crash, adjudication | single use |
| Outcome models, allocators, calibration | numeric parameters | fit, evaluate | datasets | floating point | statistical |
| Dashboard, CLI, helpers | none | render, parse | - | - | - |

The components interact in five ways. The governed run *calls* the server
lifecycle and the cell loop, in one sequential controller process. A launcher
*spawns* such a controller and learns of it only through the claim file and the
process table. Two controllers *share* the host: the lease directory, the PID
file and the slot directory are their only common state, reached by ssh commands
that can fail without effect, take effect, or take effect and lose their answer.
Pi *calls back* into the two extensions, whose handlers read counters at one
event and change them at another, and reaches the model through the threads of
the proxy. And the tool bridge and the browser session *exchange messages* with
a process over a pipe that can break while calls are in service. Files (markers,
ledgers, receipts, results) are what survives a crash of any of them.

## 2. What is hard to get right

`PROJECT.json` lists the hazards one by one, each at its line and with the
properties aimed at it. They fall into these groups:

- *Ownership of the host.* Several runs, from several checkouts, take, roll back
  and release one lease while any command may lose its answer (M3:3242, 3250,
  3283) and a crash may come between any two steps (M3:7745).
- *Who runs.* Two launchers, a launcher and a hand-started run, or a launcher that
  is interrupted after the spawn: the paths are looked at before the lock is
  taken, and the timeout races the claim (M3:8593, 8679, 8690, 8719).
- *Belief against truth.* The controller acts on what the lifecycle object says;
  the host may be otherwise after a lost answer (M3:4184, 4304, 6160, 6183,
  6240, 7756), and the teardown that is repeated meets the effects of its first
  attempt (M3:6330) and a production service that has changed (M3:6196). A browser
  session remembers a page that the browser may have left (`unbrowser_rpc.py`:564,
  603, 608, 678, 776).
- *Interrupts.* `KeyboardInterrupt` is not an `Exception`: the code that recovers from
  a failed acquisition, launch or cell does not see it (M3:3088, 4228, 6062, 7402).
- *Limits that interact.* Turns, attempts and admissions are capped one by one
  while one message carries several calls that start in order and end in any
  order (TS3:192, 230, 247, 267), and a reload comes in between (TS3:152).
- *Answers, aborts, deaths.* A call of the bridge is settled by its answer, by an
  abort or by the end of one of three processes, whichever comes first
  (`gym-tools.ts`:157, 334, 361; `orchestrator.py`:863); an answer of the model
  reaches Pi before its receipt reaches the file (`cache_proxy.py`:495).
- *Recovery by file.* Ledgers, markers and results files decide what a later
  invocation may do (M3:7597, 7975, `batch.py`:540, 544, SB:3242, 3488, 3559,
  3563, 3589).

## 3. Modules

| Module | Models | Extends |
|---|---|---|
| `HostQuarantine` | abstract: who may cause effects on the host | - |
| `GenerationLease` | a governed run from its output lock to the lease audit, several runs at once | `Naturals`; instantiates `HostQuarantine` |
| `DetachedLaunch` | launchers, composed with the governed runs they spawn | `GenerationLease` |
| `ServerLifecycle` | launch, orphan recovery, tunnel and teardown of one server | `Naturals` |
| `CellRun` | the cell loop, its proxies, slot, ledger and receipts | `Integers`, `Sequences` |
| `CacheProxy` | the threads of one cell's proxy, its receipts, and their use as evidence | `Naturals`, `Sequences` |
| `OneReplacement` | abstract: blocks are replaced once, as a whole, before anything is published | - |
| `StageB` | sessions of the Stage-B smoke on one set of files, with the attempts they run | `Naturals`, `Sequences`, `FiniteSets`; instantiates `OneReplacement` |
| `BudgetV3` | the handlers of the budget extension and the agent loop that calls them | `Integers`, `FiniteSets` |
| `WorkerRpc` | RPC client, ssh process, worker, and the verification that follows | `Integers`, `Sequences` |
| `UnbrowserSession` | one interactive browser session | `Naturals` |
| `Batch` | invocations of the batch runner on one results file | `Sequences` |
| `MC*` | values of the constants for TLC | the module they name |
| `*_proofs` | TLAPS proofs; those of `GenerationLease` are in `DetachedLaunch_proofs`, those of `CellRun` and `Batch` in `Runners_proofs` | the module they name, `TLAPS` |

Operators called `Mutant_*` stand next to the definition they change; no
specification uses them. Each says what would happen if the code had a certain
bug, and each property has one that breaks it.


### GenerationLease and HostQuarantine

One process of `GenerationLease` is one call of `run_authorized_prompt_only`
(a pilot) or of the authorized probe; both go through the same steps. `pc` is
the line it has reached, `stage` is `_LifecyclePermit.stage`, `failed`,
`leaseAcquired`, `releaseAttempted` and `released` are the local variables of
`_run_locked` that its `finally` looks at. `outputLock` and `artifacts` are the
siblings of each output file, `localLock` the O_EXCL file of each checkout,
`remoteLease`, `slotDir` and `server` what is on the host.

- *Acquire:* `Revalidate`, `AcquireOutputLock`, `PrepareConfig`,
  `AcquireLocalLease`, `RequireRemoteAbsent`, `MkdirRemoteLease`,
  `VerifyRemoteLease`, and the roll-back `UndoRemoteLease`, `CheckUndo`,
  `RollbackLocalLease`. The answer of `mkdir` may be lost: the directory is then
  there, the run does not know it is its own, and leaves it.
- *Execute:* `PrepareClaim`, `ConsumeAuthorization`,
  `PrepareSlotActionDirectory`, `LaunchServer`, `LaunchTunnel`, `RunCells`. The
  last three are coarse here; `ServerLifecycle` and `CellRun` are their detail.
- *Finish:* `VerifyTeardown`, `FailTeardown` with its one retry, `FinalChecks`,
  the release in two parts, the substrate receipt, and the outer `finally`:
  `ReleaseGate`, `Audit`, `ReleaseOutputLock`.
- `Crash` stops a controller between any two steps, for good: nothing in the code
  resumes a run.
- `Interrupt` is a `KeyboardInterrupt`, where it does something else than a failure of the
  same step: `InterruptAcquire` passes every `except Exception` of the acquisition, so
  that nothing is rolled back and the `finally` does not know of the lease,
  `InterruptTeardown` ends a teardown without its retry, `InterruptGate` skips the
  release. Assignments next to each other are one step: an interrupt between two
  of them has the outcome of the one before or of the one after.

`Audit` is best effort, as in the code: it may write the audit or not. A run that owed
an audit and did not write one, and one whose acquisition was interrupted, are kept in
the history variable `evidenceLost`, which no step reads.

`HostQuarantine` is what this promises to the host: a marker is taken only on a
free host, effects begin once and only under the run's own marker, and the
marker goes only when the effects are closed. The refinement maps `holder` to
`remoteLease` and `phase` to what the stage says: *fresh* before the launch,
*closed* after a verified teardown, *running* in between.

### DetachedLaunch

`EXTENDS GenerationLease`, so the controllers it starts are the runs of that
module: `Controller(r)` is a step of a run that a launcher has spawned, or that
is not in `Detached` and was started by hand. A launcher is one call of
`launch_authorized_prompt_only_detached`: `ValidateLaunch`, `CheckLaunchPaths`
(before the lock is held), `TakeLaunchLock` (which writes the intent),
`SpawnController` (the log is opened with mode "x", then the process starts),
`PollClaim` and `PollExit`, `RecordLaunch`, `KillController` on every failure,
`ReleaseLaunchLock`. `at`, `seen` and `result` are its place, `startup_state`
and outcome; `launchLock`, `controllerLog` and `launchReceipt` are files;
`claimant` is the process id in the claim, which the launcher compares with its
child. `KillController` is `Crash` of the run, because Python does not turn
SIGTERM into an exception and no `finally` of the controller runs.
`InterruptLauncher` (`KeyboardInterrupt` is not caught by `except Exception`) and
`CrashLauncher` may come at any step. Controllers may be interrupted as well. Paths are fresh in `Init` and the authorization is
valid; both are what a second launcher may find changed.

### ServerLifecycle

What the controller believes (`candidate`, `tracked`, `slotRequired`,
`slotReceipt`, `good`) is kept apart from what is true (`proc`, `pidFile`,
`slot`, `tunnel`). One action is one remote command or one local poll, so a
fault or an interrupt falls between any two of them; `faults` is what is left
of `MaxFaults`. `Host` is what goes on by itself: `ServerBinds` and `ServerDies` are the
server's own steps, and `ServiceChanges` says that the production service is not any
more as the preflight recorded it, which is for good and no fault.
`Launch` is `launch_off_server` and the tunnel after it, `Recover` is
`_recover_orphan_server`, `Teardown` is `_stop_live_lifecycle` under
`_ensure_verified_teardown`: each check may make `good` false, `Verdict` decides
between closing, the retry, the report and the error. `CheckService` compares the
production service with the preflight, in every attempt. Stopping the cell proxies
and reading the log, which is done for a tracked server only, are one outcome of the
last check; the removal of the slot directory is in the lifecycle object only after
it (`td_removed`). An `Interrupt` leaves behind what the command it cut off has done: the
slot directory, the server, or the tunnel, which is then *unowned*, since ssh runs
before `tunnel_owned` is set (M3:4359, 6062-6066).

### CellRun

The loop of `_run_locked` from a ready server on: `WriteActiveMarker`, the slot
clear in three steps (`PollIdle`, `EraseSlot`, `PollCleared`), `StartCellProxy`,
`GenerateTask`, the attempt, `StopCellProxy`, `CheckCellQuiescence`,
`AppendRecord`, `UnlinkActive`; then `WriteCompletionReceipt`, `Teardown`,
`RequireFinalQuiescence` and `WriteSubstrateReceipt`. The environment is
`Request` and `FinishRequest` (Pi through the proxy, the slot of the server),
`ProxyExits`, `ServiceEvent` (the production service wakes up), `Interrupt` and
`Crash`. `kv` and `busy` are what is in the slot, which the code can only ask
about; `alive` and `port` are what is true of the proxies, `tracked` is what the
lifecycle object names. `_classify_attempt` and the sums of the cumulative
budget are a free choice between *completed* and *infrastructure_invalid*; the
removal of the marker and the check of the record are `UnlinkActive`.

### CacheProxy

`serve_cell_proxy` and its handler for one cell. The thread of a request goes
through *received*, *forwarding*, *streaming*, *recording*, *closing*, *ended*:
`Reject` or `Reserve` (the turn number), `StartResponse`, `FinishResponse` or
`UpstreamFails`, `AppendReceipt` or `AppendFails`, `CloseConnection`. Pi is external:
it sends one request at a time, may give one up (`Disconnect`) and send the
next while the first thread drains the answer, and waits for the end of the
connection, because the proxy strips the length of the answer. `StopProxy` and
`ProxyDies` end every thread where it is, since they are daemons. `CollectReceipts` is
`_collect_proxy_receipts` at the end of the run. `answer` is what the model server
said, `index` and `receipts` what the proxy wrote of it.

### StageB and OneReplacement

A session is one call of `run_stage_b`; any number of them work on one set of
files. `StartSession` validates the manifest and reads the ledger (`Readable`
is its validation), `CheckPreflight` compares or writes the preflight file,
`LoadState` rebuilds the two schedules from the ledger. Then, panel by panel of
the primary schedule and of the contingency: `SkipPanel` (recorded, or its block
not replaced), `StartPanel` (the active marker), `GenerateTask`, and for each
arm `PrepareAttempt`, `RunPi`, `RecordEvents`, `VerifyAttempt`; then
`ClassifyResult`, `AppendRecord`, `UnlinkMarker`. `EndSchedule` closes a
schedule, `WriteReceipt`, `WriteExport` and `WriteExportReceipt` the run. `Crash` may come
between any two steps and forgets `memory`; `Adjudicate` is the operator who
removes a marker after looking at it, `ChangeRevision` a checkout of other code
between two sessions. `remote` and `runs` are what is on the host: the state of each
attempt directory and how often the model was given the attempt.

`OneReplacement` is what this promises of a block: *open* until one of its panels
fails for a replaceable reason, then *replaced*, and *lost* when the replacement
fails as well; nothing is published with a lost block, nothing changes once it is,
and what is published of a block is one schedule. The refinement maps `status` to
`BlockStatus`, which looks at the ledger, and `published` to `Published`, which
looks at the export.

The source compares the list of recorded panels with a prefix of the list of
allowed ones; `IsPrefix` says the same of positions, which the provers can work
with. `MCStageB` states the comparison of lists as well, and its `ListsCompared` lets
TLC find the two equal on every ledger of up to three different records.

### UnbrowserSession

One session of interactive mode in the worker. The calls are `Navigate`,
`OnPage` (a query or a text, or a click, typing or a form submission), `Semantic`
(the specialists, which navigate again first) and `Close`; `Fetch` is the fetch and the checks that come before a request to the
browser, `Request` one RPC to it, `RequestFails` its three ends (deadline, exit,
error answer) with `_kill` where the code kills. The browser replies with
`NavigateReplies`, `ReadReplies`, `InteractReplies` and `CloseReplies`, and may end
by itself (`BrowserExits`). What is true, `browser` and `page`, is kept apart from
what the session remembers, `navigated`, `firstDone` and `currentUrl`. `delivered`, `lost` and `refusedForm`
are history: whether content of the page was answered, whether the browser left
the page behind the session's back, and whether the last form was refused after it
was sent. So is `told`: whether the answer that led to the page had a status, a URL only,
or neither. `Unreported` is the answer with neither (a result that is no object, or one
about the element of a click), `UrlOnly` the one without a status; both keep the
permission to act. A page is one of `Pages`, or refused by the checks, or off the origin.

### BudgetV3

One action per handler: `SessionStart`, `AdmitProviderRequest` and
`BlockProviderRequest` (`before_provider_request`), `FinalMessage`,
`BatchMessage` and `OverlongMessage` (`message_end`), `ToolExecutionStart`,
`AdmitToolCall`, `BlockToolCall` and `PassUnbudgeted` (`tool_call`),
`ToolResult` and `RejectArguments`, `EmitReceipt`. What Pi does between its hooks
is external and taken from the order the extension's tests feed it: calls of a
message are prepared one after another, stop at an abort, and those that passed
run at the same time. `granted`, `turns` and `trace` are what really happened,
kept apart from the counters of the extension, so that a property can compare
the two. `ReceiptReconciles`, `BlockedIsTerminal`, `SyntheticRecognised` and
`ProviderTurnCount` are the checks the harness makes of receipt and events.

### WorkerRpc

Three processes of one session. The client (`RpcCall`, `SessionStart`, `Ready`,
`Execute`, `Refuse`, `Abort`, `HandleRpcLine`, `Close`, `BeginShutdown`,
`EndShutdown`, `GraceOver`) keeps `pending` by id; the ssh process ends when it
is told to, when the worker does, or when the link breaks; the worker (`Take`,
`Respond`, `EndOfInput`, `WorkerDies`) serves one request at a time. A command
that is executing when the worker is killed runs in a transient unit and goes
on (`OrphanEnds`). `Verify` is the orchestrator's look at the workspace, allowed
when Pi has exited or was killed at its wall-clock limit (`PiDies`).

### Batch

`Start`, `Preflight`, `LoadDoneKeys`, then per job `Skip` or `RunJob` and
`AppendResult`, then `Return`; `BatchCrash` anywhere. `file` is a sequence of lines,
each with the fields by which `_load_done_keys` and the preflight tell records
apart, `torn` says that the last line lacks its newline; the file of the run may
start so, be the line truncated or complete. A record that is written then makes
one line with it that does not parse: `spoiled` remembers the keys of the two. The rewrite
through `<output>.tmp` and `os.replace` is one step: that is what the replacement
guarantees against a crash.

## 4. What each run checks

| Run | Instance | Distinct states | Question |
|---|---|---|---|
| `lease_two` | 2 runs, each its own checkout and output | 865,224 | Does the lease protect the host, is it audited when it stays, does every run end? |
| `detached_launch` | 2 launchers and 1 run started by hand, one authorization | 7,333,220 | Does a result path get one detached controller, and does the receipt tell the truth about it? |
| `lifecycle_faults` | up to 3 faults, interrupts, a service that changes | 15,221 | What does a verified teardown stand for, and does a tracked server settle? |
| `lifecycle_unowned` | up to 3 faults, no interrupt | violation | Can a teardown be verified over a live server? |
| `cell_loop` | 3 cells | 73,780 | Is every attempt traced, every cell isolated from the one before, every receipt earned? |
| `proxy_threads` | 3 requests, a limit of 2 | 129,740 | Is every answer Pi saw on record when the receipts are accepted? |
| `stage_resume` | 3 panels in 2 blocks, 2 arms, 2 revisions, 2 faults, 1 adjudication | 289,996 | Does a run that is resumed any number of times count every attempt once and replace a block at most once? |
| `budget_batches` | 3 turns, 2 admissions, batches of 3, a reload, one unbudgeted id | 14,922 | Do the caps hold on what Pi did, does the receipt reconcile, does an honest session pass? |
| `rpc_faults` | 3 calls, 2 of the unbrowser tool, limits 2 and 1, three faults | 50,310 | Does every call settle, what has a shutdown drained, when is the verified workspace final? |
| `browser_faults` | 2 pages, 3 browser processes | 86,778 | Does the model only see and act on accepted pages, and is every call answered? |
| `browser_unmarked` | as above | violation | Does every infrastructure failure carry its mark? |
| `batch_sessions` | a family given twice, 2 seeds, 2 versions, 2 registries, 3 invocations, 5 old files | 378,702 | Is a completed job run once, never skipped for another treatment, and recorded? |

Why these bounds are enough to be of use:

- *Leases.* Two runs give every race for one host. A fault may hit every single
  command, so faults are not bounded.
- *Launches.* One output is enough, since the files of two outputs are disjoint and
  what two outputs share is the host, which `lease_two` covers. Two launchers race for
  the lock, and the run started by hand claims in between. Launchers are
  interchangeable, hence the symmetry set; no liveness is checked there.
- *Faults of the lifecycle.* Three faults can break the launch, its recovery and a
  teardown attempt, or the launch and both attempts of a teardown call. A
  behaviour may have fewer: the number is chosen in `Init`.
- *Cells.* Three cells have a first, a middle and a last one: what a cell leaves
  behind (a proxy, tokens, a busy slot) meets a next cell twice.
- *Requests.* Three requests over a limit of two give one that is refused, and two
  threads at work while Pi has gone on to the third. Four requests over a limit of
  three (21.7 million states) hold as well.
- *Stage B.* A block of two panels and one of one panel: a replaced block keeps a
  recorded panel that must be run again, and another block stays primary. The
  order of the panels is chosen in `Init` from two pairs. Two arms let a session die after
  the first attempt of a panel. Two faults may hit the primary and the
  contingency panel of a block.
- *Budgets.* Three turns and two admissions let one-call sessions reach the
  attempt that is blocked and ends them, while batches cross the caps on turns and on
  attempts in the middle. Other limits are covered by the theorems. Ids of
  budgeted tools are interchangeable, hence the symmetry set; the run checks no
  liveness.
- *Calls.* Three calls fill the limit of one tool and of all, and two of them are
  in the worker's queue when it dies.
- *Browsers.* The third process starts after a second one was lost, so what a
  session forgets at a loss is tested twice; the two pages tell a stale page from
  the present one.
- *Batch.* A repeated family gives two jobs of one key; three invocations give a
  crash, its resumption, and a third treatment on what the two left.

Deadlock is not checked where a run, a session or a batch that has ended stops,
and nothing in the code starts it again. Liveness properties say that it does
end. It is checked in `stage_resume`: a session can always be started again.

### Safety

*Lease.* `EffectsUnderLease` and `ImplementsQuarantine` are the ownership of the
host, `QuarantineAudited` the record of a lease that stays, with two exceptions: the audit
could not be written, or the acquisition was interrupted. `SingleUse` (checked in
`detached_launch`) is about the authorization.

*Launch.* `OneController` holds although the paths are looked at before the lock
is taken and the lock is given back: the controller log keeps the second launcher
out. `ReceiptNamesClaimant` compares the receipt with the claim when a run
started by hand was faster. `NoUnrecordedController` excepts a launcher that was
itself interrupted or killed.

*Lifecycle.* `VerifiedMeansGone` says that a closed lifecycle left nothing it
names, and a tunnel it does not name after an interrupt only. `CleanAttemptVerifies` says
that a last teardown attempt without a fault verifies whatever earlier attempts met,
but for three causes that no retry can change: the production service is not as it
was, the slot directory was made by a preparation whose answer was lost, or it was
removed without a receipt.

*Cells.* `LedgerIsPrefix`, `AttemptTraced`, `CleanSlot`, `ProxiesOwned`,
`SubstrateSound`. `ProxiesOwned` excepts interrupted runs, because the code has no
protection there (M3:7402).

*Proxy.* `ServedHasReceipt`: stopping the proxy after the attempt loses no receipt of
an answer Pi saw to its end, because Pi sees the end only after the receipt was
written. `AcceptedMeansClean`: receipts that are accepted speak of all of them. Both
except a receipt that could not be written and a proxy that died (section 6).

*Stage B.* `AttemptOnce` counts what the model was given, not what was recorded;
`UncertainMarked` finds an attempt without a record behind the marker or an
adjudication; `LedgerReadable` says that a session never writes what the next one
cannot load; `OneRevision`, `ExportVerified` and `NothingAfterReceipt` speak of the
evidence; `ImplementsOneReplacement` is the refinement.

*Budget.* `SpendingCapped` and `AbortIsFinal` speak of what Pi did, not of the
counters; `ReceiptSound` and `SettledAttemptAccepted` say that an honest session is
not flagged.

*Bridge.* `ShutdownDrains` and `QuietVerification` say what the orchestrator may
rely on when it looks at the workspace.

*Browser.* `AcceptedPage`, `SemanticPageShown` and `ObservedBeforeActing` relate what
the session remembers to what the live browser shows. The first speaks of pages whose
status the browser told, the second of pages whose URL it told: the code has nothing
else to go by, and does not ask again.

*Batch.* `SkipsOwnTreatment`, `ExitZeroMeansRecorded`, `CompletedOnce`. The second
excepts the last line it found without its newline and the record glued to it.

### Liveness and fairness

- `EveryRunEnds` assumes weak fairness of the controller's own steps: it is one
  sequential process whose commands, polls and joins all have a deadline. A
  crash is not owed, nor is any step of the environment.
- `TrackedServerSettles` assumes the same of the one controller: a tracked server
  ends dead, or a teardown failure is on record.
- `SessionEnds` assumes weak fairness of a session that is running, again one
  sequential process with deadlines. That a session is started, or that an
  operator adjudicates, is not owed.
- `EveryCallAnswered` assumes weak fairness of the session's own steps: each wait for
  the browser has a deadline, so `RequestFails` stays possible until an answer comes.
  No reply of the browser is owed.
- `EveryRequestSettles` assumes weak fairness of what Node's event loop owes (an
  answer that has arrived, the close of a child, the ready answer, the begin
  of a shutdown while starting, its end, Pi's exit) and of the worker's loop
  (take, respond, end at end of input) and of the ssh process ending after its
  signal or its peer. No call, abort or fault is owed, and an executing command
  may not be killed: it is bounded by its own timeout, which `Respond` stands for.

## 5. What is proved

The theorems hold for every value of the constants under the named assumptions:
`LeaseAssumption` (runs have a checkout and an output), `DetachedAssumption` (the
launched runs are runs), `LifecycleAssumption` (the fault bound is a natural
number), `BudgetAssumption` (finitely many ids, natural limits, at least one turn),
`CellAssumption` (at least one cell), `ProxyAssumption` (at least one request is
allowed), `StageAssumption` (finitely many panels, each in a block, no empty block, at
least one arm), `CallsAssumption` (a call is not named like a request of the client
or like an outcome), `BatchAssumption` (families, seeds and old files are sequences,
the first version is a version, and a completed record found in a file names a
registry just when its key is that of a treatment set, which is how `_run_job` writes
every record; lines that do not parse are not bound by it) and `SessionAssumption` (the marks for refused, foreign and no
page are not pages).
None of them asks for more than the code's own configuration checks; that both
blocks have panels is what the validation of the manifest demands (SB:1403-1441).

- **`DetachedLaunch_proofs`, the lease.** `TypeOK` is inductive by itself. The ownership
  properties are not: that a release is safe depends on what every place of the
  run implies. `IInv` adds `FlagsInv` (what the flags say at each place),
  `GateInv` (the gate opens only before the first side effect or after a
  verified teardown, and only once) and `HoldInv` (from which place to which a
  run holds which lock). `EffectsStayUnderLease`,
  `TrackedServersStayUnderLease`, `ReleaseIsRemoteFirst` and
  `LeaseRemovedByOwner` follow; `AuthorizationIsSingleUse` needs `ConsumedInv` as
  well (a consumed output keeps an artifact that stops the next run).
  `QuarantineIsAudited` needs `AuditInv`: while a run leaves with its lease, the audit
  is due, written or lost, and no other run removes it. `Refinement`
  maps every step to a step of `HostQuarantine` or to a stutter. `RunsEndInBound` gives
  a run at most 31 steps (`Left`): an interrupt or a crash only shortens it, a teardown is tried twice, and the gate never starts a
  second release, for a run that cleans up has failed or released (`CleanupInv`).
- **`ServerLifecycle_proofs`.** `VerifiedTeardown` (`[]VerifiedMeansGone`) for any
  number of faults, with and without interrupts. The property speaks of the
  closed stage; the invariant must say what each check stands for while the
  attempt is at a later one (`TunnelInv`, `DeadInv`, `SlotInv`), that nothing
  comes after the closing and that an unowned tunnel means an interrupt (`OrderInv`). `CleanTeardown` (`[]CleanAttemptVerifies`) is
  the converse: `CleanInv` says that an attempt no fault has hit is still good at each
  of its checks, but at those of the production service and of the slot directory in the
  three cases the property names, and that these are all there is.
  `ControllerEndsInBound`: at most 34 steps of the controller and of an interrupt,
  whatever the host does meanwhile, and at the
  end a server it owned is dead or reported, or an interrupt cut the teardown off.
- **`BudgetV3_proofs`.** `SpendingStaysCapped`, `AbortStopsSpending`,
  `SelfChecksHold`, `ReceiptIsSound`, for every limit and batch size. The
  extension decides on a batch before any of it is counted, so `Attempts` has to
  say that the attempts left cover the calls still queued; `Stages` orders the id
  sets; `Admissions` ties the count Pi saw to the list. `ReceiptIsSound` adds `Trail`,
  what the trace and the id sets have to do with each other.
  `SerialAttemptIsAccepted` (`[]SettledAttemptAccepted`) adds `Pace`, that each message
  with calls starts one of them at least, and `Blocking`, that an aborted session has one
  blocked call, the last of its trace unless others ran beside it. A serial session
  has as many attempts as turns, so nothing ran beside it.
- **`Runners_proofs`, the cell loop.** All five safety properties of the run and two more (`OwnProxy`,
  `NoiseStopsRun`), for every number of cells. `PlaceInv` ties the place in the loop to the length of the ledger and
  to the marker, `HeldInv` and `AttemptInv` say what each cell has left behind,
  `SlotInv` and `ProxyInv` what may be shared between cells, `NoiseInv` and
  `EndInv` what holds past the last check of the production service.
- **`Runners_proofs`, the batch.** `OwnTreatment` (`[]SkipsOwnTreatment`), `ExitIsRecorded`
  (`[]ExitZeroMeansRecorded`) and `NotRunTwice` (`CompletedOnce`), for every list of
  families and seeds, every file found and any number of invocations. `JobInv` says that
  the record at hand is of the current job and treatment; `AcceptInv`, that an append
  never makes the file one the running treatment would have been refused on; `KnownInv`,
  that a resumed invocation knows every completed key. `PassedInv` is the converse for an
  invocation without errors: what it knows is recorded or `spoiled`. `SpoilingLine` says that
  breaking the last line loses that line and no other; that it happens once rests on the
  last clause of `Shapes`: a line that has spoiled a record is not torn any more.
- **`DetachedLaunch_proofs`, the launch.** `RunsStayGoverned` shows that every behaviour of
  launchers and controllers is one of `GenerationLease` if one looks at the
  controllers alone: a spawn leaves them alone and a kill is a crash. Its theorems
  therefore carry over (`LaunchedOnceOnly`, `KilledUnderLease`). The three
  properties of the launch need the invariant of the lease and more: `LockInv`
  (who holds the output lock and which artifacts there are at each place of a run)
  is proved for the runs first; `LInv` adds what a launcher has at each place
  (`PlaceInv`), what its outcome says (`OutcomeInv`), that a spawned controller has
  its log (`SpawnInv`) and that a claim names a run that has claimed (`ClaimInv`).
- **`StageB_proofs`.** `AttemptsRunOnce`, `UncertainStaysMarked`,
  `LedgerOfOneRevision` and `ExportIsVerified`, for every manifest, number of arms
  and bound. That an attempt is run once rests on the directory that
  `prepare_attempt` refuses to find; `AttemptInv` ties directory, count, record and
  marker together, `ProgressInv` and `PlaceInv` say what the running session has
  done and still remembers, `VerdictInv` what it has decided.
  The rest is about what a session remembers of the ledger and what the next one
  accepts. `LedgerReadable` alone is not inductive: that a record may be appended
  depends on the session having passed every earlier panel. `ResumeInv` therefore has
  three parts beside `Readable`: `TriggerInv` (the session's triggers and active blocks
  are those of the ledger, but for a failure it has just recorded), `PassedInv` (each
  earlier place of the schedule has its record or needs none, and the primary schedule
  is through before the contingency begins) and `ReceiptInv` (receipt and export speak
  of a complete ledger). One lemma appends a record, with a case for each clause of
  `Readable`. `LedgerStaysReadable` and `ReceiptIsFinal` follow, and `Refinement`: an
  appended record moves its block as `OneReplacement` allows or not at all, an export
  publishes for each block the schedule that the ledger selects, and every other step
  stutters. `SessionsEndInBound` bounds a session by twice the panels times
  `4 * Arms + 5` steps, and 7; the measure falls with every step of a running session,
  since a position is never revisited (`PositionInv`).
- **`UnbrowserSession_proofs`.** The three safety properties of the run and
  `NewBrowserNavigates`, for every set of pages and number of browsers.
  `CallInv` ties call, method and place; `MemoryInv` what may be remembered of a
  browser that is gone; `PageInv` the remembered page to the shown one, as far as `told` reaches and but
  between an interaction and its checks; `ObservationInv` the first observation.
  `CallsEndInBound`: a call is answered after five steps at most, and the exit of the
  browser takes none of them back.
- **`CacheProxy_proofs`.** `NoReceiptLost`, `EvidenceIsSound` and
  `TurnsStayDistinct`, for any number of requests and any limit. `ThreadInv` and
  `IndexInv` say what a request has at each place of its thread, `ReceiptInv` and
  `RecordedInv` what is in the file when the client may see the end, `EndInv` what an
  accepted file says.
- **`WorkerRpc_proofs`.** `ShutdownComesLast` (`[]ShutdownDrains`) and
  `VerifiedWorkspaceIsFinal` (`[]QuietVerification`), for any calls, limits and faults.
  `Order` says that the ids answered, in service and sent are in order, `NoGap` that an
  id which is waited for is answered before any later one, or lost together with
  it; `Life` makes "shutdown" the last request, so its answer is `Last`. Each fault
  cuts the two queues at the end, which keeps `NoGap`. The second theorem adds
  `Calm`: as long as nothing has failed, the worker is up until it has served
  "shutdown" and the client does not go on before. `NobodyWaitsForNobody` is about the
  three processes that wait for each other: while a request waits, the client has
  something to read, or the worker something to serve, or ssh an end to report
  (`NobodyStuck`, from `NoGap` and from `WaitInv`, that who waits has a worker), and each
  of these moves lowers `Backlog`, which only a new request raises.

Only model-checked: the five liveness properties. The provers have no rule for
`ENABLED`, so weak fairness cannot be used in a proof. What carries each of them is
proved all the same, for every value of the constants: a measure that the steps owed by
the fairness lower and that no other step raises meanwhile, but for a new request of the
tool bridge (`RunsEndInBound`, `ControllerEndsInBound`, `SessionsEndInBound`,
`CallsEndInBound`, `NobodyWaitsForNobody`). That such a step can be taken as long as the measure
is not zero is left to TLC in the first four.

## 6. Where code and text disagree

Two runs end in a violation; each states a sentence of the repository.

1. `lifecycle_unowned`: a teardown is verified while the server of a failed launch
   is alive. `_stop_live_lifecycle` starts from `remote_process_dead = True` and
   questions it only when the lifecycle object names a server (M3:6160), against
   "Unknown is never treated as true" (M3:6105-6108).
2. `browser_unmarked`: a browser that hangs or dies during the required first
   observation is reported without the infrastructure mark
   (`unbrowser_rpc.py`:704-709), against `notes/m3-browser-lifecycle-audit.md`:46-48;
   the semantic gate takes the missing mark as final
   (`m3_semantic_capability_gate.py`:80-81).

More were met while modelling. The models contain the steps, or the properties
name the exception; no run states the sentence.

*Lease and lifecycle.* The release gate trusts the verdict of point 1, so a lease
can be released over an orphan (M3:7756), against M3:7222-7225. The slot directory is
removed and its absence checked in one step; when the answer of the check is lost,
no retry can verify (M3:6240), against "retry-idempotent" (M3:6216) and M3:6317-6319.
`_recover_orphan_server` removes the PID file outside its `try`: if that command
is lost after the kill was, no recovery receipt is written (M3:4304), against
M3:4134-4136. A `KeyboardInterrupt` between the start of a proxy and the next line
leaves a process that the lifecycle object does not name (M3:7402), one between the
start of the tunnel and the assignment of `tunnel_owned` a tunnel (M3:6062), over which the
teardown still verifies. One that arrives during the acquisition leaves the lock file,
or the lock and the directory, without roll-back and without audit (M3:3088), against
"Remote failure rolls back the local lock" (M3:3065-3066). An audit that cannot be
written is given up silently (M3:7975, 7795), which the comments there intend. Once the
production service has logged or changed state no teardown attempt verifies any more
(M3:6196), so the retry is in vain and the lease stays until an operator removes it.

*Detached launch.* A receipt may say `exited_before_claim` or `startup_timeout`
although the controller claimed between the last look at the claim and the poll or the deadline
(M3:8685, 8713-8717). The group kill ends the controller without its `finally`, while
the tunnel and the proxies have sessions of their own (M3:3861) and survive it,
against M3:8721-8723; the lease stays, which `KilledUnderLease` says. A
`KeyboardInterrupt` while polling passes `except Exception` and leaves the
controller running without a receipt. A failed launch leaves its controller log,
so the same path is never launched again.

*Stage B.* When an adjudicated panel is run again its preparation fails, and the
whole block is replaced. A missing event summary is replaceable after the verdict
was made, against "before a valid attempt record" in `ERROR_TAXONOMY` (SB:175-186).
A record whose rows the export refuses blocks the export for good, since the
execution receipt is written before the export is validated. Two branches cannot
be reached: the second trigger in a skipped panel (SB:3521-3533) and the mismatch of
an existing receipt.

*Proxy.* Receipts are never counted against the turns the provider saw, so a failed
append, or a proxy that dies after its last answer, loses evidence unnoticed. The
receipt that stands for a cell is the last line of the file (M3:6480), the last
written and not the last turn. A write that fails at the head of the answer to Pi is recorded
as an error of the upstream. One aborted connection that the proxy notices makes
the evidence of the whole run refused at its end.

*Browser.* After a refused form submission the session still counts as navigated,
on a page that was not accepted (`SECURITY.md`:89); `AcceptedPage` excepts it. A
result of a navigation that is not an object raises without `_kill` and keeps the
permission and the URL of the page before (`unbrowser_rpc.py`:564); a click that answers
with a URL and no status keeps the permission on the new page (608-616), one that
answers about its element only keeps both. A first observation that is too large is never delivered, and counts as made. A
browser that exits between two requests is not replaced but answered as an error
(`unbrowser_rpc.py`:480).

*Budget and bridge.* A batch across the admission limit is admitted in part
(TS3:192, 247), against "Tool batches are atomic" (TS3:202-203). At the wall-clock
limit Pi alone is killed and the workspace is verified while the worker still
has calls (`orchestrator.py`:863), against 548-549. `c.kill("SIGTERM")` sets
`c.killed`, so the timer that should send SIGKILL never does (`gym-tools.ts`:372),
against 370-371. The close handler of an old ssh process uses the variables of
the module, which a new session may own by then (`gym-tools.ts`:334).

*Batch.* After a last line without its newline the next record is glued to it and neither
can be read, which loses two completed records if the line was a complete one, while
the batch exits with 0 (`batch.py`:421), against 434-435 and
519. A policy batch is accepted on a treatment-set file of the same policy version
(`batch.py`:327), against the comment at 298. Two batch processes on one file
(`batch.py`:418), or two Stage-B processes on one ledger (SB:3500), overwrite each
other: neither takes a lock.

## 7. What is not modelled

- *Data:* the content of prompts, tasks, receipts and hashes; a hash binding is
  the fact that two documents belong together. Generators, graders, gates,
  dataset builders and the protocol layers (prompt-only chain, manifests and
  authorizations, cache mechanics) are pure functions of JSON: they have no steps
  between which something could go wrong.
- *Numbers:* outcome models, allocators and calibration are floating-point
  statistics, out of the reach of TLC.
- *The endpoint probe* of the governed run (M3:8221-8404): its lease, launch and
  teardown are those of `GenerationLease` and `ServerLifecycle`; its loop over
  endpoints is not modelled.
- *The older runners:* `run_authorized_baseline` and `_run_locked` of
  `m3_empty_overlay_execution.py`, `run_screen`, `run_headroom_pilot`,
  `run_stage_a`. They follow the scheme of `GenerationLease` and `StageB` (claim,
  marker, ledger, receipt) in other orders.
- *Parts of modelled components:* the sums of the cumulative budget and the rules
  of `_classify_attempt`; the proxy and log receipts of the teardown; the
  result-file snapshot and the sandbox command line of the worker; fixed-page mode,
  confinement and the parsing of pages in the browser session; the analysis and the
  gate of Stage B.
- *Two batch or two Stage-B processes on one file*, and a second Pi session in one
  process: the code takes no lock and is documented to run one at a time.
- Command line, dashboard, helper scripts and the older budget extension.

## 8. Plan

Done: `HostQuarantine` and `GenerationLease`, `DetachedLaunch`, `ServerLifecycle`,
`BudgetV3`, `CellRun`, `CacheProxy`, `OneReplacement` and `StageB`, `WorkerRpc`,
`UnbrowserSession` and `Batch`, each with proofs of all its safety properties.

To come:

1. `run_authorized_baseline` and its detached launch: where its claim, marker and
   ledger come in another order than in `GenerationLease`, and whether its
   remote effects have an owner as well.
2. `run_screen` and `run_headroom_pilot`: the resumption of a ledger that has no
   second schedule; `run_stage_a`.
3. The composition of `CellRun` with `CacheProxy`: that the receipt collected for a
   cell is one of its own attempt.
