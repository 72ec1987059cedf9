------------------------------- MODULE CellRun ------------------------------
(***************************************************************************)
(* The cell loop of a governed run, from a ready OFF server to the last    *)
(* receipt. Cells run one after another in manifest order: write the       *)
(* active marker, clear the slot of the server, start a proxy, generate    *)
(* the task, run the attempt, stop the proxy, look whether the production  *)
(* service stayed quiet, append the record, remove the marker. The first   *)
(* cell that is not completed ends the run.                                *)
(*                                                                         *)
(* Cells are named by their place in the manifest, 1 .. ExpectedCells; 0   *)
(* stands for no cell. Any step may raise (a lost ssh command, a poll at   *)
(* its deadline, the authorization expired); a KeyboardInterrupt or the    *)
(* death of the controller may come between any two steps.                 *)
(***************************************************************************)
EXTENDS Integers, Sequences, FiniteSets

CONSTANT ExpectedCells      \* EXPECTED_CELLS

ASSUME CellAssumption == ExpectedCells \in Nat \ {0}

Cells == 1 .. ExpectedCells
NoCell == 0

VARIABLES
  pc, cell,        \* the controller: its next step, the cell of the loop
  outcome,         \* how the try around the attempt ended
  ledger,          \* the records of <output>, in the order of its lines
  active,          \* the cell the active marker names
  slotReceipts,    \* cells whose slot-clear receipt is held
  proxyOutputs,    \* cells whose proxy has a receipt file
  tracked,         \* lifecycle["owned_proxies"]
  alive,           \* proxies whose process group exists
  port,            \* the proxy that listens on the fixed port
  kv,              \* cells whose tokens are in the slot of the server
  busy,            \* the cell whose request the slot processes
  attempted,       \* cells whose attempt was started
  quiet,           \* the production service emitted nothing since preflight
  noisyAt,         \* records in the ledger when it first did
  receipt,         \* the completion receipt exists
  substrate,       \* the substrate receipt exists
  closed,          \* a verified teardown closed the stage
  call, tries,     \* _ensure_verified_teardown: in the try or final; attempts
  interrupted

loopVars  == <<cell, outcome, attempted>>
fileVars  == <<ledger, active, receipt, substrate>>
keptVars  == <<slotReceipts, proxyOutputs>>
proxyVars == <<tracked, alive, port>>
slotVars  == <<kv, busy>>
tdVars    == <<closed, call, tries>>
quietVars == <<quiet, noisyAt>>
vars == <<pc, loopVars, fileVars, keptVars, proxyVars, slotVars, tdVars,
          quietVars, interrupted>>

Init ==
  /\ pc = "next" /\ cell = 1 /\ outcome = "none" /\ attempted = {}
  /\ ledger = <<>> /\ active = NoCell /\ receipt = FALSE /\ substrate = FALSE
  /\ slotReceipts = {} /\ proxyOutputs = {}
  /\ tracked = {} /\ alive = {} /\ port = NoCell
  /\ kv = {} /\ busy = NoCell
  /\ closed = FALSE /\ call = "try" /\ tries = 0
  /\ quiet = TRUE /\ noisyAt = 0
  /\ interrupted = FALSE

Step(from, to) == pc = from /\ pc' = to

\* An exception leaves the try. The outer finally tears down, unless a verified
\* teardown is cached.
Raise ==
  /\ pc' = IF closed THEN "ended" ELSE "teardown"
  /\ call' = "final" /\ tries' = 0
  /\ UNCHANGED closed

Recorded == {ledger[k].cell : k \in DOMAIN ledger}
Completed(record) == record.status = "completed"

-----------------------------------------------------------------------------
(* One cell.                                                               *)

\* The marker is written with no-overwrite semantics.
WriteActiveMarker ==
  /\ Step("next", "poll_idle") /\ cell \in Cells
  /\ active = NoCell
  /\ active' = cell
  /\ UNCHANGED <<loopVars, ledger, receipt, substrate, keptVars, proxyVars,
                 slotVars, tdVars, quietVars, interrupted>>

\* Mutant: the slot is erased without waiting for it to be idle.
Mutant_PollAnyway ==
  /\ Step("poll_idle", "erase")
  /\ UNCHANGED <<loopVars, fileVars, keptVars, proxyVars, slotVars, tdVars,
                 quietVars, interrupted>>

\* _poll_until_idle_slot_zero: the slot may still process the last completion
\* request of the cell before.
PollIdle ==
  /\ Step("poll_idle", "erase")
  /\ busy = NoCell
  /\ UNCHANGED <<loopVars, fileVars, keptVars, proxyVars, slotVars, tdVars,
                 quietVars, interrupted>>

\* The POST is repeated when its answer is lost.
EraseSlot ==
  /\ \/ Step("erase", "poll_cleared") \/ Step("erase", "erase")
  /\ kv' = {}
  /\ UNCHANGED <<loopVars, fileVars, keptVars, proxyVars, busy, tdVars,
                 quietVars, interrupted>>

PollCleared ==
  /\ Step("poll_cleared", "proxy")
  /\ busy = NoCell
  /\ slotReceipts' = slotReceipts \cup {cell}
  /\ UNCHANGED <<loopVars, fileVars, proxyOutputs, proxyVars, slotVars, tdVars,
                 quietVars, interrupted>>

StartCellProxy ==
  /\ Step("proxy", "generate")
  /\ port = NoCell
  /\ alive' = alive \cup {cell}
  /\ port' = cell
  /\ tracked' = tracked \cup {cell}
  /\ proxyOutputs' = proxyOutputs \cup {cell}
  /\ UNCHANGED <<loopVars, fileVars, slotReceipts, slotVars, tdVars, quietVars,
                 interrupted>>

\* Generate the task and compare its remote commitment with the manifest: the
\* attempt may start, the task is contaminated, or an exception is caught.
GenerateTask ==
  /\ \/ /\ Step("generate", "running")
        /\ attempted' = attempted \cup {cell}
        /\ UNCHANGED outcome
     \/ /\ Step("generate", "stop_proxy")
        /\ outcome' \in {"contaminated", "error"}
        /\ UNCHANGED attempted
  /\ UNCHANGED <<cell, fileVars, keptVars, proxyVars, slotVars, tdVars,
                 quietVars, interrupted>>

\* _run_attempt returns an attempt, timed out or not, or raises. Pi has seen the
\* end of its answers but the slot may not have released the last request.
EndAttempt ==
  /\ Step("running", "stop_proxy")
  /\ outcome' \in {"attempt", "error"}
  /\ UNCHANGED <<cell, attempted, fileVars, keptVars, proxyVars, slotVars,
                 tdVars, quietVars, interrupted>>

AfterFinally ==
  IF outcome = "interrupt" THEN Raise ELSE pc' = "quiescence" /\ UNCHANGED tdVars

\* Mutant: the result of the stop is not honored.
Mutant_StopAndForget ==
  /\ pc = "stop_proxy"
  /\ alive' \in {alive, alive \ {cell}}
  /\ port' \in {port, NoCell} /\ (port' = cell => cell \in alive')
  /\ tracked' = tracked \ {cell}
  /\ AfterFinally
  /\ UNCHANGED <<loopVars, fileVars, keptVars, slotVars, quietVars, interrupted>>

\* The finally of the try: a proxy leaves the lifecycle object when its group is
\* gone and the port can be bound again; a failed kill keeps it there.
StopCellProxy ==
  /\ pc = "stop_proxy"
  /\ \/ /\ alive' = alive \ {cell}
        /\ port' = IF port = cell THEN NoCell ELSE port
        /\ tracked' = tracked \ {cell}
     \/ /\ alive' \in {alive, alive \ {cell}}
        /\ port' \in {port, NoCell} /\ (port' = cell => cell \in alive')
        /\ UNCHANGED tracked
  /\ AfterFinally
  /\ UNCHANGED <<loopVars, fileVars, keptVars, slotVars, quietVars, interrupted>>

\* Mutant: a noisy service removes the marker, as contamination does.
Mutant_UnlinkOnNoise ==
  /\ pc = "quiescence"
  /\ IF quiet THEN /\ pc' = "classify"
                   /\ UNCHANGED <<active, tdVars>>
              ELSE active' = NoCell /\ Raise
  /\ UNCHANGED <<loopVars, ledger, receipt, substrate, keptVars, proxyVars,
                 slotVars, quietVars, interrupted>>

CheckCellQuiescence ==
  /\ pc = "quiescence"
  /\ IF quiet THEN pc' = "classify" /\ UNCHANGED tdVars ELSE Raise
  /\ UNCHANGED <<loopVars, fileVars, keptVars, proxyVars, slotVars, quietVars,
                 interrupted>>

\* Contamination stops the run with neither marker nor record: the model was not
\* asked.
StopContaminated ==
  /\ pc = "classify" /\ outcome = "contaminated"
  /\ active' = NoCell
  /\ Raise
  /\ UNCHANGED <<loopVars, ledger, receipt, substrate, keptVars, proxyVars,
                 slotVars, quietVars, interrupted>>

\* The record of the cell: a caught error is infrastructure_invalid, an attempt
\* is what _classify_attempt and _validate_record make of it.
AppendRecord ==
  /\ Step("classify", "unlink")
  /\ \E status \in {"completed", "infrastructure_invalid"} :
       /\ outcome = "attempt" \/ (outcome = "error" /\ status # "completed")
       /\ ledger' = Append(ledger, [cell |-> cell, status |-> status])
  /\ UNCHANGED <<loopVars, active, receipt, substrate, keptVars, proxyVars,
                 slotVars, tdVars, quietVars, interrupted>>

\* Mutant: the loop goes on after an infrastructure error.
Mutant_GoOn ==
  /\ Step("unlink", "next")
  /\ active' = NoCell
  /\ cell' = cell + 1
  /\ UNCHANGED <<outcome, attempted, ledger, receipt, substrate, keptVars,
                 proxyVars, slotVars, tdVars, quietVars, interrupted>>

UnlinkActive ==
  /\ pc = "unlink"
  /\ active' = NoCell
  /\ IF Completed(ledger[Len(ledger)])
     THEN pc' = "next" /\ cell' = cell + 1 /\ UNCHANGED tdVars
     ELSE Raise /\ UNCHANGED cell
  /\ UNCHANGED <<outcome, attempted, ledger, receipt, substrate, keptVars,
                 proxyVars, slotVars, quietVars, interrupted>>

-----------------------------------------------------------------------------
(* After the loop.                                                         *)

\* _load_ledger, the counts, the cumulative budget, the completion receipt.
WriteCompletionReceipt ==
  /\ Step("next", "teardown") /\ cell = ExpectedCells + 1
  /\ Len(ledger) = ExpectedCells
  /\ \A k \in DOMAIN ledger : ledger[k].cell = k /\ Completed(ledger[k])
  /\ receipt' = TRUE
  /\ UNCHANGED <<loopVars, ledger, active, substrate, keptVars, proxyVars,
                 slotVars, tdVars, quietVars, interrupted>>

\* What a teardown attempt makes of the proxies: those whose death could not be
\* confirmed stay in the lifecycle object, and some of them may be alive.
StopProxies(retained) ==
  /\ tracked' = retained
  /\ \E left \in SUBSET (retained \cap alive) :
       /\ alive' = (alive \ tracked) \cup left
       /\ port' = IF port \in alive' THEN port ELSE NoCell

\* A teardown that is not verified is repeated once; then the call raises, which
\* in the try leads to the call of the outer finally.
RetryTeardown ==
  \/ tries = 0 /\ tries' = 1 /\ UNCHANGED <<pc, closed, call>>
  \/ tries = 1 /\ call = "try" /\ Raise
  \/ tries = 1 /\ call = "final" /\ pc' = "ended" /\ UNCHANGED <<closed, call, tries>>

\* One attempt of _stop_live_lifecycle: verified when no proxy is left, the
\* service is as before, and the server side (see ServerLifecycle) is clean.
Teardown ==
  /\ pc = "teardown"
  /\ \E retained \in SUBSET tracked :
       /\ StopProxies(retained)
       /\ \/ /\ retained = {} /\ quiet
             /\ closed' = TRUE
             /\ pc' = IF call = "try" THEN "final" ELSE "ended"
             /\ UNCHANGED <<call, tries>>
          \/ RetryTeardown
  /\ UNCHANGED <<loopVars, fileVars, keptVars, slotVars, quietVars, interrupted>>

\* Mutant: the last look at the production service is left out.
Mutant_NoFinalQuiescence ==
  /\ Step("final", "release")
  /\ UNCHANGED <<loopVars, fileVars, keptVars, proxyVars, slotVars, tdVars,
                 quietVars, interrupted>>

RequireFinalQuiescence ==
  /\ Step("final", "release")
  /\ quiet
  /\ UNCHANGED <<loopVars, fileVars, keptVars, proxyVars, slotVars, tdVars,
                 quietVars, interrupted>>

\* The bundle is intact, the lease is released and each proxy receipt is valid:
\* the substrate receipt binds them.
WriteSubstrateReceipt ==
  /\ Step("release", "ended")
  /\ substrate' = TRUE
  /\ UNCHANGED <<loopVars, ledger, active, receipt, keptVars, proxyVars,
                 slotVars, tdVars, quietVars, interrupted>>

\* Any other failure of a step: the rest of the code raises and changes nothing.
Fail ==
  /\ pc \in {"next", "poll_idle", "erase", "poll_cleared", "proxy", "quiescence",
             "classify", "final", "release"}
  /\ Raise
  /\ UNCHANGED <<loopVars, fileVars, keptVars, proxyVars, slotVars, quietVars,
                 interrupted>>

Controller ==
  \/ WriteActiveMarker \/ PollIdle \/ EraseSlot \/ PollCleared \/ StartCellProxy
  \/ GenerateTask \/ EndAttempt \/ StopCellProxy \/ CheckCellQuiescence
  \/ StopContaminated \/ AppendRecord \/ UnlinkActive
  \/ WriteCompletionReceipt \/ Teardown \/ RequireFinalQuiescence
  \/ WriteSubstrateReceipt \/ Fail

-----------------------------------------------------------------------------
(* The rest of the world.                                                  *)

\* Pi asks the model through whatever proxy listens on the port.
Request ==
  /\ pc = "running" /\ port # NoCell /\ busy = NoCell
  /\ busy' = port
  /\ UNCHANGED <<pc, loopVars, fileVars, keptVars, proxyVars, kv, tdVars,
                 quietVars, interrupted>>

\* The slot keeps the tokens of the request it finishes.
FinishRequest ==
  /\ busy # NoCell
  /\ kv' = kv \cup {busy}
  /\ busy' = NoCell
  /\ UNCHANGED <<pc, loopVars, fileVars, keptVars, proxyVars, tdVars, quietVars,
                 interrupted>>

ProxyExits(c) ==
  /\ c \in alive
  /\ alive' = alive \ {c}
  /\ port' = IF port = c THEN NoCell ELSE port
  /\ UNCHANGED <<pc, loopVars, fileVars, keptVars, tracked, slotVars, tdVars,
                 quietVars, interrupted>>

\* The production service wakes up, restarts or logs anything.
ServiceEvent ==
  /\ quiet
  /\ quiet' = FALSE
  /\ noisyAt' = IF pc = "release" \/ substrate THEN ExpectedCells + 1 ELSE Len(ledger)
  /\ UNCHANGED <<pc, loopVars, fileVars, keptVars, proxyVars, slotVars, tdVars,
                 interrupted>>

\* A KeyboardInterrupt between two steps. Inside the try of the cell the finally
\* still stops the proxy, before it the proxy is left to the teardown; between
\* the start of a proxy and the next line it leaves one that the lifecycle object
\* does not know.
Interrupt ==
  /\ pc \notin {"ended", "crashed"}
  /\ interrupted' = TRUE
  /\ \/ /\ pc \in {"generate", "running"}
        /\ pc' = "stop_proxy" /\ outcome' = "interrupt"
        /\ UNCHANGED <<tdVars, alive, port>>
     \/ /\ pc # "running"
        /\ IF pc = "teardown" /\ call = "final"
           THEN pc' = "ended" /\ UNCHANGED tdVars ELSE Raise
        /\ UNCHANGED <<outcome, alive, port>>
     \/ /\ pc = "proxy" /\ port = NoCell
        /\ alive' = alive \cup {cell} /\ port' = cell
        /\ Raise
        /\ UNCHANGED outcome
  /\ UNCHANGED <<cell, attempted, fileVars, keptVars, tracked, slotVars,
                 quietVars>>

\* The controller dies.
Crash ==
  /\ pc \notin {"ended", "crashed"}
  /\ pc' = "crashed"
  /\ UNCHANGED <<loopVars, fileVars, keptVars, proxyVars, slotVars, tdVars,
                 quietVars, interrupted>>

Next ==
  \/ Controller \/ Request \/ FinishRequest \/ ServiceEvent
  \/ \E c \in Cells : ProxyExits(c)
  \/ Interrupt \/ Crash

Spec == Init /\ [][Next]_vars

-----------------------------------------------------------------------------
(* Properties.                                                             *)

Pcs == {"next", "poll_idle", "erase", "poll_cleared", "proxy", "generate",
        "running", "stop_proxy", "quiescence", "classify", "unlink", "teardown",
        "final", "release", "ended", "crashed"}

Record == [cell : Cells, status : {"completed", "infrastructure_invalid"}]

LoopOK ==
  /\ pc \in Pcs /\ cell \in 1 .. ExpectedCells + 1
  /\ outcome \in {"none", "attempt", "error", "contaminated", "interrupt"}
  /\ attempted \subseteq Cells
  /\ closed \in BOOLEAN /\ call \in {"try", "final"} /\ tries \in {0, 1}
  /\ interrupted \in BOOLEAN

FilesOK ==
  /\ ledger \in Seq(Record) /\ active \in Cells \cup {NoCell}
  /\ receipt \in BOOLEAN /\ substrate \in BOOLEAN
  /\ slotReceipts \subseteq Cells /\ proxyOutputs \subseteq Cells

HostOK ==
  /\ tracked \subseteq Cells /\ alive \subseteq Cells
  /\ port \in Cells \cup {NoCell}
  /\ kv \subseteq Cells /\ busy \in Cells \cup {NoCell}
  /\ quiet \in BOOLEAN /\ noisyAt \in 0 .. ExpectedCells + 1

\* Types. The attempts of a teardown never pass its one retry.
TypeOK == LoopOK /\ FilesOK /\ HostOK

\* The ledger is a manifest-order prefix with one record per cell at every
\* moment, and only its last record may be infrastructure_invalid: no cell is
\* run again and none follows a failed one.
LedgerIsPrefix ==
  \A k \in DOMAIN ledger :
    /\ ledger[k].cell = k
    /\ k < Len(ledger) => Completed(ledger[k])

\* Whenever the run stops, by an error, an interrupt or a crash, an attempt that
\* used the model is in the ledger or named by the active marker: it can always
\* be adjudicated.
AttemptTraced == \A c \in attempted : c \in Recorded \/ active = c

\* The attempt of a cell starts from an empty slot and is alone in it: the tokens
\* of another cell are never there to be reused.
CleanSlot == pc = "running" => kv \subseteq {cell} /\ busy \in {NoCell, cell}

\* What Pi sends during an attempt goes through the proxy of its own cell, even
\* when the proxy of an earlier cell could not be stopped.
OwnProxy == pc = "running" => port \in {NoCell, cell}

\* A proxy that may be alive stays in the lifecycle object, and a verified
\* teardown left none. An interrupt between two lines is excepted.
ProxiesOwned ==
  ~interrupted => alive \subseteq tracked /\ (closed => alive = {})

\* Once the production service was active no second record is added: at most the
\* cell that had already passed its check.
NoiseStopsRun == ~quiet => Len(ledger) <= noisyAt + 1

\* A substrate receipt is written only for a complete generation: every cell
\* completed once, with its slot cleared and its proxy receipt, no marker left,
\* the completion receipt in place and a quiet service up to the last check.
SubstrateSound ==
  substrate =>
    /\ receipt /\ closed /\ active = NoCell
    /\ Len(ledger) = ExpectedCells
    /\ \A k \in DOMAIN ledger : Completed(ledger[k])
    /\ slotReceipts = Cells /\ proxyOutputs = Cells /\ attempted = Cells
    /\ quiet \/ noisyAt = ExpectedCells + 1

=============================================================================
