------------------------------ MODULE BudgetV3 ------------------------------
(***************************************************************************)
(* The budget extension of one Pi session: provider requests, tool         *)
(* attempts and tool admissions are capped independently, and a receipt is *)
(* written when the agent settles. One action per hook of the extension;   *)
(* Pi itself, which calls the hooks, is external and modelled by the order *)
(* in which the extension and its conformance tests see its events: the    *)
(* calls of a message are prepared one after another and stop at an abort, *)
(* the admitted ones run at the same time and end in any order.            *)
(*                                                                         *)
(* A call is named by its id. The model chooses the ids, so an id may come *)
(* back in a later message; within one message Pi merges equal ids.        *)
(***************************************************************************)
EXTENDS Integers, FiniteSets, Sequences

CONSTANTS Calls,           \* tool-call ids
          NoCall,          \* no id
          Unbudgeted,      \* ids of calls to tools outside BUDGETED_TOOLS
          TurnLimit,       \* --gym-provider-turn-limit
          AdmissionLimit,  \* --gym-tool-limit
          MaxBatch,        \* calls in one assistant message, at most
          MaxReloads       \* extension reloads in a behaviour, at most

ASSUME BudgetAssumption ==
  /\ IsFiniteSet(Calls) /\ NoCall \notin Calls /\ Unbudgeted \subseteq Calls
  /\ TurnLimit \in Nat \ {0} /\ AdmissionLimit \in Nat
  /\ MaxBatch \in Nat /\ MaxReloads \in Nat

AttemptLimit == AdmissionLimit + 1

VARIABLES
  admissions,    \* providerRequestAdmissions
  blocks,        \* providerRequestBlocks
  attempts,      \* toolAttemptCount
  attemptIds, admittedIds, executedIds, suppressedIds,
  violations,    \* kinds of invariantViolations recorded
  pc,            \* where Pi is
  aborted,       \* ctx.signal.aborted
  queue,         \* calls of the message that are not started yet
  current,       \* the started call whose tool_call hook is due, or none
  running,       \* calls Pi runs: it let them pass the tool_call hook
  turns,         \* provider responses received
  granted,       \* budgeted calls that Pi went on to run, counted one by one
  trace,         \* [id, how] in the order the calls ended
  reloads

budgetVars == <<admissions, blocks, attempts, attemptIds, admittedIds,
                executedIds, suppressedIds, violations>>
piVars     == <<pc, aborted, queue, current, running, turns, granted, trace,
                reloads>>
vars       == <<budgetVars, piVars>>

ResetBudgetState ==
  /\ admissions' = 0 /\ blocks' = 0 /\ attempts' = 0
  /\ attemptIds' = {} /\ admittedIds' = {} /\ executedIds' = {}
  /\ suppressedIds' = {} /\ violations' = {}

Init ==
  /\ admissions = 0 /\ blocks = 0 /\ attempts = 0
  /\ attemptIds = {} /\ admittedIds = {} /\ executedIds = {}
  /\ suppressedIds = {} /\ violations = {}
  /\ pc = "gate" /\ aborted = FALSE
  /\ queue = {} /\ current = NoCall /\ running = {}
  /\ turns = 0 /\ granted = 0 /\ trace = <<>> /\ reloads = 0

\* What a check adds to the violations when it fails.
Flag(failed, label) == IF failed THEN {label} ELSE {}

-----------------------------------------------------------------------------
(* The hooks.                                                              *)

\* Mutant: every session_start resets the budget.
Mutant_ResetOnEveryStart(reason) ==
  /\ pc = "gate" /\ reloads < MaxReloads
  /\ reloads' = reloads + 1
  /\ ResetBudgetState
  /\ UNCHANGED <<pc, aborted, queue, current, running, turns, granted, trace>>

\* A session starts again inside the process: the budget lives on globalThis
\* and only the reason "startup" resets it.
SessionStart(reason) ==
  /\ pc = "gate" /\ reloads < MaxReloads
  /\ reloads' = reloads + 1
  /\ IF reason = "startup" THEN ResetBudgetState ELSE UNCHANGED budgetVars
  /\ UNCHANGED <<pc, aborted, queue, current, running, turns, granted, trace>>

Exhausted == \/ admissions >= TurnLimit
             \/ attempts >= AttemptLimit
             \/ violations # {}

BlockProviderRequest ==
  /\ pc = "gate" /\ Exhausted
  /\ blocks' = blocks + 1
  /\ violations' = violations \cup Flag(blocks' > 1, "multiple_blocks")
  /\ aborted' = TRUE
  /\ pc' = "ended"
  /\ UNCHANGED <<admissions, attempts, attemptIds, admittedIds, executedIds,
                 suppressedIds, queue, current, running, turns, granted, trace,
                 reloads>>

AdmitProviderRequest ==
  /\ pc = "gate" /\ ~Exhausted
  /\ admissions' = admissions + 1
  /\ pc' = "provider"
  /\ UNCHANGED <<blocks, attempts, attemptIds, admittedIds, executedIds,
                 suppressedIds, violations, aborted, queue, current, running,
                 turns, granted, trace, reloads>>

Remaining == IF AttemptLimit >= attempts THEN AttemptLimit - attempts ELSE 0

\* A message with no call ends the session.
FinalMessage ==
  /\ pc = "provider"
  /\ turns' = turns + 1
  /\ pc' = "ended"
  /\ UNCHANGED <<budgetVars, aborted, queue, current, running, granted, trace,
                 reloads>>

BatchMessage(batch) ==
  /\ pc = "provider"
  /\ batch # {} /\ Cardinality(batch) <= MaxBatch
  /\ Cardinality(batch) <= Remaining
  /\ turns' = turns + 1
  /\ queue' = batch
  /\ pc' = "tools"
  /\ UNCHANGED <<budgetVars, aborted, current, running, granted, trace, reloads>>

\* More calls than attempts are left: one is kept as the terminal attempt, its
\* siblings are suppressed and the session is aborted.
OverlongMessage(batch, terminal) ==
  /\ pc = "provider"
  /\ Cardinality(batch) <= MaxBatch /\ terminal \in batch
  /\ Cardinality(batch) > Remaining
  /\ turns' = turns + 1
  /\ suppressedIds' = suppressedIds \cup (batch \ {terminal})
  /\ violations' = violations \cup
       Flag(suppressedIds \cap (batch \ {terminal}) # {}, "duplicate_suppressed")
  /\ aborted' = TRUE
  /\ queue' = {terminal}
  /\ pc' = "tools"
  /\ UNCHANGED <<admissions, blocks, attempts, attemptIds, admittedIds,
                 executedIds, current, running, granted, trace, reloads>>

\* Mutant: an attempt that starts after the abort is counted but not listed.
Mutant_StartIgnoresAborted(c) ==
  /\ pc = "tools" /\ current = NoCall /\ c \in queue
  /\ queue' = queue \ {c}
  /\ current' = c
  /\ attempts' = attempts + 1
  /\ aborted' = (aborted \/ c \in attemptIds)
  /\ attemptIds' = IF aborted THEN attemptIds ELSE attemptIds \cup {c}
  /\ violations' = violations \cup Flag(c \in attemptIds, "duplicate_attempt")
  /\ UNCHANGED <<admissions, blocks, admittedIds, executedIds, suppressedIds,
                 pc, running, turns, granted, trace, reloads>>

ToolExecutionStart(c) ==
  /\ pc = "tools" /\ current = NoCall /\ c \in queue
  /\ queue' = queue \ {c}
  /\ current' = c
  /\ attempts' = attempts + 1
  /\ IF attempts' > AttemptLimit
     THEN /\ violations' = violations \cup {"attempt_limit_bypassed"}
          /\ aborted' = TRUE
          /\ UNCHANGED attemptIds
     ELSE /\ violations' = violations \cup
                             Flag(c \in attemptIds, "duplicate_attempt")
          /\ aborted' = (aborted \/ c \in attemptIds)
          /\ attemptIds' = attemptIds \cup {c}
  /\ UNCHANGED <<admissions, blocks, admittedIds, executedIds, suppressedIds,
                 pc, running, turns, granted, trace, reloads>>

\* Once a call is prepared Pi goes on to the next one, unless it was aborted.
Prepared(c, how) ==
  /\ current' = NoCall
  /\ queue' = IF aborted' THEN {} ELSE queue
  /\ IF how = "runs" THEN running' = running \cup {c} /\ UNCHANGED trace
     ELSE trace' = Append(trace, [id |-> c, how |-> how]) /\ UNCHANGED running

\* Pi validates the arguments before the tool_call hook.
RejectArguments(c) ==
  /\ pc = "tools" /\ current = c
  /\ UNCHANGED aborted
  /\ Prepared(c, "rejected")
  /\ UNCHANGED <<budgetVars, pc, turns, granted, reloads>>

\* Mutant: the tool_call hook does not look at the abort signal.
Mutant_MustBlock == Cardinality(admittedIds) >= AdmissionLimit

MustBlock == aborted \/ Cardinality(admittedIds) >= AdmissionLimit

BlockToolCall(c) ==
  /\ pc = "tools" /\ current = c
  /\ IF c \in Unbudgeted THEN aborted ELSE MustBlock
  /\ aborted' = TRUE
  /\ Prepared(c, "blocked")
  /\ UNCHANGED <<budgetVars, pc, turns, granted, reloads>>

AdmitToolCall(c) ==
  /\ pc = "tools" /\ current = c /\ c \notin Unbudgeted
  /\ ~MustBlock
  /\ violations' = violations
       \cup Flag(c \notin attemptIds, "admission_without_attempt")
       \cup Flag(c \in admittedIds, "duplicate_admitted")
  /\ admittedIds' = admittedIds \cup {c}
  /\ granted' = granted + 1
  /\ UNCHANGED aborted
  /\ Prepared(c, "runs")
  /\ UNCHANGED <<admissions, blocks, attempts, attemptIds, executedIds,
                 suppressedIds, pc, turns, reloads>>

PassUnbudgeted(c) ==
  /\ pc = "tools" /\ current = c /\ c \in Unbudgeted /\ ~aborted
  /\ UNCHANGED aborted
  /\ Prepared(c, "runs")
  /\ UNCHANGED <<budgetVars, pc, turns, granted, reloads>>

\* The end of a running call: its tool_result hook, and Pi's end event. Under an
\* abort Pi may end the call without its result.
ToolResult(c) ==
  /\ pc = "tools" /\ c \in running
  /\ running' = running \ {c}
  /\ trace' = Append(trace, [id |-> c, how |-> "ran"])
  /\ IF c \in Unbudgeted THEN UNCHANGED <<executedIds, violations>>
     ELSE \/ /\ violations' = violations
                  \cup Flag(c \notin admittedIds, "execution_without_admission")
                  \cup Flag(c \in executedIds, "duplicate_executed")
             /\ executedIds' = executedIds \cup {c}
          \/ aborted /\ UNCHANGED <<executedIds, violations>>
  /\ UNCHANGED <<admissions, blocks, attempts, attemptIds, admittedIds,
                 suppressedIds, pc, aborted, queue, current, turns, granted,
                 reloads>>

\* All calls of the message ended: Pi asks the provider again, or ends with a
\* message of its own when it was aborted.
EndBatch ==
  /\ pc = "tools" /\ queue = {} /\ current = NoCall /\ running = {}
  /\ pc' = IF aborted THEN "ended" ELSE "gate"
  /\ UNCHANGED <<budgetVars, aborted, queue, current, running, turns, granted,
                 trace, reloads>>

\* agent_settled: the receipt is written from the budget state, once.
EmitReceipt ==
  /\ pc = "ended"
  /\ pc' = "settled"
  /\ UNCHANGED <<budgetVars, aborted, queue, current, running, turns, granted,
                 trace, reloads>>

\* The wall-clock limit of the attempt kills Pi: there is no receipt.
Timeout ==
  /\ pc \notin {"settled", "killed"}
  /\ pc' = "killed"
  /\ UNCHANGED <<budgetVars, aborted, queue, current, running, turns, granted,
                 trace, reloads>>

Next ==
  \/ SessionStart("reload")
  \/ BlockProviderRequest \/ AdmitProviderRequest \/ FinalMessage
  \/ \E batch \in SUBSET Calls : BatchMessage(batch)
  \/ \E batch \in SUBSET Calls : \E c \in batch : OverlongMessage(batch, c)
  \/ \E c \in Calls : \/ ToolExecutionStart(c) \/ RejectArguments(c)
                      \/ BlockToolCall(c) \/ AdmitToolCall(c)
                      \/ PassUnbudgeted(c) \/ ToolResult(c)
  \/ EndBatch \/ EmitReceipt \/ Timeout

Spec == Init /\ [][Next]_vars

-----------------------------------------------------------------------------
(* What the harness makes of a settled session.                            *)

IdsOf(t) == {t[i].id : i \in DOMAIN t}

\* Mutant: the provider block in the receipt is not consulted.
Mutant_SyntheticRecognised ==
  trace # <<>> /\ trace[Len(trace)].how = "blocked"

\* _is_terminal_synthetic_abort: the message Pi adds after an abort is not
\* counted as a provider turn when the receipt has a provider block, or when the
\* call that ended last was aborted.
SyntheticRecognised ==
  \/ blocks = 1
  \/ trace # <<>> /\ trace[Len(trace)].how = "blocked"

ProviderTurnCount ==
  turns + (IF aborted /\ ~SyntheticRecognised THEN 1 ELSE 0)

\* The accounting checks of _budget_receipt_errors.
ReceiptReconciles ==
  /\ 1 <= admissions /\ admissions <= TurnLimit /\ blocks \in {0, 1}
  /\ attempts <= AttemptLimit /\ Cardinality(admittedIds) <= AdmissionLimit
  /\ executedIds \subseteq admittedIds /\ admittedIds \subseteq attemptIds
  /\ Cardinality(attemptIds) = attempts
  /\ Len(trace) = attempts /\ IdsOf(trace) = attemptIds

\* The checks on the blocked attempt in _attempt_structural_errors.
BlockedIsTerminal ==
  LET blocked == {i \in DOMAIN trace : trace[i].how = "blocked"}
  IN blocked # {} => /\ blocked = {Len(trace)}
                     /\ \/ Cardinality(admittedIds) = AdmissionLimit
                        \/ suppressedIds # {}

\* The model repeated no id: nothing but its own calls is in the lists.
FreshIds == violations = {} /\ suppressedIds \cap attemptIds = {}

-----------------------------------------------------------------------------
(* Properties.                                                             *)

\* Types. The three counters never pass the limits of the header, which is more
\* than a test of one handler shows: attempts may pass AdmissionLimit by one.
TypeOK ==
  /\ admissions \in 0 .. TurnLimit /\ blocks \in {0, 1}
  /\ attempts \in 0 .. AttemptLimit
  /\ attemptIds \subseteq Calls /\ admittedIds \subseteq Calls
  /\ executedIds \subseteq Calls /\ suppressedIds \subseteq Calls
  /\ pc \in {"gate", "provider", "tools", "ended", "settled", "killed"}
  /\ aborted \in BOOLEAN
  /\ queue \subseteq Calls /\ current \in Calls \cup {NoCall}
  /\ running \subseteq Calls
  /\ turns \in Nat /\ granted \in Nat /\ reloads \in 0 .. MaxReloads
  /\ trace \in Seq([id : Calls, how : {"rejected", "blocked", "ran"}])

\* The independent caps of the header, on what Pi really did: no more responses
\* than TurnLimit, no more tool runs than AdmissionLimit, each id run at most
\* once, however ids repeat, messages batch calls and extensions reload.
SpendingCapped ==
  /\ turns <= TurnLimit
  /\ granted = Cardinality(admittedIds) /\ granted <= AdmissionLimit

\* The self-checks of the extension never trip but for an id that the model
\* itself repeats: no attempt passes the limit, none is admitted or executed
\* without the step before it, the gate blocks once.
OnlyRepeatedIdsViolate == violations \subseteq {"duplicate_attempt"}

\* "Suppress every sibling so none can be admitted": after an abort the session
\* spends nothing more, and it stays aborted.
AbortIsFinal ==
  [][aborted => aborted' /\ UNCHANGED <<admissions, admittedIds, granted>>]_vars

\* A settled receipt reconciles with the events when the model repeats no id,
\* in whatever order parallel calls end.
ReceiptSound == pc = "settled" /\ FreshIds => ReceiptReconciles

\* No more calls were started than there were messages, and none was suppressed.
Serial == suppressedIds = {} /\ Len(trace) <= turns

\* An honest session is never classified infrastructure_invalid for its budget
\* when it makes its calls one by one: the blocked attempt is the last one and
\* the turns match the admissions. Parallel calls do not have that guarantee.
SettledAttemptAccepted ==
  pc = "settled" /\ FreshIds /\ Serial =>
    ReceiptReconciles /\ BlockedIsTerminal /\ ProviderTurnCount = admissions

=============================================================================
