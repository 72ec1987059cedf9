--------------------------- MODULE BudgetV3_proofs --------------------------
(***************************************************************************)
(* What the budget extension guarantees for every limit, every set of ids  *)
(* and every batch size.                                                   *)
(***************************************************************************)
EXTENDS BudgetV3, FiniteSetTheorems, TLAPS

Entries == [id : Calls, how : {"rejected", "blocked", "ran"}]

Shapes ==
  /\ admissions \in Nat /\ blocks \in Nat /\ attempts \in Nat
  /\ turns \in Nat /\ granted \in Nat /\ reloads \in 0 .. MaxReloads
  /\ attemptIds \subseteq Calls /\ admittedIds \subseteq Calls
  /\ executedIds \subseteq Calls /\ suppressedIds \subseteq Calls
  /\ queue \subseteq Calls /\ running \subseteq Calls
  /\ current \in Calls \cup {NoCall}
  /\ trace \in Seq(Entries)

Modes ==
  /\ pc \in {"gate", "provider", "tools", "ended", "settled", "killed"}
  /\ aborted \in BOOLEAN

\* Between two messages nothing of the last one is left, and a session that was
\* aborted asks for no message.
Idle ==
  /\ pc \in {"gate", "provider", "ended", "settled"} =>
       queue = {} /\ current = NoCall /\ running = {}
  /\ pc \in {"gate", "provider"} => ~aborted
  /\ ~aborted => violations = {} /\ suppressedIds = {}

Turns ==
  /\ admissions <= TurnLimit
  /\ turns <= admissions
  /\ pc = "provider" => turns < admissions
  /\ blocks \in {0, 1}
  /\ pc \in {"gate", "provider", "tools"} => blocks = 0

\* The attempts left cover the calls that are still to be started.
Attempts ==
  /\ attempts <= AttemptLimit
  /\ pc = "provider" => attempts < AttemptLimit
  /\ pc = "tools" => attempts + Cardinality(queue) <= AttemptLimit

\* Attempted, admitted, running, executed: each is a step after the one before.
Stages ==
  /\ admittedIds \subseteq attemptIds
  /\ executedIds \subseteq admittedIds
  /\ running \subseteq attemptIds
  /\ running \ Unbudgeted \subseteq admittedIds
  /\ running \cap executedIds = {}
  /\ current # NoCall => /\ current \in attemptIds
                         /\ ~aborted => current \notin admittedIds \cup running

Admissions ==
  /\ granted = Cardinality(admittedIds)
  /\ granted <= AdmissionLimit

\* The inductive invariant: the shapes, what is left between messages, the three
\* caps, the order of the stages of a call.
IInv == /\ Shapes /\ Modes /\ Idle /\ Turns /\ Attempts /\ Stages /\ Admissions
        /\ OnlyRepeatedIdsViolate

\* Every set of ids is finite.
LEMMA CallsFinite == \A S \in SUBSET Calls : IsFiniteSet(S) /\ Cardinality(S) \in Nat
  BY FS_Subset, FS_CardinalityType, BudgetAssumption

\* A uniquePush of a new id makes a list one longer.
LEMMA Grows ==
  ASSUME NEW S \in SUBSET Calls, NEW c, c \notin S
  PROVE  Cardinality(S \cup {c}) = Cardinality(S) + 1
  BY CallsFinite, FS_AddElement

\* Taking a member out of a set of ids makes it one smaller.
LEMMA Shrinks ==
  ASSUME NEW S \in SUBSET Calls, NEW c \in S
  PROVE  Cardinality(S \ {c}) = Cardinality(S) - 1
  BY CallsFinite, FS_RemoveElement

\* A fresh budget state satisfies the invariant.
LEMMA InitInv == Init => IInv
<1> SUFFICES ASSUME Init PROVE IInv
  OBVIOUS
<1> USE BudgetAssumption, FS_EmptySet DEF Init
<1>1. Shapes
  BY DEF Shapes
<1>2. Modes /\ Idle /\ OnlyRepeatedIdsViolate
  BY DEF Modes, Idle, OnlyRepeatedIdsViolate
<1>3. Turns /\ Attempts
  BY DEF Turns, Attempts, AttemptLimit
<1>4. Stages /\ Admissions
  BY DEF Stages, Admissions
<1> QED BY <1>1, <1>2, <1>3, <1>4 DEF IInv

\* Every hook keeps the shapes of the budget state.
LEMMA ShapesStep == Shapes /\ [Next]_vars => Shapes'
<1> SUFFICES ASSUME Shapes, [Next]_vars PROVE Shapes'
  OBVIOUS
<1> USE BudgetAssumption DEF Shapes
<1>1. CASE SessionStart("reload")
  BY <1>1 DEF SessionStart, budgetVars
<1>2. CASE BlockProviderRequest \/ AdmitProviderRequest
  BY <1>2 DEF BlockProviderRequest, AdmitProviderRequest
<1>3. CASE FinalMessage \/ EndBatch \/ EmitReceipt \/ Timeout
  BY <1>3 DEF FinalMessage, EndBatch, EmitReceipt, Timeout, budgetVars
<1>4. ASSUME NEW batch \in SUBSET Calls, BatchMessage(batch) PROVE Shapes'
  BY <1>4 DEF BatchMessage, budgetVars
<1>5. ASSUME NEW batch \in SUBSET Calls, NEW c \in batch, OverlongMessage(batch, c)
      PROVE  Shapes'
  BY <1>5 DEF OverlongMessage
<1>6. ASSUME NEW c \in Calls, ToolExecutionStart(c) PROVE Shapes'
  BY <1>6 DEF ToolExecutionStart
<1>7. ASSUME NEW c \in Calls, RejectArguments(c) \/ BlockToolCall(c) PROVE Shapes'
  <2>1. PICK e \in Entries : trace' = Append(trace, e)
    BY <1>7 DEF RejectArguments, BlockToolCall, Prepared, Entries
  <2>2. trace' \in Seq(Entries)
    BY <2>1
  <2> QED BY <1>7, <2>2 DEF RejectArguments, BlockToolCall, Prepared, budgetVars
<1>8. ASSUME NEW c \in Calls, AdmitToolCall(c) \/ PassUnbudgeted(c) PROVE Shapes'
  BY <1>8 DEF AdmitToolCall, PassUnbudgeted, Prepared, budgetVars
<1>9. ASSUME NEW c \in Calls, ToolResult(c) PROVE Shapes'
  BY <1>9 DEF ToolResult, Entries
<1>10. CASE UNCHANGED vars
  BY <1>10 DEF vars, budgetVars, piVars
<1> QED BY <1>1, <1>2, <1>3, <1>4, <1>5, <1>6, <1>7, <1>8, <1>9, <1>10 DEF Next
\* Every hook keeps the inductive invariant.
LEMMA Step == IInv /\ [Next]_vars => IInv'
<1> SUFFICES ASSUME IInv, [Next]_vars PROVE IInv'
  OBVIOUS
<1> DEFINE Inv == Modes /\ Idle /\ Turns /\ Attempts /\ Stages /\ Admissions
                  /\ OnlyRepeatedIdsViolate
<1>s. Shapes'
  BY ShapesStep DEF IInv
<1> USE BudgetAssumption DEF IInv
<1>1. CASE SessionStart("reload")
  BY <1>1, <1>s DEF SessionStart, budgetVars, Modes, Idle, Turns, Attempts,
     Stages, Admissions, OnlyRepeatedIdsViolate
<1>2. CASE BlockProviderRequest
  <2>1. Modes' /\ Idle'
    BY <1>2, <1>s, CallsFinite DEF BlockProviderRequest, Flag, Modes, Idle
  <2>2. Turns'
    BY <1>2, <1>s, CallsFinite DEF BlockProviderRequest, Flag, Turns, Shapes, Idle, Modes
  <2>3. Attempts'
    BY <1>2, <1>s, CallsFinite DEF BlockProviderRequest, Flag, Attempts, Shapes, Idle, AttemptLimit
  <2>4. Stages'
    BY <1>2, <1>s, CallsFinite DEF BlockProviderRequest, Flag, Stages, Shapes, Idle
  <2>5. Admissions'
    BY <1>2, <1>s, CallsFinite DEF BlockProviderRequest, Flag, Admissions, Stages, Shapes
  <2>6. OnlyRepeatedIdsViolate'
    <3>1. blocks = 0 /\ blocks' = 1
      BY <1>2 DEF BlockProviderRequest, Turns
    <3> QED BY <1>2, <3>1 DEF BlockProviderRequest, Flag, OnlyRepeatedIdsViolate
  <2> QED BY <1>s, <2>1, <2>2, <2>3, <2>4, <2>5, <2>6
<1>3. CASE AdmitProviderRequest
  <2>1. Modes' /\ Idle'
    BY <1>3, <1>s, CallsFinite DEF AdmitProviderRequest, Exhausted, Modes, Idle
  <2>2. Turns'
    BY <1>3, <1>s, CallsFinite DEF AdmitProviderRequest, Exhausted, Turns, Shapes, Idle, Modes
  <2>3. Attempts'
    BY <1>3, <1>s, CallsFinite DEF AdmitProviderRequest, Exhausted, Attempts, Shapes, Idle, AttemptLimit
  <2>4. Stages'
    BY <1>3, <1>s, CallsFinite DEF AdmitProviderRequest, Exhausted, Stages, Shapes, Idle
  <2>5. Admissions'
    BY <1>3, <1>s, CallsFinite DEF AdmitProviderRequest, Exhausted, Admissions, Stages, Shapes
  <2>6. OnlyRepeatedIdsViolate'
    BY <1>3, <1>s, CallsFinite DEF AdmitProviderRequest, Exhausted, OnlyRepeatedIdsViolate, Idle, Stages
  <2> QED BY <1>s, <2>1, <2>2, <2>3, <2>4, <2>5, <2>6
<1>4. CASE FinalMessage
  <2>1. Modes' /\ Idle'
    BY <1>4, <1>s, CallsFinite DEF FinalMessage, budgetVars, Modes, Idle
  <2>2. Turns'
    BY <1>4, <1>s, CallsFinite DEF FinalMessage, budgetVars, Turns, Shapes, Idle, Modes
  <2>3. Attempts'
    BY <1>4, <1>s, CallsFinite DEF FinalMessage, budgetVars, Attempts, Shapes, Idle, AttemptLimit
  <2>4. Stages'
    BY <1>4, <1>s, CallsFinite DEF FinalMessage, budgetVars, Stages, Shapes, Idle
  <2>5. Admissions'
    BY <1>4, <1>s, CallsFinite DEF FinalMessage, budgetVars, Admissions, Stages, Shapes
  <2>6. OnlyRepeatedIdsViolate'
    BY <1>4, <1>s, CallsFinite DEF FinalMessage, budgetVars, OnlyRepeatedIdsViolate, Idle, Stages
  <2> QED BY <1>s, <2>1, <2>2, <2>3, <2>4, <2>5, <2>6
<1>5. CASE EndBatch
  BY <1>5, <1>s DEF EndBatch, budgetVars, Modes, Idle, Turns, Attempts,
     Stages, Admissions, OnlyRepeatedIdsViolate
<1>6. CASE EmitReceipt \/ Timeout
  BY <1>6, <1>s DEF EmitReceipt, Timeout, budgetVars, Modes, Idle, Turns, Attempts,
     Stages, Admissions, OnlyRepeatedIdsViolate
<1>7. ASSUME NEW batch \in SUBSET Calls, BatchMessage(batch)
      PROVE Inv'
  <2>1. Modes' /\ Idle'
    BY <1>7, <1>s, CallsFinite DEF BatchMessage, Remaining, budgetVars, Modes, Idle
  <2>2. Turns'
    BY <1>7, <1>s, CallsFinite DEF BatchMessage, Remaining, budgetVars, Turns, Shapes, Idle, Modes
  <2>3. Attempts'
    BY <1>7, <1>s, CallsFinite DEF BatchMessage, Remaining, budgetVars, Attempts, Shapes, Idle, AttemptLimit
  <2>4. Stages'
    BY <1>7, <1>s, CallsFinite DEF BatchMessage, Remaining, budgetVars, Stages, Shapes, Idle
  <2>5. Admissions'
    BY <1>7, <1>s, CallsFinite DEF BatchMessage, Remaining, budgetVars, Admissions, Stages, Shapes
  <2>6. OnlyRepeatedIdsViolate'
    BY <1>7, <1>s, CallsFinite DEF BatchMessage, Remaining, budgetVars, OnlyRepeatedIdsViolate, Idle, Stages
  <2> QED BY <1>s, <2>1, <2>2, <2>3, <2>4, <2>5, <2>6
<1>8. ASSUME NEW batch \in SUBSET Calls, NEW c \in batch, OverlongMessage(batch, c)
      PROVE Inv'
  <2>1. Modes' /\ Idle'
    BY <1>8, <1>s, CallsFinite DEF OverlongMessage, Flag, Modes, Idle
  <2>2. Turns'
    BY <1>8, <1>s, CallsFinite DEF OverlongMessage, Flag, Turns, Shapes, Idle, Modes
  <2>3. Attempts'
    <3>1. Cardinality(queue') = 1
      BY <1>8, FS_Singleton DEF OverlongMessage
    <3> QED BY <1>8, <3>1 DEF OverlongMessage, Attempts, Shapes, AttemptLimit
  <2>4. Stages'
    BY <1>8, <1>s, CallsFinite DEF OverlongMessage, Flag, Stages, Shapes, Idle
  <2>5. Admissions'
    BY <1>8, <1>s, CallsFinite DEF OverlongMessage, Flag, Admissions, Stages, Shapes
  <2>6. OnlyRepeatedIdsViolate'
    BY <1>8, <1>s, CallsFinite DEF OverlongMessage, Flag, OnlyRepeatedIdsViolate, Idle, Stages
  <2> QED BY <1>s, <2>1, <2>2, <2>3, <2>4, <2>5, <2>6
<1>9. ASSUME NEW c \in Calls, ToolExecutionStart(c)
      PROVE Inv'
  <2>a. Cardinality(queue') = Cardinality(queue) - 1 /\ attempts' = attempts + 1
    BY <1>9, Shrinks DEF ToolExecutionStart, Shapes
  <2>b. attempts' <= AttemptLimit
    <3>1. Cardinality(queue') \in Nat /\ Cardinality(queue) \in Nat
      BY <1>s, CallsFinite DEF Shapes
    <3> QED BY <1>9, <2>a, <3>1 DEF ToolExecutionStart, Attempts, Shapes, AttemptLimit
  <2>c. /\ violations' = violations \cup Flag(c \in attemptIds, "duplicate_attempt")
        /\ aborted' = (aborted \/ c \in attemptIds)
        /\ attemptIds' = attemptIds \cup {c}
    <3>1. ~(attempts' > AttemptLimit)
      BY <2>b, <1>s DEF Shapes, AttemptLimit
    <3> QED BY <1>9, <3>1 DEF ToolExecutionStart
  <2>1. Modes' /\ Idle'
    BY <1>9, <1>s, CallsFinite DEF ToolExecutionStart, Flag, Modes, Idle
  <2>2. Turns'
    BY <1>9, <1>s, CallsFinite DEF ToolExecutionStart, Flag, Turns, Shapes, Idle, Modes
  <2>3. Attempts'
    BY <1>9, <1>s, <2>a, <2>b, CallsFinite DEF ToolExecutionStart, Attempts, Shapes,
       AttemptLimit
  <2>4. Stages'
    <3>1. c \notin attemptIds => c \notin admittedIds \cup running
      BY DEF Stages
    <3>2. ~aborted' => c \notin attemptIds
      BY <2>c
    <3> QED BY <1>9, <2>c, <3>1, <3>2 DEF ToolExecutionStart, Stages
  <2>5. Admissions'
    BY <1>9, <1>s, CallsFinite DEF ToolExecutionStart, Flag, Admissions, Stages, Shapes
  <2>6. OnlyRepeatedIdsViolate'
    BY <2>c DEF Flag, OnlyRepeatedIdsViolate
  <2> QED BY <1>s, <2>1, <2>2, <2>3, <2>4, <2>5, <2>6
<1>10. ASSUME NEW c \in Calls, RejectArguments(c)
      PROVE Inv'
  <2>1. Modes' /\ Idle'
    BY <1>10, <1>s, CallsFinite DEF RejectArguments, Prepared, budgetVars, Modes, Idle
  <2>2. Turns'
    BY <1>10, <1>s, CallsFinite DEF RejectArguments, Prepared, budgetVars, Turns, Shapes, Idle, Modes
  <2>3. Attempts'
    <3>1. Cardinality(queue') \in Nat /\ Cardinality(queue') <= Cardinality(queue)
      BY <1>10, FS_EmptySet, CallsFinite DEF RejectArguments, Prepared, Shapes
    <3> QED BY <1>10, <3>1, CallsFinite DEF RejectArguments, Attempts, Shapes, AttemptLimit,
               budgetVars
  <2>4. Stages'
    BY <1>10, <1>s, CallsFinite DEF RejectArguments, Prepared, budgetVars, Stages, Shapes, Idle
  <2>5. Admissions'
    BY <1>10, <1>s, CallsFinite DEF RejectArguments, Prepared, budgetVars, Admissions, Stages, Shapes
  <2>6. OnlyRepeatedIdsViolate'
    BY <1>10, <1>s, CallsFinite DEF RejectArguments, Prepared, budgetVars, OnlyRepeatedIdsViolate, Idle, Stages
  <2> QED BY <1>s, <2>1, <2>2, <2>3, <2>4, <2>5, <2>6
<1>11. ASSUME NEW c \in Calls, BlockToolCall(c)
      PROVE Inv'
  <2>1. Modes' /\ Idle'
    BY <1>11, <1>s, CallsFinite DEF BlockToolCall, Prepared, budgetVars, Modes, Idle
  <2>2. Turns'
    BY <1>11, <1>s, CallsFinite DEF BlockToolCall, Prepared, budgetVars, Turns, Shapes, Idle, Modes
  <2>3. Attempts'
    <3>1. Cardinality(queue') \in Nat /\ Cardinality(queue') <= Cardinality(queue)
      BY <1>11, FS_EmptySet, CallsFinite DEF BlockToolCall, Prepared, Shapes
    <3> QED BY <1>11, <3>1, CallsFinite DEF BlockToolCall, Attempts, Shapes, AttemptLimit,
               budgetVars
  <2>4. Stages'
    BY <1>11, <1>s, CallsFinite DEF BlockToolCall, Prepared, budgetVars, Stages, Shapes, Idle
  <2>5. Admissions'
    BY <1>11, <1>s, CallsFinite DEF BlockToolCall, Prepared, budgetVars, Admissions, Stages, Shapes
  <2>6. OnlyRepeatedIdsViolate'
    BY <1>11, <1>s, CallsFinite DEF BlockToolCall, Prepared, budgetVars, OnlyRepeatedIdsViolate, Idle, Stages
  <2> QED BY <1>s, <2>1, <2>2, <2>3, <2>4, <2>5, <2>6
<1>12. ASSUME NEW c \in Calls, AdmitToolCall(c)
      PROVE Inv'
  <2>a. c \in attemptIds /\ c \notin admittedIds /\ ~aborted
    BY <1>12 DEF AdmitToolCall, MustBlock, Stages
  <2>b. violations' = violations
    BY <1>12, <2>a DEF AdmitToolCall, Flag
  <2>1. Modes' /\ Idle'
    BY <1>12, <2>a, <2>b DEF AdmitToolCall, Prepared, Modes, Idle
  <2>2. Turns'
    BY <1>12, <1>s, CallsFinite DEF AdmitToolCall, Prepared, MustBlock, Flag, Turns, Shapes, Idle, Modes
  <2>3. Attempts'
    BY <1>12, <1>s, CallsFinite DEF AdmitToolCall, Prepared, MustBlock, Flag, Attempts, Shapes, Idle, AttemptLimit
  <2>4. Stages'
    BY <1>12, <1>s, CallsFinite DEF AdmitToolCall, Prepared, MustBlock, Flag, Stages, Shapes, Idle
  <2>5. Admissions'
    <3>1. Cardinality(admittedIds') = Cardinality(admittedIds) + 1
      BY <1>12, <2>a, Grows DEF AdmitToolCall, Shapes
    <3>2. Cardinality(admittedIds) \in Nat /\ ~(Cardinality(admittedIds) >= AdmissionLimit)
      BY <1>12, CallsFinite DEF AdmitToolCall, MustBlock, Shapes
    <3> QED BY <1>12, <3>1, <3>2 DEF AdmitToolCall, Admissions, Shapes
  <2>6. OnlyRepeatedIdsViolate'
    BY <1>12, <1>s, CallsFinite DEF AdmitToolCall, Prepared, MustBlock, Flag, OnlyRepeatedIdsViolate, Idle, Stages
  <2> QED BY <1>s, <2>1, <2>2, <2>3, <2>4, <2>5, <2>6
<1>13. ASSUME NEW c \in Calls, PassUnbudgeted(c)
      PROVE Inv'
  <2>1. Modes' /\ Idle'
    BY <1>13, <1>s, CallsFinite DEF PassUnbudgeted, Prepared, budgetVars, Modes, Idle
  <2>2. Turns'
    BY <1>13, <1>s, CallsFinite DEF PassUnbudgeted, Prepared, budgetVars, Turns, Shapes, Idle, Modes
  <2>3. Attempts'
    BY <1>13, <1>s, CallsFinite DEF PassUnbudgeted, Prepared, budgetVars, Attempts, Shapes, Idle, AttemptLimit
  <2>4. Stages'
    BY <1>13, <1>s, CallsFinite DEF PassUnbudgeted, Prepared, budgetVars, Stages, Shapes, Idle
  <2>5. Admissions'
    BY <1>13, <1>s, CallsFinite DEF PassUnbudgeted, Prepared, budgetVars, Admissions, Stages, Shapes
  <2>6. OnlyRepeatedIdsViolate'
    BY <1>13, <1>s, CallsFinite DEF PassUnbudgeted, Prepared, budgetVars, OnlyRepeatedIdsViolate, Idle, Stages
  <2> QED BY <1>s, <2>1, <2>2, <2>3, <2>4, <2>5, <2>6
<1>14. ASSUME NEW c \in Calls, ToolResult(c)
      PROVE Inv'
  <2>a. violations' = violations
    BY <1>14 DEF ToolResult, Flag, Stages
  <2>1. Modes' /\ Idle'
    BY <1>14, <2>a DEF ToolResult, Modes, Idle
  <2>2. Turns'
    BY <1>14, <1>s, CallsFinite DEF ToolResult, Flag, Turns, Shapes, Idle, Modes
  <2>3. Attempts'
    BY <1>14, <1>s, CallsFinite DEF ToolResult, Flag, Attempts, Shapes, Idle, AttemptLimit
  <2>4. Stages'
    BY <1>14, <1>s, CallsFinite DEF ToolResult, Flag, Stages, Shapes, Idle
  <2>5. Admissions'
    BY <1>14, <1>s, CallsFinite DEF ToolResult, Flag, Admissions, Stages, Shapes
  <2>6. OnlyRepeatedIdsViolate'
    BY <1>14, <1>s, CallsFinite DEF ToolResult, Flag, OnlyRepeatedIdsViolate, Idle, Stages
  <2> QED BY <1>s, <2>1, <2>2, <2>3, <2>4, <2>5, <2>6
<1>15. CASE UNCHANGED vars
  BY <1>15, <1>s DEF vars, budgetVars, piVars, Modes, Idle, Turns, Attempts,
     Stages, Admissions, OnlyRepeatedIdsViolate
<1> QED BY <1>s, <1>1, <1>2, <1>3, <1>4, <1>5, <1>6, <1>7, <1>8, <1>9, <1>10, <1>11, <1>12, <1>13, <1>14, <1>15 DEF Next

-----------------------------------------------------------------------------
\* The inductive invariant of the extension, for every limit and every batch.
THEOREM Invariance == Spec => []IInv
  BY InitInv, Step, PTL DEF Spec

\* Every counter of the receipt stays within its limit (newState, the hooks).
THEOREM TypeCorrect == Spec => []TypeOK
<1>1. IInv => TypeOK
  <2> SUFFICES ASSUME IInv PROVE TypeOK
    OBVIOUS
  <2>1. admissions \in 0 .. TurnLimit /\ attempts \in 0 .. AttemptLimit
    BY BudgetAssumption DEF IInv, Shapes, Turns, Attempts, AttemptLimit
  <2> QED BY <2>1 DEF IInv, Shapes, Modes, Turns, Entries, TypeOK
<1> QED BY <1>1, Invariance, PTL

\* Pi never receives more responses than the turn limit nor runs more budgeted
\* calls than the admission limit, and it runs no id twice.
THEOREM SpendingStaysCapped == Spec => []SpendingCapped
<1>1. IInv => SpendingCapped
  BY BudgetAssumption DEF IInv, Shapes, Turns, Admissions, SpendingCapped
<1> QED BY <1>1, Invariance, PTL

\* The invariant violations the extension looks for cannot happen, but for an id
\* that the model repeats.
THEOREM SelfChecksHold == Spec => []OnlyRepeatedIdsViolate
<1>1. IInv => OnlyRepeatedIdsViolate
  BY DEF IInv
<1> QED BY <1>1, Invariance, PTL

\* Once a hook has called ctx.abort, nothing more is admitted.
THEOREM AbortStopsSpending == Spec => AbortIsFinal
<1> DEFINE Quiet == aborted => aborted' /\ UNCHANGED <<admissions, admittedIds, granted>>
<1>1. IInv /\ [Next]_vars => [Quiet]_vars
  <2> SUFFICES ASSUME IInv, Next, aborted
               PROVE  aborted' /\ UNCHANGED <<admissions, admittedIds, granted>>
    BY DEF vars
  <2>1. pc \notin {"gate", "provider"}
    BY DEF IInv, Idle
  <2> QED BY <2>1 DEF Next, SessionStart, BlockProviderRequest, AdmitProviderRequest,
       FinalMessage, BatchMessage, OverlongMessage, ToolExecutionStart,
       RejectArguments, BlockToolCall, AdmitToolCall, PassUnbudgeted, MustBlock,
       ToolResult, EndBatch, EmitReceipt, Timeout, budgetVars
<1> QED BY <1>1, Invariance, PTL DEF Spec, AbortIsFinal

-----------------------------------------------------------------------------
(* The receipt.                                                            *)

Pending == IF current = NoCall THEN {} ELSE {current}

\* Every attempt is due, running or in the trace, once.
Trail ==
  /\ Len(trace) + Cardinality(running) + Cardinality(Pending) = attempts
  /\ IdsOf(trace) \cup running \cup Pending = attemptIds
  /\ violations = {} => Cardinality(attemptIds) = attempts
  /\ admissions = 0 => attempts = 0 /\ pc \in {"gate", "killed"}

\* What one more ended call adds to the trace.
LEMMA AppendIds ==
  ASSUME NEW t \in Seq(Entries), NEW e \in Entries
  PROVE  /\ IdsOf(Append(t, e)) = IdsOf(t) \cup {e.id}
         /\ Len(Append(t, e)) = Len(t) + 1 /\ Len(t) \in Nat
<1>1. /\ Len(t) \in Nat /\ DOMAIN t = 1 .. Len(t)
      /\ Len(Append(t, e)) = Len(t) + 1
      /\ DOMAIN Append(t, e) = 1 .. Len(t) + 1
      /\ \A i \in 1 .. Len(t) : Append(t, e)[i] = t[i]
      /\ Append(t, e)[Len(t) + 1] = e
  OBVIOUS
<1>2. 1 .. Len(t) + 1 = (1 .. Len(t)) \cup {Len(t) + 1}
  BY <1>1
<1> QED BY <1>1, <1>2 DEF IdsOf

\* No attempt is due before the first message.
LEMMA TrailInit == Init => Trail
  BY FS_EmptySet DEF Init, Trail, Pending, IdsOf

\* Every hook accounts for every attempt exactly once.
LEMMA TrailStep == IInv /\ Trail /\ [Next]_vars => Trail'
<1> SUFFICES ASSUME IInv, Trail, [Next]_vars PROVE Trail'
  OBVIOUS
<1>s. Shapes'
  BY ShapesStep DEF IInv
<1>p. /\ Cardinality(Pending) = IF current = NoCall THEN 0 ELSE 1
      /\ Cardinality(Pending') = IF current' = NoCall THEN 0 ELSE 1
      /\ Cardinality(running) \in Nat /\ Len(trace) \in Nat
  <2>1. \A x : Cardinality({x}) = 1
    BY FS_Singleton
  <2>2. Cardinality({}) = 0
    BY FS_EmptySet
  <2>3. Cardinality(running) \in Nat
    BY CallsFinite DEF IInv, Shapes
  <2>4. Len(trace) \in Nat
    BY DEF IInv, Shapes
  <2> QED BY <2>1, <2>2, <2>3, <2>4 DEF Pending
<1> USE BudgetAssumption
<1>1. CASE SessionStart("reload") \/ EndBatch \/ EmitReceipt \/ Timeout
  BY <1>1 DEF SessionStart, EndBatch, EmitReceipt, Timeout, budgetVars, Trail, Pending
<1>2. CASE BlockProviderRequest
  <2>1. admissions # 0
    BY <1>2 DEF BlockProviderRequest, Exhausted, IInv, Idle, Turns, Shapes, Trail,
       AttemptLimit
  <2>2. violations = {}
    BY <1>2 DEF BlockProviderRequest, IInv, Idle
  <2> QED BY <1>2, <2>1, <2>2 DEF BlockProviderRequest, Trail, Pending
<1>3. CASE AdmitProviderRequest \/ FinalMessage
  <2>1. admissions' # 0
    BY <1>3, <1>s DEF AdmitProviderRequest, FinalMessage, budgetVars, IInv, Shapes,
       Trail
  <2> QED BY <1>3, <2>1 DEF AdmitProviderRequest, FinalMessage, budgetVars, Trail,
       Pending
<1>4. ASSUME NEW batch \in SUBSET Calls, BatchMessage(batch) PROVE Trail'
  BY <1>4 DEF BatchMessage, budgetVars, Trail, Pending, IInv, Shapes, Turns
<1>5. ASSUME NEW batch \in SUBSET Calls, NEW c \in batch, OverlongMessage(batch, c)
      PROVE  Trail'
  BY <1>5 DEF OverlongMessage, Flag, Trail, Pending, IInv, Idle, Shapes, Turns
<1>6. ASSUME NEW c \in Calls, ToolExecutionStart(c) PROVE Trail'
  <2>1. /\ attempts' = attempts + 1 /\ current = NoCall /\ current' = c
        /\ c # NoCall /\ UNCHANGED <<running, trace, admissions, pc>>
    BY <1>6 DEF ToolExecutionStart
  <2>2. Cardinality(queue) >= 1
    <3>1. Cardinality(queue \ {c}) = Cardinality(queue) - 1
      BY <1>6, Shrinks DEF ToolExecutionStart, IInv, Shapes
    <3>2. Cardinality(queue \ {c}) \in Nat /\ Cardinality(queue) \in Nat
      BY CallsFinite DEF IInv, Shapes
    <3> QED BY <3>1, <3>2
  <2>3. ~(attempts' > AttemptLimit)
    BY <1>6, <2>1, <2>2, CallsFinite
    DEF ToolExecutionStart, IInv, Attempts, Shapes, AttemptLimit
  <2>4. /\ violations' = violations \cup Flag(c \in attemptIds, "duplicate_attempt")
        /\ attemptIds' = attemptIds \cup {c}
    BY <1>6, <2>3 DEF ToolExecutionStart
  <2>5. violations' = {} =>
          /\ violations = {}
          /\ Cardinality(attemptIds') = Cardinality(attemptIds) + 1
    BY <2>4, Grows DEF Flag, IInv, Shapes
  <2>6. admissions # 0
    BY <1>6 DEF ToolExecutionStart, Trail
  <2>7. IdsOf(trace') \cup running' \cup Pending' = attemptIds'
    BY <2>1, <2>4 DEF Trail, Pending
  <2> QED BY <1>p, <2>1, <2>5, <2>6, <2>7 DEF Trail, IInv, Shapes
<1>7. ASSUME NEW c \in Calls, RejectArguments(c) \/ BlockToolCall(c) PROVE Trail'
  <2>1. PICK e \in Entries : e.id = c /\ trace' = Append(trace, e)
    BY <1>7 DEF RejectArguments, BlockToolCall, Prepared, Entries
  <2>2. /\ current = c /\ c # NoCall /\ current' = NoCall
        /\ UNCHANGED <<running, attempts, attemptIds, violations, admissions, pc>>
    BY <1>7 DEF RejectArguments, BlockToolCall, Prepared, budgetVars
  <2>3. IdsOf(trace') = IdsOf(trace) \cup {c} /\ Len(trace') = Len(trace) + 1
    BY <2>1, AppendIds DEF IInv, Shapes
  <2>4. IdsOf(trace') \cup running' \cup Pending' = attemptIds'
    BY <2>2, <2>3 DEF Trail, Pending
  <2> QED BY <1>p, <2>2, <2>3, <2>4 DEF Trail, IInv, Shapes
<1>8. ASSUME NEW c \in Calls, AdmitToolCall(c) \/ PassUnbudgeted(c) PROVE Trail'
  <2>1. /\ current = c /\ c # NoCall /\ current' = NoCall /\ ~aborted
        /\ running' = running \cup {c}
        /\ UNCHANGED <<trace, attempts, attemptIds, admissions, pc>>
    BY <1>8 DEF AdmitToolCall, PassUnbudgeted, MustBlock, Prepared, budgetVars
  <2>2. Cardinality(running') = Cardinality(running) + 1
    BY <2>1, Grows DEF IInv, Stages, Shapes
  <2>3. violations = {}
    BY <2>1 DEF IInv, Idle
  <2>4. IdsOf(trace') \cup running' \cup Pending' = attemptIds'
    BY <2>1 DEF Trail, Pending
  <2> QED BY <1>p, <2>1, <2>2, <2>3, <2>4 DEF Trail, IInv, Shapes
<1>9. ASSUME NEW c \in Calls, ToolResult(c) PROVE Trail'
  <2>1. PICK e \in Entries : e.id = c /\ trace' = Append(trace, e)
    BY <1>9 DEF ToolResult, Entries
  <2>2. /\ c \in running /\ running' = running \ {c}
        /\ UNCHANGED <<current, attempts, attemptIds, admissions, pc>>
    BY <1>9 DEF ToolResult
  <2>3. violations' = violations
    BY <1>9 DEF ToolResult, Flag, IInv, Stages
  <2>4. IdsOf(trace') = IdsOf(trace) \cup {c} /\ Len(trace') = Len(trace) + 1
    BY <2>1, AppendIds DEF IInv, Shapes
  <2>5. Cardinality(running') = Cardinality(running) - 1
    BY <2>2, Shrinks DEF IInv, Shapes
  <2>6. IdsOf(trace') \cup running' \cup Pending' = attemptIds'
    BY <2>2, <2>4 DEF Trail, Pending
  <2> QED BY <1>p, <2>2, <2>3, <2>4, <2>5, <2>6 DEF Trail, IInv, Shapes
<1>10. CASE UNCHANGED vars
  BY <1>10 DEF vars, budgetVars, piVars, Trail, Pending
<1> QED BY <1>1, <1>2, <1>3, <1>4, <1>5, <1>6, <1>7, <1>8, <1>9, <1>10 DEF Next

\* A settled receipt passes the accounting checks of _budget_receipt_errors when
\* no id was repeated, in whatever order the calls of a batch end.
THEOREM ReceiptIsSound == Spec => []ReceiptSound
<1>1. IInv /\ Trail => ReceiptSound
  <2> SUFFICES ASSUME IInv, Trail, pc = "settled", FreshIds PROVE ReceiptReconciles
    BY DEF ReceiptSound
  <2>1. running = {} /\ Pending = {}
    BY DEF IInv, Idle, Pending
  <2>2. Len(trace) = attempts /\ IdsOf(trace) = attemptIds
    BY <2>1, FS_EmptySet DEF Trail, IInv, Shapes
  <2>3. 1 <= admissions /\ Cardinality(admittedIds) <= AdmissionLimit
    BY DEF Trail, IInv, Shapes, Admissions
  <2> QED BY <2>2, <2>3 DEF ReceiptReconciles, FreshIds, Trail, IInv, Turns,
       Attempts, Stages
<1> QED BY <1>1, TrailInit, TrailStep, Invariance, PTL DEF Spec

-----------------------------------------------------------------------------
(* The attempt as the harness sees it.                                     *)

BlockedIn(t) == {i \in DOMAIN t : t[i].how = "blocked"}

\* Every message with calls starts one of them at least, and those that run at
\* the same time are of one message.
Pace ==
  /\ pc \in {"gate", "provider"} => turns <= attempts
  /\ pc = "tools" =>
       /\ turns + Cardinality(running) + Cardinality(Pending) <= attempts + 1
       /\ turns <= attempts \/ queue # {}
  /\ pc # "killed" => admissions = turns + (IF pc = "provider" THEN 1 ELSE 0)

\* A session aborted over its admission limit, without a repeated id or a
\* suppressed call, has one blocked call, the last to end unless others ran.
Blocking ==
  violations = {} /\ suppressedIds = {} /\ pc # "killed" =>
    /\ ~aborted \/ blocks = 1 => BlockedIn(trace) = {}
    /\ aborted /\ blocks = 0 =>
         /\ queue = {} /\ current = NoCall
         /\ Cardinality(admittedIds) = AdmissionLimit
         /\ \/ turns < attempts
            \/ running = {} /\ trace # <<>> /\ BlockedIn(trace) = {Len(trace)}

\* One more ended call is blocked or not.
LEMMA AppendBlocked ==
  ASSUME NEW t \in Seq(Entries), NEW e \in Entries
  PROVE  /\ BlockedIn(Append(t, e))
              = BlockedIn(t) \cup (IF e.how = "blocked" THEN {Len(t) + 1} ELSE {})
         /\ Len(Append(t, e)) = Len(t) + 1 /\ Append(t, e) # <<>>
<1>1. /\ Len(t) \in Nat /\ DOMAIN t = 1 .. Len(t)
      /\ Len(Append(t, e)) = Len(t) + 1
      /\ DOMAIN Append(t, e) = 1 .. Len(t) + 1
      /\ \A i \in 1 .. Len(t) : Append(t, e)[i] = t[i]
      /\ Append(t, e)[Len(t) + 1] = e
  OBVIOUS
<1>2. 1 .. Len(t) + 1 = (1 .. Len(t)) \cup {Len(t) + 1}
  BY <1>1
<1>3. BlockedIn(Append(t, e))
        = BlockedIn(t) \cup (IF e.how = "blocked" THEN {Len(t) + 1} ELSE {})
  BY <1>1, <1>2 DEF BlockedIn
<1> QED BY <1>1, <1>3

\* How many calls are due.
LEMMA PendingCount ==
  Cardinality(Pending) = IF current = NoCall THEN 0 ELSE 1
BY FS_EmptySet, FS_Singleton DEF Pending

\* The gate, the messages and the calls keep pace with the provider's turns.
LEMMA PaceStep ==
  ASSUME IInv, Trail, Pace, [Next]_vars
  PROVE  Pace'
<1>p. /\ Cardinality(Pending) = IF current = NoCall THEN 0 ELSE 1
      /\ Cardinality(Pending') = IF current' = NoCall THEN 0 ELSE 1
      /\ Cardinality(running) \in Nat
  BY CallsFinite, FS_EmptySet, FS_Singleton DEF Pending, IInv, Shapes
<1>n. /\ turns \in Nat /\ attempts \in Nat /\ admissions \in Nat
  BY DEF IInv, Shapes
<1> USE BudgetAssumption DEF Pace
<1>1. CASE SessionStart("reload") \/ EmitReceipt \/ Timeout \/ UNCHANGED vars
  BY <1>1 DEF SessionStart, EmitReceipt, Timeout, budgetVars, piVars, vars, Pending
<1>2. CASE BlockProviderRequest \/ AdmitProviderRequest \/ FinalMessage
  BY <1>2, <1>n DEF BlockProviderRequest, AdmitProviderRequest, FinalMessage, budgetVars
<1>3. CASE EndBatch
  BY <1>3 DEF EndBatch, budgetVars
<1>4. ASSUME NEW batch \in SUBSET Calls,
             BatchMessage(batch) \/ \E c \in batch : OverlongMessage(batch, c)
      PROVE  Pace'
  <2>1. /\ pc = "provider" /\ pc' = "tools" /\ queue' # {} /\ turns' = turns + 1
        /\ UNCHANGED <<attempts, admissions, running, current>>
    BY <1>4 DEF BatchMessage, OverlongMessage, budgetVars
  <2>2. running = {} /\ current = NoCall
    BY <2>1 DEF IInv, Idle
  <2>3. Cardinality(running') = 0
    BY <2>1, <2>2, FS_EmptySet
  <2> QED BY <1>p, <1>n, <2>1, <2>2, <2>3
<1>5. ASSUME NEW c \in Calls, ToolExecutionStart(c) PROVE Pace'
  BY <1>5, <1>p, <1>n DEF ToolExecutionStart
<1>6. ASSUME NEW c \in Calls, RejectArguments(c) \/ BlockToolCall(c) PROVE Pace'
  <2>1. /\ pc = "tools" /\ current = c /\ c # NoCall /\ current' = NoCall
        /\ UNCHANGED <<running, turns, attempts, admissions, pc>>
    BY <1>6 DEF RejectArguments, BlockToolCall, Prepared, budgetVars
  <2> QED BY <1>p, <1>n, <2>1
<1>7. ASSUME NEW c \in Calls, AdmitToolCall(c) \/ PassUnbudgeted(c) PROVE Pace'
  <2>1. /\ pc = "tools" /\ current = c /\ c # NoCall /\ current' = NoCall /\ ~aborted
        /\ running' = running \cup {c}
        /\ UNCHANGED <<turns, attempts, admissions, pc>>
    BY <1>7 DEF AdmitToolCall, PassUnbudgeted, MustBlock, Prepared, budgetVars
  <2>2. Cardinality(running') = Cardinality(running) + 1
    BY <2>1, Grows DEF IInv, Stages, Shapes
  <2> QED BY <1>p, <1>n, <2>1, <2>2
<1>8. ASSUME NEW c \in Calls, ToolResult(c) PROVE Pace'
  <2>1. /\ pc = "tools" /\ c \in running /\ running' = running \ {c}
        /\ UNCHANGED <<current, turns, attempts, admissions, pc>>
    BY <1>8 DEF ToolResult
  <2>2. Cardinality(running') = Cardinality(running) - 1
    BY <2>1, Shrinks DEF IInv, Shapes
  <2>3. Cardinality(running') \in Nat
    BY <2>1, CallsFinite DEF IInv, Shapes
  <2> QED BY <1>p, <1>n, <2>1, <2>2, <2>3
<1> QED BY <1>1, <1>2, <1>3, <1>4, <1>5, <1>6, <1>7, <1>8 DEF Next

\* The abort over the admission limit ends the session.
LEMMA BlockingStep ==
  ASSUME IInv, Trail, Pace, Blocking, [Next]_vars
  PROVE  Blocking'
<1> SUFFICES ASSUME violations' = {}, suppressedIds' = {}, pc' # "killed"
             PROVE  /\ ~aborted' \/ blocks' = 1 => BlockedIn(trace') = {}
                    /\ aborted' /\ blocks' = 0 =>
                         /\ queue' = {} /\ current' = NoCall
                         /\ Cardinality(admittedIds') = AdmissionLimit
                         /\ \/ turns' < attempts'
                            \/ /\ running' = {} /\ trace' # <<>>
                               /\ BlockedIn(trace') = {Len(trace')}
  BY DEF Blocking
<1>n. /\ turns \in Nat /\ attempts \in Nat /\ admissions \in Nat
      /\ trace \in Seq(Entries)
      /\ Cardinality(running) \in Nat
      /\ Cardinality(admittedIds) \in Nat /\ Cardinality(admittedIds) <= AdmissionLimit
      /\ pc = "tools" => blocks = 0
  BY CallsFinite DEF IInv, Shapes, Admissions, Turns
<1> USE BudgetAssumption DEF Blocking
<1>1. CASE SessionStart("reload") \/ EmitReceipt \/ Timeout \/ EndBatch \/ UNCHANGED vars
  BY <1>1 DEF SessionStart, EmitReceipt, Timeout, EndBatch, budgetVars, piVars, vars
<1>2. CASE BlockProviderRequest
  <2>1. /\ pc = "gate" /\ blocks' = blocks + 1 /\ UNCHANGED <<suppressedIds, trace>>
        /\ violations = {}
    BY <1>2 DEF BlockProviderRequest
  <2>2. ~aborted /\ blocks = 0
    BY <2>1 DEF IInv, Idle, Turns
  <2> QED BY <2>1, <2>2
<1>3. CASE AdmitProviderRequest \/ FinalMessage
  BY <1>3 DEF AdmitProviderRequest, FinalMessage, budgetVars, IInv, Idle
<1>4. ASSUME NEW batch \in SUBSET Calls, BatchMessage(batch)
      PROVE  ~aborted' /\ BlockedIn(trace') = {}
  BY <1>4 DEF BatchMessage, budgetVars, IInv, Idle
<1>5. ASSUME NEW batch \in SUBSET Calls, NEW c \in batch, OverlongMessage(batch, c)
      PROVE  FALSE
  <2>1. Cardinality(batch) > 1
    <3>1. Remaining >= 1
      BY <1>5, <1>n DEF OverlongMessage, Remaining, IInv, Attempts, AttemptLimit
    <3>2. Remaining \in Nat /\ Cardinality(batch) \in Nat
      BY <1>n, CallsFinite DEF Remaining, AttemptLimit
    <3> QED BY <1>5, <3>1, <3>2 DEF OverlongMessage
  <2>2. Cardinality(batch) = 1
    <3>1. batch \ {c} = {}
      BY <1>5 DEF OverlongMessage
    <3>2. batch = {c}
      BY <3>1
    <3> QED BY <3>2, FS_Singleton
  <2> QED BY <2>1, <2>2
<1>6. ASSUME NEW c \in Calls, ToolExecutionStart(c)
      PROVE  ~aborted' /\ BlockedIn(trace') = {}
  <2>1. /\ violations = {} /\ suppressedIds = {} /\ pc = "tools" /\ queue # {}
        /\ UNCHANGED trace /\ aborted' = aborted
    BY <1>6 DEF ToolExecutionStart, Flag, IInv, Modes
  <2> QED BY <1>n, <2>1
<1>7. ASSUME NEW c \in Calls, RejectArguments(c)
      PROVE  ~aborted' /\ BlockedIn(trace') = {}
  <2>1. /\ violations = {} /\ suppressedIds = {} /\ pc = "tools" /\ current # NoCall
        /\ aborted' = aborted
        /\ trace' = Append(trace, [id |-> c, how |-> "rejected"])
    BY <1>7 DEF RejectArguments, Prepared, budgetVars
  <2>2. ~aborted /\ BlockedIn(trace) = {}
    BY <1>n, <2>1
  <2>3. [id |-> c, how |-> "rejected"] \in Entries
    BY DEF Entries
  <2> QED BY <1>n, <2>1, <2>2, <2>3, AppendBlocked
<1>8. ASSUME NEW c \in Calls, BlockToolCall(c)
      PROVE  /\ aborted' /\ blocks' = 0 /\ queue' = {} /\ current' = NoCall
             /\ Cardinality(admittedIds') = AdmissionLimit
             /\ \/ turns' < attempts'
                \/ running' = {} /\ trace' # <<>> /\ BlockedIn(trace') = {Len(trace')}
  <2>1. /\ violations = {} /\ suppressedIds = {} /\ pc = "tools" /\ current = c
        /\ c # NoCall /\ aborted' /\ queue' = {} /\ current' = NoCall
        /\ trace' = Append(trace, [id |-> c, how |-> "blocked"])
        /\ UNCHANGED <<running, blocks, turns, attempts, admittedIds>>
    BY <1>8 DEF BlockToolCall, Prepared, budgetVars
  <2>2. ~aborted /\ blocks = 0 /\ BlockedIn(trace) = {}
    BY <1>n, <2>1
  <2>3. Cardinality(admittedIds) = AdmissionLimit
    BY <1>8, <1>n, <2>2 DEF BlockToolCall, MustBlock
  <2>4. [id |-> c, how |-> "blocked"] \in Entries
    BY DEF Entries
  <2>5. BlockedIn(trace') = {Len(trace')} /\ trace' # <<>>
    BY <1>n, <2>1, <2>2, <2>4, AppendBlocked
  <2>6. running # {} => turns < attempts
    <3>1. turns + Cardinality(running) + Cardinality(Pending) <= attempts + 1
      BY <2>1 DEF Pace
    <3>2. Cardinality(Pending) = 1
      BY <2>1, PendingCount
    <3>3. running # {} => Cardinality(running) # 0
      BY CallsFinite, FS_EmptySet DEF IInv, Shapes
    <3> QED BY <1>n, <3>1, <3>2, <3>3
  <2> QED BY <2>1, <2>2, <2>3, <2>5, <2>6
<1>9. ASSUME NEW c \in Calls, AdmitToolCall(c) \/ PassUnbudgeted(c)
      PROVE  ~aborted' /\ BlockedIn(trace') = {}
  <2>1. /\ suppressedIds = {} /\ pc = "tools" /\ ~aborted /\ aborted' = aborted
        /\ UNCHANGED trace
    BY <1>9 DEF AdmitToolCall, PassUnbudgeted, MustBlock, Prepared, budgetVars
  <2>2. violations = {}
    BY <2>1 DEF IInv, Idle
  <2> QED BY <2>1, <2>2
<1>10. ASSUME NEW c \in Calls, ToolResult(c)
       PROVE  Blocking'
  <2>1. /\ violations = {} /\ suppressedIds = {} /\ pc = "tools" /\ running # {}
        /\ UNCHANGED <<aborted, blocks, queue, current, admittedIds, turns, attempts>>
        /\ trace' = Append(trace, [id |-> c, how |-> "ran"])
    BY <1>10 DEF ToolResult
  <2>2. [id |-> c, how |-> "ran"] \in Entries
    BY DEF Entries
  <2>3. BlockedIn(trace') = BlockedIn(trace)
    BY <1>n, <2>1, <2>2, AppendBlocked
  <2> QED BY <1>n, <2>1, <2>3
<1> QED BY <1>1, <1>2, <1>3, <1>4, <1>5, <1>6, <1>7, <1>8, <1>9, <1>10 DEF Next

\* A session that makes its calls one by one passes the budget checks of the
\* harness: the accounting, the blocked attempt, the turns
\* (_budget_receipt_errors, _attempt_structural_errors).
THEOREM SerialAttemptIsAccepted == Spec => []SettledAttemptAccepted
<1>1. ASSUME Init PROVE Pace /\ Blocking
  BY <1>1 DEF Init, Pace, Blocking, BlockedIn
<1>2. ASSUME IInv, Trail, Pace, Blocking, ReceiptSound
      PROVE  SettledAttemptAccepted
  <2> SUFFICES ASSUME pc = "settled", FreshIds, Serial
               PROVE  /\ ReceiptReconciles /\ BlockedIsTerminal
                      /\ ProviderTurnCount = admissions
    BY DEF SettledAttemptAccepted
  <2>1. ReceiptReconciles
    BY <1>2 DEF ReceiptSound
  <2>2. /\ turns \in Nat /\ attempts \in Nat /\ blocks \in {0, 1} /\ aborted \in BOOLEAN
        /\ trace \in Seq(Entries)
    BY <1>2 DEF IInv, Shapes, Turns, Modes
  <2>3. ~(turns < attempts)
    BY <2>1, <2>2 DEF ReceiptReconciles, Serial
  <2>4. /\ ~aborted \/ blocks = 1 => BlockedIn(trace) = {}
        /\ aborted /\ blocks = 0 =>
             /\ Cardinality(admittedIds) = AdmissionLimit
             /\ trace # <<>> /\ BlockedIn(trace) = {Len(trace)}
    BY <1>2, <2>3 DEF Blocking, FreshIds, Serial
  <2>5. BlockedIsTerminal
    BY <2>2, <2>4 DEF BlockedIsTerminal, BlockedIn
  <2>6. aborted => SyntheticRecognised
    BY <2>2, <2>4 DEF SyntheticRecognised, BlockedIn
  <2>7. admissions = turns
    BY <1>2, <2>2 DEF Pace
  <2> QED BY <2>1, <2>2, <2>5, <2>6, <2>7 DEF ProviderTurnCount
<1> QED BY <1>1, <1>2, TrailInit, TrailStep, PaceStep, BlockingStep, ReceiptIsSound,
       Invariance, PTL DEF Spec
=============================================================================
