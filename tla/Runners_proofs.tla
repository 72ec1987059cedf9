--------------------------- MODULE Runners_proofs ---------------------------
(***************************************************************************)
(* Proofs about the two runners that write a ledger job by job: the cell   *)
(* loop (CellRun), for every number of cells, and the batch runner         *)
(* (Batch), for every list of jobs. The inductive invariants say what      *)
(* holds at each step of the loop; each property follows from one or two   *)
(* of their parts.                                                         *)
(***************************************************************************)
EXTENDS CellRun, Batch, SequenceTheorems, TLAPS

\* The steps of a cell, from its marker to its record.
CellPcs == {"poll_idle", "erase", "poll_cleared", "proxy", "generate",
            "running", "stop_proxy", "quiescence", "classify"}
TryPcs  == CellPcs \cup {"next", "unlink"}

AllCompleted == \A k \in DOMAIN ledger : Completed(ledger[k])

\* The ledger numbers its cells, and only its last record may have failed.
LedgerInv ==
  /\ Len(ledger) <= ExpectedCells
  /\ LedgerIsPrefix

\* Where the loop stands: how many records there are and whose marker exists.
PlaceInv ==
  /\ pc \in TryPcs => call = "try" /\ ~closed
  /\ pc \in CellPcs \cup {"next"} => Len(ledger) = cell - 1 /\ AllCompleted
  /\ pc \in CellPcs \cup {"unlink"} => cell \in Cells /\ active = cell
  /\ pc = "unlink" => Len(ledger) = cell
  /\ pc = "next" => active = NoCell

\* What has been kept of the cells so far.
HeldInv ==
  /\ \A k \in DOMAIN ledger :
       Completed(ledger[k]) => k \in slotReceipts \cap proxyOutputs \cap attempted
  /\ pc \in CellPcs \ {"poll_idle", "erase", "poll_cleared"} => cell \in slotReceipts
  /\ pc \in CellPcs \ {"poll_idle", "erase", "poll_cleared", "proxy"}
       => cell \in proxyOutputs
  /\ pc = "running" => cell \in attempted
  /\ pc \in {"stop_proxy", "quiescence", "classify"} /\ outcome = "attempt"
       => cell \in attempted

\* An attempt belongs to the loop's past or to its present cell; a contaminated
\* cell has none.
AttemptInv ==
  /\ AttemptTraced
  /\ pc \in TryPcs => \A c \in attempted : c <= cell
  /\ pc \in {"next", "poll_idle", "erase", "poll_cleared", "proxy", "generate"}
       => cell \notin attempted
  /\ pc \in {"stop_proxy", "quiescence", "classify"} /\ outcome = "contaminated"
       => cell \notin attempted

\* From the erase to the first request nothing is in the slot.
SlotInv ==
  /\ pc \in {"erase", "poll_cleared", "proxy", "generate"} => busy = NoCell
  /\ pc \in {"poll_cleared", "proxy", "generate"} => kv = {}
  /\ CleanSlot

ProxyInv ==
  /\ port \in alive \cup {NoCell}
  /\ pc \in {"generate", "running"} => port \in {NoCell, cell}
  /\ closed => tracked = {} /\ pc \in {"final", "release", "ended", "crashed"}
  /\ ProxiesOwned

\* A cell past its check of a service that has woken up since: none is added
\* after it.
NoiseInv ==
  /\ NoiseStopsRun
  /\ pc = "classify" /\ ~quiet => Len(ledger) <= noisyAt

Complete == /\ receipt /\ active = NoCell
            /\ Len(ledger) = ExpectedCells /\ AllCompleted

\* The end of a run that completed every cell.
EndInv ==
  /\ pc = "teardown" /\ call = "try" => Complete
  /\ pc = "final" => Complete /\ closed
  /\ pc = "release" => Complete /\ closed /\ (quiet \/ noisyAt = ExpectedCells + 1)
  /\ substrate => /\ pc = "ended" /\ Complete /\ closed
                  /\ quiet \/ noisyAt = ExpectedCells + 1

RunInv == /\ LedgerInv /\ PlaceInv /\ HeldInv /\ AttemptInv /\ SlotInv
          /\ ProxyInv /\ NoiseInv /\ EndInv

IInv == TypeOK /\ RunInv

USE CellAssumption DEF Cells, NoCell

\* The types of the loop and of the teardown.
LEMMA LoopType == ASSUME LoopOK, PlaceInv, [Next]_vars
                  PROVE  LoopOK'
<1> USE DEF LoopOK, Pcs, PlaceInv, TryPcs, CellPcs, loopVars, fileVars, keptVars, proxyVars,
            slotVars, tdVars, quietVars
<1>1. CASE WriteActiveMarker
  BY <1>1 DEF WriteActiveMarker, Step
<1>2. CASE PollIdle
  BY <1>2 DEF PollIdle, Step
<1>3. CASE EraseSlot
  BY <1>3 DEF EraseSlot, Step
<1>4. CASE PollCleared
  BY <1>4 DEF PollCleared, Step
<1>5. CASE StartCellProxy
  BY <1>5 DEF StartCellProxy, Step
<1>6. CASE GenerateTask
  BY <1>6 DEF GenerateTask, Step
<1>7. CASE EndAttempt
  BY <1>7 DEF EndAttempt, Step
<1>8. CASE StopCellProxy
  BY <1>8 DEF StopCellProxy, AfterFinally, Raise
<1>9. CASE CheckCellQuiescence
  BY <1>9 DEF CheckCellQuiescence, Raise
<1>10. CASE StopContaminated
  BY <1>10 DEF StopContaminated, Raise
<1>11. CASE AppendRecord
  BY <1>11 DEF AppendRecord, Step
<1>12. CASE UnlinkActive
  BY <1>12 DEF UnlinkActive, Raise
<1>13. CASE WriteCompletionReceipt
  BY <1>13 DEF WriteCompletionReceipt, Step
<1>14. CASE Teardown
  BY <1>14 DEF Teardown, StopProxies, RetryTeardown, Raise
<1>15. CASE RequireFinalQuiescence
  BY <1>15 DEF RequireFinalQuiescence, Step
<1>16. CASE WriteSubstrateReceipt
  BY <1>16 DEF WriteSubstrateReceipt, Step
<1>17. CASE Fail
  BY <1>17 DEF Fail, Raise
<1>18. CASE Request
  BY <1>18 DEF Request
<1>19. CASE FinishRequest
  BY <1>19 DEF FinishRequest
<1>20. CASE ServiceEvent
  BY <1>20 DEF ServiceEvent
<1>21. CASE Interrupt
  BY <1>21 DEF Interrupt, Raise
<1>22. CASE Crash
  BY <1>22 DEF Crash
<1>23. ASSUME NEW c \in Cells, ProxyExits(c) PROVE LoopOK'
  BY <1>23 DEF ProxyExits
<1>24. CASE UNCHANGED vars
  BY <1>24 DEF vars
<1> QED
  BY <1>1, <1>2, <1>3, <1>4, <1>5, <1>6, <1>7, <1>8, <1>9, <1>10, <1>11, <1>12,
     <1>13, <1>14, <1>15, <1>16, <1>17, <1>18, <1>19, <1>20, <1>21, <1>22, <1>23, <1>24
  DEF Next, Controller

\* The types of the files and of what is kept of the cells.
LEMMA FilesType == ASSUME LoopOK, FilesOK, PlaceInv, [Next]_vars
                   PROVE  FilesOK'
<1> USE DEF LoopOK, FilesOK, Record, PlaceInv, TryPcs, CellPcs, loopVars, fileVars, keptVars, proxyVars,
            slotVars, tdVars, quietVars
<1>1. CASE WriteActiveMarker
  BY <1>1 DEF WriteActiveMarker, Step
<1>2. CASE PollIdle
  BY <1>2 DEF PollIdle, Step
<1>3. CASE EraseSlot
  BY <1>3 DEF EraseSlot, Step
<1>4. CASE PollCleared
  BY <1>4 DEF PollCleared, Step
<1>5. CASE StartCellProxy
  BY <1>5 DEF StartCellProxy, Step
<1>6. CASE GenerateTask
  BY <1>6 DEF GenerateTask, Step
<1>7. CASE EndAttempt
  BY <1>7 DEF EndAttempt, Step
<1>8. CASE StopCellProxy
  BY <1>8 DEF StopCellProxy, AfterFinally, Raise
<1>9. CASE CheckCellQuiescence
  BY <1>9 DEF CheckCellQuiescence, Raise
<1>10. CASE StopContaminated
  BY <1>10 DEF StopContaminated, Raise
<1>11. CASE AppendRecord
  BY <1>11 DEF AppendRecord, Step
<1>12. CASE UnlinkActive
  BY <1>12 DEF UnlinkActive, Raise
<1>13. CASE WriteCompletionReceipt
  BY <1>13 DEF WriteCompletionReceipt, Step
<1>14. CASE Teardown
  BY <1>14 DEF Teardown, StopProxies, RetryTeardown, Raise
<1>15. CASE RequireFinalQuiescence
  BY <1>15 DEF RequireFinalQuiescence, Step
<1>16. CASE WriteSubstrateReceipt
  BY <1>16 DEF WriteSubstrateReceipt, Step
<1>17. CASE Fail
  BY <1>17 DEF Fail, Raise
<1>18. CASE Request
  BY <1>18 DEF Request
<1>19. CASE FinishRequest
  BY <1>19 DEF FinishRequest
<1>20. CASE ServiceEvent
  BY <1>20 DEF ServiceEvent
<1>21. CASE Interrupt
  BY <1>21 DEF Interrupt, Raise
<1>22. CASE Crash
  BY <1>22 DEF Crash
<1>23. ASSUME NEW c \in Cells, ProxyExits(c) PROVE FilesOK'
  BY <1>23 DEF ProxyExits
<1>24. CASE UNCHANGED vars
  BY <1>24 DEF vars
<1> QED
  BY <1>1, <1>2, <1>3, <1>4, <1>5, <1>6, <1>7, <1>8, <1>9, <1>10, <1>11, <1>12,
     <1>13, <1>14, <1>15, <1>16, <1>17, <1>18, <1>19, <1>20, <1>21, <1>22, <1>23, <1>24
  DEF Next, Controller

\* The types of the host; a note of noise fits, since the ledger does.
LEMMA HostType == ASSUME TypeOK, LedgerInv, PlaceInv, [Next]_vars
                  PROVE  HostOK'
<1> USE DEF TypeOK, LoopOK, FilesOK, HostOK, LedgerInv, PlaceInv, TryPcs, CellPcs, loopVars, fileVars, keptVars, proxyVars,
            slotVars, tdVars, quietVars
<1>1. CASE WriteActiveMarker
  BY <1>1 DEF WriteActiveMarker, Step
<1>2. CASE PollIdle
  BY <1>2 DEF PollIdle, Step
<1>3. CASE EraseSlot
  BY <1>3 DEF EraseSlot, Step
<1>4. CASE PollCleared
  BY <1>4 DEF PollCleared, Step
<1>5. CASE StartCellProxy
  BY <1>5 DEF StartCellProxy, Step
<1>6. CASE GenerateTask
  BY <1>6 DEF GenerateTask, Step
<1>7. CASE EndAttempt
  BY <1>7 DEF EndAttempt, Step
<1>8. CASE StopCellProxy
  BY <1>8 DEF StopCellProxy, AfterFinally, Raise
<1>9. CASE CheckCellQuiescence
  BY <1>9 DEF CheckCellQuiescence, Raise
<1>10. CASE StopContaminated
  BY <1>10 DEF StopContaminated, Raise
<1>11. CASE AppendRecord
  BY <1>11 DEF AppendRecord, Step
<1>12. CASE UnlinkActive
  BY <1>12 DEF UnlinkActive, Raise
<1>13. CASE WriteCompletionReceipt
  BY <1>13 DEF WriteCompletionReceipt, Step
<1>14. CASE Teardown
  BY <1>14 DEF Teardown, StopProxies, RetryTeardown, Raise
<1>15. CASE RequireFinalQuiescence
  BY <1>15 DEF RequireFinalQuiescence, Step
<1>16. CASE WriteSubstrateReceipt
  BY <1>16 DEF WriteSubstrateReceipt, Step
<1>17. CASE Fail
  BY <1>17 DEF Fail, Raise
<1>18. CASE Request
  BY <1>18 DEF Request
<1>19. CASE FinishRequest
  BY <1>19 DEF FinishRequest
<1>20. CASE ServiceEvent
  <2>1. Len(ledger) \in 0 .. ExpectedCells + 1
    OBVIOUS
  <2>2. noisyAt' \in 0 .. ExpectedCells + 1
    BY <1>20, <2>1 DEF ServiceEvent
  <2> QED BY <1>20, <2>2 DEF ServiceEvent
<1>21. CASE Interrupt
  BY <1>21 DEF Interrupt, Raise
<1>22. CASE Crash
  BY <1>22 DEF Crash
<1>23. ASSUME NEW c \in Cells, ProxyExits(c) PROVE HostOK'
  BY <1>23 DEF ProxyExits
<1>24. CASE UNCHANGED vars
  BY <1>24 DEF vars
<1> QED
  BY <1>1, <1>2, <1>3, <1>4, <1>5, <1>6, <1>7, <1>8, <1>9, <1>10, <1>11, <1>12,
     <1>13, <1>14, <1>15, <1>16, <1>17, <1>18, <1>19, <1>20, <1>21, <1>22, <1>23, <1>24
  DEF Next, Controller

\* Every step keeps the invariant, one case per action.
LEMMA RunStep == ASSUME IInv, [Next]_vars
                 PROVE  RunInv'
<1> USE DEF IInv, RunInv, TypeOK, LoopOK, FilesOK, HostOK, LedgerInv, LedgerIsPrefix, PlaceInv, HeldInv, AttemptInv,
            AttemptTraced, SlotInv, CleanSlot, ProxyInv, ProxiesOwned, NoiseInv,
            NoiseStopsRun, EndInv, Pcs, Record, TryPcs, CellPcs, AllCompleted,
            Recorded, Completed, Complete, loopVars, fileVars, keptVars, proxyVars,
            slotVars, tdVars, quietVars
<1>1. CASE WriteActiveMarker
  BY <1>1 DEF WriteActiveMarker, Step
<1>2. CASE PollIdle
  BY <1>2 DEF PollIdle, Step
<1>3. CASE EraseSlot
  BY <1>3 DEF EraseSlot, Step
<1>4. CASE PollCleared
  BY <1>4 DEF PollCleared, Step
<1>5. CASE StartCellProxy
  BY <1>5 DEF StartCellProxy, Step
<1>6. CASE GenerateTask
  <2>2. (LedgerInv /\ PlaceInv)'
    BY <1>6 DEF GenerateTask, Step
  <2>3. HeldInv'
    BY <1>6 DEF GenerateTask, Step
  <2>6. AttemptInv'
    <3>1. CASE attempted' = attempted \cup {cell} /\ pc' = "running"
      BY <1>6, <3>1 DEF GenerateTask, Step
    <3>2. CASE UNCHANGED attempted /\ pc' = "stop_proxy" /\ pc = "generate"
      BY <1>6, <3>2 DEF GenerateTask, Step
    <3> QED BY <1>6, <3>1, <3>2 DEF GenerateTask, Step
  <2>4. (SlotInv /\ ProxyInv)'
    BY <1>6 DEF GenerateTask, Step
  <2>5. (NoiseInv /\ EndInv)'
    BY <1>6 DEF GenerateTask, Step
  <2> QED BY <2>2, <2>3, <2>4, <2>5, <2>6 DEF RunInv
<1>7. CASE EndAttempt
  BY <1>7 DEF EndAttempt, Step
<1>8. CASE StopCellProxy
  <2>2. (LedgerInv /\ PlaceInv)'
    BY <1>8 DEF StopCellProxy, AfterFinally, Raise
  <2>3. (HeldInv /\ AttemptInv)'
    BY <1>8 DEF StopCellProxy, AfterFinally, Raise
  <2>4. (SlotInv /\ ProxyInv)'
    BY <1>8 DEF StopCellProxy, AfterFinally, Raise
  <2>5. (NoiseInv /\ EndInv)'
    BY <1>8 DEF StopCellProxy, AfterFinally, Raise
  <2> QED BY <2>2, <2>3, <2>4, <2>5 DEF RunInv
<1>9. CASE CheckCellQuiescence
  BY <1>9 DEF CheckCellQuiescence, Raise
<1>10. CASE StopContaminated
  BY <1>10 DEF StopContaminated, Raise
<1>11. CASE AppendRecord
  <2>2. (LedgerInv /\ PlaceInv)'
    BY <1>11 DEF AppendRecord, Step
  <2>1. PICK status \in {"completed", "infrastructure_invalid"} :
          /\ outcome = "attempt" \/ (outcome = "error" /\ status # "completed")
          /\ ledger' = Append(ledger, [cell |-> cell, status |-> status])
    BY <1>11 DEF AppendRecord
  <2>6. /\ pc = "classify" /\ pc' = "unlink" /\ cell' = cell
        /\ UNCHANGED <<slotReceipts, proxyOutputs, attempted, outcome, active>>
    BY <1>11 DEF AppendRecord, Step
  <2>7. /\ DOMAIN ledger' = DOMAIN ledger \cup {cell}
        /\ \A k \in DOMAIN ledger : k # cell /\ ledger'[k] = ledger[k]
        /\ ledger'[cell] = [cell |-> cell, status |-> status]
    BY <2>1, <2>6
  <2>8. HeldInv'
    BY <2>1, <2>6, <2>7
  <2>9. AttemptInv'
    <3>1. Recorded \subseteq Recorded'
      <4>1. \A k \in DOMAIN ledger : k \in DOMAIN ledger' /\ ledger'[k].cell = ledger[k].cell
        BY <2>7
      <4>2. \A c \in Recorded : \E k \in DOMAIN ledger : c = ledger[k].cell
        BY DEF Recorded
      <4>3. \A k \in DOMAIN ledger' : ledger'[k].cell \in Recorded'
        BY DEF Recorded
      <4> QED BY <4>1, <4>2, <4>3
    <3>2. AttemptTraced'
      BY <2>6, <3>1 DEF AttemptTraced
    <3> QED BY <2>6, <3>2
  <2>3. (HeldInv /\ AttemptInv)'
    BY <2>8, <2>9
  <2>4. (SlotInv /\ ProxyInv)'
    BY <1>11 DEF AppendRecord, Step
  <2>5. (NoiseInv /\ EndInv)'
    BY <1>11 DEF AppendRecord, Step
  <2> QED BY <2>2, <2>3, <2>4, <2>5 DEF RunInv
<1>12. CASE UnlinkActive
  <2>1. UNCHANGED <<ledger, slotVars, proxyVars, keptVars, attempted, quietVars,
                    substrate, receipt, interrupted>>
    BY <1>12 DEF UnlinkActive
  <2>2. CASE pc' = "next" /\ cell' = cell + 1 /\ UNCHANGED tdVars
    BY <1>12, <2>1, <2>2 DEF UnlinkActive
  <2>3. CASE Raise
    BY <1>12, <2>1, <2>3 DEF UnlinkActive, Raise
  <2> QED BY <1>12, <2>2, <2>3 DEF UnlinkActive
<1>13. CASE WriteCompletionReceipt
  BY <1>13 DEF WriteCompletionReceipt, Step
<1>14. CASE Teardown
  <2>2. (LedgerInv /\ PlaceInv)'
    BY <1>14 DEF Teardown, StopProxies, RetryTeardown, Raise
  <2>3. (HeldInv /\ AttemptInv)'
    BY <1>14 DEF Teardown, StopProxies, RetryTeardown, Raise
  <2>4. (SlotInv /\ ProxyInv)'
    BY <1>14 DEF Teardown, StopProxies, RetryTeardown, Raise
  <2>5. (NoiseInv /\ EndInv)'
    BY <1>14 DEF Teardown, StopProxies, RetryTeardown, Raise
  <2> QED BY <2>2, <2>3, <2>4, <2>5 DEF RunInv
<1>15. CASE RequireFinalQuiescence
  BY <1>15 DEF RequireFinalQuiescence, Step
<1>16. CASE WriteSubstrateReceipt
  BY <1>16 DEF WriteSubstrateReceipt, Step
<1>17. CASE Fail
  BY <1>17 DEF Fail, Raise
<1>18. CASE Request
  BY <1>18 DEF Request
<1>19. CASE FinishRequest
  BY <1>19 DEF FinishRequest
<1>20. CASE ServiceEvent
  <2>2. (LedgerInv /\ PlaceInv)'
    BY <1>20 DEF ServiceEvent
  <2>3. (HeldInv /\ AttemptInv)'
    BY <1>20 DEF ServiceEvent
  <2>4. (SlotInv /\ ProxyInv)'
    BY <1>20 DEF ServiceEvent
  <2>5. (NoiseInv /\ EndInv)'
    BY <1>20 DEF ServiceEvent
  <2> QED BY <2>2, <2>3, <2>4, <2>5 DEF RunInv
<1>21. ASSUME NEW c \in Cells, ProxyExits(c) PROVE RunInv'
  BY <1>21 DEF ProxyExits
<1>22. CASE Interrupt
  <2>2. (LedgerInv /\ PlaceInv)'
    BY <1>22 DEF Interrupt, Raise
  <2>3. (HeldInv /\ AttemptInv)'
    BY <1>22 DEF Interrupt, Raise
  <2>4. (SlotInv /\ ProxyInv)'
    BY <1>22 DEF Interrupt, Raise
  <2>5. (NoiseInv /\ EndInv)'
    BY <1>22 DEF Interrupt, Raise
  <2> QED BY <2>2, <2>3, <2>4, <2>5 DEF RunInv
<1>23. CASE Crash
  BY <1>23 DEF Crash
<1>24. CASE UNCHANGED vars
  BY <1>24 DEF vars
<1> QED
  BY <1>1, <1>2, <1>3, <1>4, <1>5, <1>6, <1>7, <1>8, <1>9, <1>10, <1>11, <1>12,
     <1>13, <1>14, <1>15, <1>16, <1>17, <1>18, <1>19, <1>20, <1>21, <1>22, <1>23,
     <1>24 DEF Next, Controller

\* The inductive invariant is kept.
LEMMA Inductive == IInv /\ [Next]_vars => IInv'
<1> SUFFICES ASSUME IInv, [Next]_vars PROVE IInv'
  OBVIOUS
<1>1. TypeOK /\ LoopOK /\ FilesOK /\ LedgerInv /\ PlaceInv
  BY DEF IInv, TypeOK, RunInv
<1> QED BY <1>1, LoopType, FilesType, HostType, RunStep DEF IInv, TypeOK

-----------------------------------------------------------------------------
(* The theorems.                                                           *)

\* The inductive invariant of the loop and of what follows it.
THEOREM Invariance == Spec => []IInv
<1>1. ASSUME Init PROVE TypeOK
  <2>1. ledger \in Seq(Record)
    BY <1>1 DEF Init
  <2>2. cell \in 1 .. ExpectedCells + 1 /\ noisyAt \in 0 .. ExpectedCells + 1
    BY <1>1 DEF Init
  <2> QED BY <1>1, <2>1, <2>2 DEF Init, TypeOK, LoopOK, FilesOK, HostOK, Pcs
<1>2. Init => /\ LedgerInv /\ PlaceInv /\ HeldInv /\ AttemptInv /\ SlotInv
              /\ ProxyInv /\ NoiseInv /\ EndInv
  BY DEF Init, LedgerInv, LedgerIsPrefix, PlaceInv, HeldInv, AttemptInv,
         AttemptTraced, SlotInv, CleanSlot, ProxyInv, ProxiesOwned, NoiseInv,
         NoiseStopsRun, EndInv, TryPcs, CellPcs, AllCompleted
<1>3. Init => IInv
  BY <1>1, <1>2 DEF IInv, RunInv
<1> QED BY <1>3, Inductive, PTL DEF Spec

\* Type correctness, for every number of cells.
THEOREM TypeCorrect == Spec => []TypeOK
<1>1. IInv => TypeOK
  BY DEF IInv, RunInv
<1> QED BY <1>1, Invariance, PTL

\* One record per cell, in manifest order, nothing after a failure.
THEOREM LedgerStaysPrefix == Spec => []LedgerIsPrefix
<1>1. IInv => LedgerIsPrefix
  BY DEF IInv, RunInv, LedgerInv
<1> QED BY <1>1, Invariance, PTL

\* No attempt is ever lost from both the ledger and the active marker.
THEOREM AttemptsAreTraced == Spec => []AttemptTraced
<1>1. IInv => AttemptTraced
  BY DEF IInv, RunInv, AttemptInv
<1> QED BY <1>1, Invariance, PTL

\* An attempt is alone in a slot that was empty when it began.
THEOREM SlotStaysClean == Spec => []CleanSlot
<1>1. IInv => CleanSlot
  BY DEF IInv, RunInv, SlotInv
<1> QED BY <1>1, Invariance, PTL

\* An attempt never talks through the proxy of another cell.
THEOREM ProxyIsOwn == Spec => []OwnProxy
<1>1. IInv => OwnProxy
  BY DEF IInv, RunInv, ProxyInv, OwnProxy
<1> QED BY <1>1, Invariance, PTL

\* Without an interrupt no live proxy is forgotten.
THEOREM ProxiesStayOwned == Spec => []ProxiesOwned
<1>1. IInv => ProxiesOwned
  BY DEF IInv, RunInv, ProxyInv
<1> QED BY <1>1, Invariance, PTL

\* Activity of the production service stops the ledger.
THEOREM NoiseEndsLedger == Spec => []NoiseStopsRun
<1>1. IInv => NoiseStopsRun
  BY DEF IInv, RunInv, NoiseInv
<1> QED BY <1>1, Invariance, PTL

\* A substrate receipt is written for a complete, quiet generation only.
THEOREM SubstrateIsSound == Spec => []SubstrateSound
<1>1. ASSUME IInv, substrate PROVE SubstrateSound
  <2>1. Complete /\ closed /\ (quiet \/ noisyAt = ExpectedCells + 1)
    BY <1>1 DEF IInv, RunInv, EndInv
  <2>2. DOMAIN ledger = Cells
    BY <1>1, <2>1 DEF Complete, IInv, TypeOK, FilesOK
  <2>3. \A k \in Cells : k \in slotReceipts \cap proxyOutputs \cap attempted
    BY <1>1, <2>1, <2>2 DEF IInv, RunInv, HeldInv, Complete, AllCompleted
  <2>4. slotReceipts = Cells /\ proxyOutputs = Cells /\ attempted = Cells
    BY <1>1, <2>3 DEF IInv, RunInv, TypeOK, LoopOK, FilesOK
  <2> QED BY <2>1, <2>4 DEF SubstrateSound, Complete, AllCompleted
<1>2. IInv => SubstrateSound
  BY <1>1 DEF SubstrateSound
<1> QED BY <1>2, Invariance, PTL

-----------------------------------------------------------------------------
(***************************************************************************)
(* The batch runner, for every list of families and seeds, every results   *)
(* file it may find and any number of invocations.                         *)
(***************************************************************************)
Arguments == [registry : Registries \cup {None}, version : Versions, resume : BOOLEAN]

\* Types, and that a torn line is whole again once it has spoiled a record.
Shapes ==
  /\ IsSequence(file) /\ OwnMode(file)
  /\ torn \in BOOLEAN
  /\ invocation \in Arguments
  /\ next \in Nat /\ next > 0
  /\ summary \in [completed : Nat, error : Nat, skipped : Nat]
  /\ torn => spoiled = {} /\ file # <<>>

\* The record at hand is of the current job and of the treatment at hand.
JobInv ==
  step = "append" =>
    /\ next \in DOMAIN Jobs /\ CurrentKey \notin doneKeys
    /\ \E status \in {"completed", "error"} :
         record = [key |-> CurrentKey, registry |-> invocation.registry,
                   version |-> invocation.version, status |-> status]

\* After the preflight, the file is of the treatment of the invocation.
AcceptInv ==
  step \in {"load", "loop", "append"} =>
    \A r \in CompletedRecords(file) : Accepts(invocation, r)

\* A resumed invocation knows the key of every completed record.
KnownInv ==
  step \in {"loop", "append"} /\ invocation.resume =>
    RecordedKeys(file) \subseteq doneKeys

\* Without an error, the keys the invocation knows are recorded or spoiled.
PassedInv ==
  step \in {"loop", "append", "ended"} /\ summary.error = 0 =>
    /\ \A n \in DOMAIN Jobs : n < next => KeyOf(invocation, Jobs[n]) \in doneKeys
    /\ doneKeys \subseteq RecordedKeys(file) \cup spoiled
    /\ step = "ended" => next > Len(Jobs)

BatchInv == Shapes /\ JobInv /\ AcceptInv /\ KnownInv /\ PassedInv

\* A line that is appended adds itself to the completed ones, if it is one.
LEMMA AppendingLine ==
  ASSUME NEW q, IsSequence(q), NEW x, NEW p, p = Append(q, x)
  PROVE  /\ IsSequence(p)
         /\ CompletedRecords(p) = CompletedRecords(q) \cup {y \in {x} : y.status = "completed"}
<1> DEFINE n == Len(q) + 1
<1> DEFINE S == {q[i] : i \in DOMAIN q} \cup {x}
<1>1. q \in Seq(S) /\ x \in S
  BY DEF IsSequence
<1>2. /\ DOMAIN p = DOMAIN q \cup {n} /\ n \notin DOMAIN q /\ p[n] = x
      /\ \A i \in DOMAIN q : p[i] = q[i]
      /\ p \in Seq(S)
  BY <1>1
<1>3. {p[i] : i \in DOMAIN p} = S
  BY <1>2
<1>4. IsSequence(p)
  BY <1>2, <1>3 DEF IsSequence
<1>5. CompletedRecords(p) = CompletedRecords(q) \cup {y \in {x} : y.status = "completed"}
  BY <1>2 DEF CompletedRecords
<1> QED BY <1>4, <1>5

\* A line that is spoiled is lost, and no other.
LEMMA SpoilingLine ==
  ASSUME NEW q, IsSequence(q), q # <<>>, NEW p, p = [q EXCEPT ![Len(q)] = Broken]
  PROVE  /\ IsSequence(p)
         /\ CompletedRecords(p) \subseteq CompletedRecords(q)
         /\ CompletedRecords(q) \ {q[Len(q)]} \subseteq CompletedRecords(p)
<1> DEFINE n == Len(q)
<1> DEFINE S == {q[i] : i \in DOMAIN q} \cup {Broken}
<1>1. q \in Seq(S) /\ n \in DOMAIN q
  BY DEF IsSequence
<1>2. /\ DOMAIN p = DOMAIN q /\ p[n] = Broken /\ Len(p) = n
      /\ \A i \in DOMAIN q : i # n => p[i] = q[i]
      /\ p \in Seq(S)
  BY <1>1
<1>3. p \in Seq({p[i] : i \in DOMAIN p})
  <2> DEFINE T == {p[i] : i \in DOMAIN p}
  <2>1. n \in Nat /\ DOMAIN p = 1 .. n /\ p = [i \in 1 .. n |-> p[i]]
    <3>1. n \in Nat /\ DOMAIN p = 1 .. n
      BY <1>1, <1>2
    <3> QED BY <3>1, Zenon
  <2>2. \A i \in 1 .. n : p[i] \in T
    BY <2>1
  <2> HIDE DEF n, T
  <2>3. p \in [1 .. n -> T]
    BY <2>1, <2>2
  <2>4. p \in Seq(T)
    BY <2>1, <2>3, SeqDef, Zenon
  <2> QED BY <2>4 DEF T
<1>4. IsSequence(p)
  BY <1>3 DEF IsSequence
<1>5. Broken.status # "completed"
  BY DEF Broken
<1>6. CompletedRecords(p) \subseteq CompletedRecords(q)
  BY <1>2, <1>5 DEF CompletedRecords
<1>7. CompletedRecords(q) \ {q[n]} \subseteq CompletedRecords(p)
  BY <1>2 DEF CompletedRecords
<1> QED BY <1>4, <1>6, <1>7

\* The jobs are numbered from one.
LEMMA JobsLength == DOMAIN Jobs = 1 .. Len(Jobs) /\ Len(Jobs) \in Nat
<1> DEFINE m == Len(Families) * Len(Seeds)
<1>1. m \in Nat
  BY BatchAssumption DEF WellFormed, IsSequence
<1>2. DOMAIN Jobs = 1 .. m
  BY DEF Jobs
<1> HIDE DEF m
<1>3. Len(Jobs) = m
  BY <1>1, <1>2
<1> QED BY <1>1, <1>2, <1>3

\* Whatever results file is found, the invariant of the batch holds of it.
LEMMA BatchInitInv == BatchInit => BatchInv
<1> SUFFICES ASSUME BatchInit PROVE BatchInv
  OBVIOUS
<1>1. PICK f \in OldFiles : file = f.lines /\ torn = f.torn
  BY DEF BatchInit
<1>2. IsSequence(file) /\ torn \in BOOLEAN /\ OwnMode(file) /\ (torn => file # <<>>)
  BY <1>1, BatchAssumption DEF WellFormed
<1>3. Shapes
  <2>1. invocation \in Arguments
    BY BatchAssumption DEF BatchInit, WellFormed, Arguments
  <2>2. summary \in [completed : Nat, error : Nat, skipped : Nat]
    BY DEF BatchInit, EmptySummary
  <2>3. spoiled = {}
    BY DEF BatchInit
  <2>4. next \in Nat /\ next > 0
    BY DEF BatchInit
  <2> QED BY <1>2, <2>1, <2>2, <2>3, <2>4, Zenon DEF Shapes
<1> QED BY <1>3 DEF BatchInit, BatchInv, JobInv, AcceptInv, KnownInv, PassedInv

\* No step of an invocation, an append into a torn line included, breaks it.
LEMMA BatchNextInv == BatchInv /\ [BatchNext]_batchVars => BatchInv'
<1> SUFFICES ASSUME BatchInv, [BatchNext]_batchVars PROVE BatchInv'
  OBVIOUS
<1> USE DEF BatchInv
<1>1. ASSUME NEW t \in Treatments, NEW resume \in BOOLEAN, Start(t, resume)
      PROVE  BatchInv'
  BY <1>1 DEF Start, Treatments, Arguments, Shapes, JobInv, AcceptInv, KnownInv, PassedInv
<1>2. CASE Preflight
  BY <1>2 DEF Preflight, Shapes, JobInv, AcceptInv, KnownInv, PassedInv
<1>3. CASE LoadDoneKeys
  <2>1. doneKeys' = RecordedKeys(file) \/ (doneKeys' = {} /\ ~invocation.resume)
    BY <1>3 DEF LoadDoneKeys
  <2>2. \A n \in DOMAIN Jobs : ~(n < 1)
    BY JobsLength
  <2> QED BY <1>3, <2>1, <2>2 DEF LoadDoneKeys, EmptySummary, Shapes, JobInv, AcceptInv,
                               KnownInv, PassedInv
<1>4. CASE Skip
  <2>1. Shapes'
    BY <1>4 DEF Skip, Shapes
  <2>2. PassedInv'
    <3>1. \A n \in DOMAIN Jobs : n < next' => n < next \/ n = next
      BY <1>4, JobsLength DEF Skip, Shapes
    <3> QED BY <1>4, <3>1 DEF Skip, Shapes, PassedInv, CurrentKey
  <2> QED BY <1>4, <2>1, <2>2 DEF Skip, JobInv, AcceptInv, KnownInv
<1>5. CASE RunJob
  BY <1>5 DEF RunJob, CurrentKey, Shapes, JobInv, AcceptInv, KnownInv, PassedInv
<1>6. CASE AppendResult
  <2>1. PICK status \in {"completed", "error"} :
          record = [key |-> CurrentKey, registry |-> invocation.registry,
                    version |-> invocation.version, status |-> status]
    BY <1>6 DEF AppendResult, JobInv
  <2>2. /\ next \in DOMAIN Jobs /\ CurrentKey \notin doneKeys
        /\ record.key = CurrentKey
        /\ CurrentKey = KeyOf(invocation, Jobs[next])
    BY <1>6, <2>1 DEF AppendResult, JobInv, CurrentKey
  <2>3. Accepts(invocation, record)
    BY <2>1 DEF Accepts
  <2>4. /\ IsSequence(file')
        /\ \/ /\ torn
              /\ CompletedRecords(file') \subseteq CompletedRecords(file)
              /\ CompletedRecords(file) \ {file[Len(file)]} \subseteq CompletedRecords(file')
           \/ /\ ~torn
              /\ CompletedRecords(file') =
                   CompletedRecords(file) \cup {y \in {record} : y.status = "completed"}
    BY <1>6, AppendingLine, SpoilingLine DEF AppendResult, Appended, Shapes
  <2>5. OwnMode(file')
    BY <2>1, <2>2, <2>4 DEF OwnMode, KeyOf, Shapes
  <2>6. Shapes'
    <3>1. summary' \in [completed : Nat, error : Nat, skipped : Nat]
      BY <1>6, <2>1 DEF AppendResult, Shapes
    <3>2. next' \in Nat /\ next' > 0 /\ UNCHANGED invocation
      BY <1>6 DEF AppendResult, Shapes
    <3>3. torn' = FALSE
      BY <1>6, Zenon DEF AppendResult
    <3>4. torn' \in BOOLEAN /\ ~torn'
      BY <3>3
    <3> QED BY <2>4, <2>5, <3>1, <3>2, <3>3, <3>4, Zenon DEF Shapes
  <2>7. AcceptInv'
    BY <1>6, <2>3, <2>4 DEF AppendResult, AcceptInv
  <2>8. /\ torn => RecordedKeys(file) \subseteq RecordedKeys(file') \cup {file[Len(file)].key}
        /\ ~torn => RecordedKeys(file) \subseteq RecordedKeys(file')
        /\ RecordedKeys(file') \subseteq RecordedKeys(file) \cup {record.key}
        /\ ~torn /\ status = "completed" => record.key \in RecordedKeys(file')
    BY <2>1, <2>4 DEF RecordedKeys
  <2>9. KnownInv'
    BY <1>6, <2>8 DEF AppendResult, KnownInv
  <2>10. PassedInv'
    <3> SUFFICES ASSUME summary'.error = 0 PROVE PassedInv'
      BY DEF PassedInv
    <3>1. status = "completed" /\ summary.error = 0
      BY <1>6, <2>1 DEF AppendResult, Shapes
    <3>2. \A n \in DOMAIN Jobs : n < next' => KeyOf(invocation, Jobs[n]) \in doneKeys'
      <4>1. \A n \in DOMAIN Jobs : n < next' => n < next \/ n = next
        BY <1>6, JobsLength DEF AppendResult, Shapes
      <4> QED BY <1>6, <2>2, <3>1, <4>1 DEF AppendResult, PassedInv
    <3>3. CASE torn
      <4>1. /\ spoiled' = {record.key, file[Len(file)].key}
            /\ doneKeys' = doneKeys \cup {record.key}
        BY <1>6, <3>3 DEF AppendResult
      <4>2. doneKeys \subseteq RecordedKeys(file)
        BY <1>6, <3>1, <3>3 DEF AppendResult, PassedInv, Shapes
      <4> QED BY <1>6, <2>8, <3>2, <3>3, <4>1, <4>2 DEF AppendResult, PassedInv
    <3>4. CASE ~torn
      BY <1>6, <2>2, <2>8, <3>1, <3>2, <3>4 DEF AppendResult, PassedInv, Shapes
    <3> QED BY <3>3, <3>4
  <2> QED BY <1>6, <2>6, <2>7, <2>9, <2>10 DEF AppendResult, JobInv
<1>7. CASE Return
  BY <1>7 DEF Return, Finished, Shapes, JobInv, AcceptInv, KnownInv, PassedInv
<1>8. CASE BatchCrash
  BY <1>8 DEF BatchCrash, Shapes, JobInv, AcceptInv, KnownInv, PassedInv
<1>9. CASE UNCHANGED batchVars
  BY <1>9 DEF batchVars, Shapes, JobInv, AcceptInv, KnownInv, PassedInv, CurrentKey
<1> QED BY <1>1, <1>2, <1>3, <1>4, <1>5, <1>6, <1>7, <1>8, <1>9 DEF BatchNext

\* The inductive invariant of the batch runner: what the running invocation
\* knows against what the results file says (run_batch).
THEOREM BatchInvariance == BatchSpec => []BatchInv
<1>1. BatchInit => BatchInv
  BY BatchInitInv
<1>2. BatchInv /\ [BatchNext]_batchVars => BatchInv'
  BY BatchNextInv
<1> QED BY <1>1, <1>2, PTL DEF BatchSpec

\* A job is only ever skipped for a record of the treatment the invocation runs,
\* whatever ran on the file before (default_preflight).
THEOREM OwnTreatment == BatchSpec => []SkipsOwnTreatment
<1>1. BatchInv => SkipsOwnTreatment
  <2> SUFFICES ASSUME BatchInv, step = "loop",
                      NEW r \in CompletedRecords(file), r.key = CurrentKey
               PROVE  /\ r.registry = invocation.registry
                      /\ r.registry = None =>
                           \/ r.version = invocation.version
                           \/ r.version = None /\ invocation.version = FirstVersion
    BY DEF SkipsOwnTreatment
  <2>1. Accepts(invocation, r)
    BY DEF BatchInv, AcceptInv
  <2>2. r.registry = None <=> invocation.registry = None
    BY DEF BatchInv, Shapes, OwnMode, CurrentKey, KeyOf
  <2> QED BY <2>1, <2>2 DEF Accepts
<1> QED BY <1>1, BatchInvariance, PTL

\* A batch that ends without an error has a completed record of every job, but
\* for the two that it wrote into one line, when the last line it found lacked its
\* newline (main, _append_result).
THEOREM ExitIsRecorded == BatchSpec => []ExitZeroMeansRecorded
<1>1. BatchInv => ExitZeroMeansRecorded
  <2> SUFFICES ASSUME BatchInv, step = "ended", summary.error = 0
               PROVE  ExitZeroMeansRecorded
    BY DEF ExitZeroMeansRecorded
  <2>1. \A n \in DOMAIN Jobs : KeyOf(invocation, Jobs[n]) \in doneKeys
    <3>1. \A n \in DOMAIN Jobs : n < next
      BY JobsLength DEF BatchInv, PassedInv, Shapes
    <3> QED BY <3>1 DEF BatchInv, PassedInv
  <2>2. doneKeys \subseteq {r.key : r \in CompletedRecords(file)} \cup spoiled
    BY DEF BatchInv, PassedInv, RecordedKeys
  <2> QED BY <2>1, <2>2 DEF ExitZeroMeansRecorded
<1> QED BY <1>1, BatchInvariance, PTL

\* A resumed invocation never runs a job that has a completed record, whatever
\* lines of the file do not parse (_load_done_keys, run_batch).
THEOREM NotRunTwice == BatchSpec => CompletedOnce
<1>1. BatchInv /\ [BatchNext]_batchVars =>
        [step = "loop" /\ step' = "append" /\ invocation.resume =>
           record'.key \notin {r.key : r \in CompletedRecords(file)}]_batchVars
  <2> SUFFICES ASSUME BatchInv, BatchNext, step = "loop", step' = "append", invocation.resume
               PROVE  record'.key \notin {r.key : r \in CompletedRecords(file)}
    OBVIOUS
  <2>1. RunJob
    BY DEF BatchNext, Start, Preflight, LoadDoneKeys, Skip, AppendResult, Return,
           BatchCrash
  <2>2. record'.key = CurrentKey /\ CurrentKey \notin doneKeys
    BY <2>1 DEF RunJob
  <2> QED BY <2>2 DEF BatchInv, KnownInv, RecordedKeys
<1> QED BY <1>1, BatchInvariance, PTL DEF BatchSpec, CompletedOnce
=============================================================================
