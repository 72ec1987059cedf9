---------------------------- MODULE StageB_proofs ----------------------------
(***************************************************************************)
(* Proofs about StageB, for every set of panels, blocks and revisions, any *)
(* number of arms and any bounds. The inductive invariant says where the   *)
(* session stands, what the host holds of the attempt it is at, and how    *)
(* the files of earlier sessions relate to the host. The last part bounds  *)
(* the length of a session.                                                *)
(***************************************************************************)
EXTENDS StageB, FiniteSetTheorems, TLAPS

Statuses == {"completed", "not_exportable", "infrastructure_invalid"}
Records == [schedule : Schedules, panel : Panels, status : Statuses,
            revision : Revisions]

\* The steps of a panel, from its marker to the removal of the marker.
PanelPcs == {"generate", "prepare", "pi", "record", "verify", "classify",
             "append", "unlink"}
\* The steps between panels.
BetweenPcs == {"panel", "receipt", "export", "export_receipt"}

ManifestOK ==
  /\ chronology \in Chronologies
  /\ revision \in Revisions

SessionOK ==
  /\ pc \in PanelPcs \cup BetweenPcs \cup {"idle", "preflight", "load"}
  /\ loaded \in Revisions \cup {NoRevision}
  /\ schedule \in Schedules
  /\ position \in Nat \ {0}
  /\ active \subseteq Blocks
  /\ triggers \in [Blocks -> Panels \cup {NoPanel}]
  /\ arm \in 1..Arms
  /\ pending \in Statuses \cup {"none"}

HostOK ==
  /\ remote \in [Attempts -> {"absent", "prepared", "executed", "verified"}]
  /\ runs \in [Attempts -> Nat]

FilesOK ==
  /\ ledger \in Seq(Records)
  /\ marker \in Keys \cup {NoKey}
  /\ preflight \in Revisions \cup {NoRevision}
  /\ safe \subseteq Attempts
  /\ adjudicated \subseteq Keys \cup {NoKey}

TypeOK == ManifestOK /\ SessionOK /\ HostOK /\ FilesOK

\* Where the session stands, and which panel its marker names.
PlaceInv ==
  /\ pc \in PanelPcs => ToRun /\ marker = Key
  /\ pc \in BetweenPcs => marker = NoKey
  /\ pc = "generate" => arm = 1
  /\ pc \in {"append", "unlink"} => pending # "none"
  /\ pc = "unlink" => Key \in Recorded

\* Every session after its preflight works under the revision of the file.
RevisionInv ==
  /\ pc # "idle" => loaded \in Revisions
  /\ pc \notin {"idle", "preflight"} => preflight = loaded
  /\ OneRevision

\* What the host holds tells how often Pi has run.
AttemptInv ==
  /\ \A a \in Attempts :
       /\ remote[a] = "absent" => runs[a] = 0
       /\ remote[a] \in {"executed", "verified"} => runs[a] = 1
       /\ runs[a] <= 1
  /\ pc = "pi" => remote[Attempt] = "prepared" /\ runs[Attempt] = 0
  /\ pc = "record" => remote[Attempt] = "prepared" /\ runs[Attempt] = 1
  /\ pc = "verify" => remote[Attempt] = "executed" /\ runs[Attempt] = 1

AttemptAt(s, p, n) == [schedule |-> s, panel |-> p, arm |-> n]
VerifiedUpTo(s, p, k) == \A n \in 1..k : remote[AttemptAt(s, p, n)] = "verified"

\* The arms of the panel at hand that are verified.
ProgressInv ==
  /\ pc \in {"prepare", "pi", "record", "verify"}
       => VerifiedUpTo(schedule, Panel, arm - 1)
  /\ \/ pc = "classify"
     \/ pc = "append" /\ pending # "infrastructure_invalid"
     => VerifiedUpTo(schedule, Panel, Arms)

\* A panel with a result in the ledger was verified in all its arms.
VerdictInv ==
  /\ \A i \in DOMAIN ledger : ledger[i].status # "infrastructure_invalid"
       => VerifiedUpTo(ledger[i].schedule, ledger[i].panel, Arms)
  /\ \A a \in safe : remote[a] = "verified"

RunInv == PlaceInv /\ RevisionInv /\ AttemptInv /\ ProgressInv /\ VerdictInv
          /\ UncertainMarked

IInv == TypeOK /\ RunInv

USE StageAssumption DEF Schedules, Statuses, PanelPcs, BetweenPcs

\* The panel at a position of a chronology, its key and its attempts.
LEMMA PlaceType ==
  ASSUME ManifestOK, SessionOK, ToRun
  PROVE  Panel \in Panels /\ Key \in Keys /\ Attempt \in Attempts
<1>1. chronology[schedule] \in [1..Cardinality(Panels) -> Panels]
  BY DEF ManifestOK, SessionOK, Chronologies, Orders
<1>2. Panel \in Panels
  BY <1>1 DEF ToRun, Panel
<1> QED
  BY <1>2 DEF SessionOK, Key, Attempt, Keys, Attempts

\* A session that ends leaves nothing of its memory behind.
LEMMA EndType ==
  ASSUME EndSession
  PROVE  SessionOK'
BY DEF EndSession, SessionOK, NoTriggers

\* A failed block is one whose trigger is a failed panel of its own.
LEMMA TriggersOfLedger ==
  ASSUME FilesOK
  PROVE  /\ LedgerTriggers \in [Blocks -> Panels \cup {NoPanel}]
         /\ Triggered(LedgerTriggers) = {b \in Blocks : Failed(b) # {}}
<1>1. \A b : Failed(b) # {} => Only(Failed(b)) \in Failed(b)
  BY DEF Only
<1>2. \A i \in DOMAIN ledger : ledger[i].panel \in Panels
  <2>1. \A i \in DOMAIN ledger : ledger[i] \in Records
    BY DEF FilesOK
  <2> QED
    BY <2>1 DEF Records
<1>3. \A b : Failed(b) \subseteq Panels
  BY <1>2 DEF Failed, Invalid
<1> QED
  BY <1>1, <1>3 DEF LedgerTriggers, Triggered

\* The types of the session.
LEMMA SessionType ==
  ASSUME ManifestOK, SessionOK, FilesOK, PlaceInv, [Next]_vars
  PROVE  SessionOK'
<1> USE DEF SessionOK, PlaceInv, manifest, host, files, memory, bounds, Goto,
            Fault, Replaceable, Proceed
<1>1. CASE StartSession
  BY <1>1 DEF StartSession, ManifestOK
<1>2. CASE CheckPreflight
  BY <1>2, EndType DEF CheckPreflight
<1>3. CASE LoadState
  BY <1>3, EndType, TriggersOfLedger DEF LoadState, Triggered
<1>4. CASE SkipPanel
  BY <1>4 DEF SkipPanel
<1>5. CASE StartPanel
  BY <1>5 DEF StartPanel
<1>6. CASE EndSchedule
  BY <1>6 DEF EndSchedule, Triggered
<1>7. CASE GenerateTask
  BY <1>7, EndType DEF GenerateTask
<1>8. CASE PrepareAttempt
  BY <1>8 DEF PrepareAttempt
<1>9. CASE RunPi
  BY <1>9 DEF RunPi
<1>10. CASE RecordEvents
  BY <1>10 DEF RecordEvents
<1>11. CASE VerifyAttempt
  BY <1>11, EndType DEF VerifyAttempt
<1>12. CASE ClassifyResult
  BY <1>12, EndType DEF ClassifyResult
<1>13. CASE AppendRecord
  BY <1>13 DEF AppendRecord
<1>14. CASE UnlinkMarker
  BY <1>14, EndType, PlaceType DEF UnlinkMarker
<1>15. CASE WriteReceipt
  BY <1>15, EndType DEF WriteReceipt
<1>16. CASE WriteExport
  BY <1>16, EndType DEF WriteExport
<1>17. CASE WriteExportReceipt
  BY <1>17, EndType DEF WriteExportReceipt
<1>18. CASE Crash
  BY <1>18, EndType DEF Crash
<1>19. CASE Adjudicate
  BY <1>19 DEF Adjudicate
<1>20. CASE ChangeRevision
  BY <1>20 DEF ChangeRevision
<1>21. CASE UNCHANGED vars
  BY <1>21 DEF vars
<1> QED
  BY <1>1, <1>2, <1>3, <1>4, <1>5, <1>6, <1>7, <1>8, <1>9, <1>10, <1>11,
     <1>12, <1>13, <1>14, <1>15, <1>16, <1>17, <1>18, <1>19, <1>20, <1>21
  DEF Next, Session

\* The types of the manifest.
LEMMA ManifestType ==
  ASSUME ManifestOK, [Next]_vars
  PROVE  ManifestOK'
<1> USE DEF ManifestOK, manifest, host, files, memory, bounds, Goto, Fault,
            Replaceable, Proceed
<1>1. CASE StartSession
  BY <1>1 DEF StartSession
<1>2. CASE CheckPreflight
  BY <1>2 DEF CheckPreflight
<1>3. CASE LoadState
  BY <1>3 DEF LoadState
<1>4. CASE SkipPanel
  BY <1>4 DEF SkipPanel
<1>5. CASE StartPanel
  BY <1>5 DEF StartPanel
<1>6. CASE EndSchedule
  BY <1>6 DEF EndSchedule
<1>7. CASE GenerateTask
  BY <1>7 DEF GenerateTask
<1>8. CASE PrepareAttempt
  BY <1>8 DEF PrepareAttempt
<1>9. CASE RunPi
  BY <1>9 DEF RunPi
<1>10. CASE RecordEvents
  BY <1>10 DEF RecordEvents
<1>11. CASE VerifyAttempt
  BY <1>11 DEF VerifyAttempt
<1>12. CASE ClassifyResult
  BY <1>12 DEF ClassifyResult
<1>13. CASE AppendRecord
  BY <1>13 DEF AppendRecord
<1>14. CASE UnlinkMarker
  BY <1>14 DEF UnlinkMarker
<1>15. CASE WriteReceipt
  BY <1>15 DEF WriteReceipt
<1>16. CASE WriteExport
  BY <1>16 DEF WriteExport
<1>17. CASE WriteExportReceipt
  BY <1>17 DEF WriteExportReceipt
<1>18. CASE Crash
  BY <1>18 DEF Crash
<1>19. CASE Adjudicate
  BY <1>19 DEF Adjudicate
<1>20. CASE ChangeRevision
  BY <1>20 DEF ChangeRevision
<1>21. CASE UNCHANGED vars
  BY <1>21 DEF vars
<1> QED
  BY <1>1, <1>2, <1>3, <1>4, <1>5, <1>6, <1>7, <1>8, <1>9, <1>10, <1>11,
     <1>12, <1>13, <1>14, <1>15, <1>16, <1>17, <1>18, <1>19, <1>20, <1>21
  DEF Next, Session

\* The types of the host.
LEMMA HostType ==
  ASSUME ManifestOK, SessionOK, HostOK, PlaceInv, [Next]_vars
  PROVE  HostOK'
<1> USE DEF HostOK, manifest, host, files, memory, bounds, Goto, Fault,
            Replaceable, Proceed
<1>1. CASE StartSession
  BY <1>1 DEF StartSession
<1>2. CASE CheckPreflight
  BY <1>2 DEF CheckPreflight
<1>3. CASE LoadState
  BY <1>3 DEF LoadState
<1>4. CASE SkipPanel
  BY <1>4 DEF SkipPanel
<1>5. CASE StartPanel
  BY <1>5 DEF StartPanel
<1>6. CASE EndSchedule
  BY <1>6 DEF EndSchedule
<1>7. CASE GenerateTask
  BY <1>7 DEF GenerateTask
<1>8. CASE PrepareAttempt
  BY <1>8 DEF PrepareAttempt
<1>9. CASE RunPi
  BY <1>9 DEF RunPi
<1>10. CASE RecordEvents
  BY <1>10 DEF RecordEvents
<1>11. CASE VerifyAttempt
  BY <1>11 DEF VerifyAttempt
<1>12. CASE ClassifyResult
  BY <1>12 DEF ClassifyResult
<1>13. CASE AppendRecord
  BY <1>13 DEF AppendRecord
<1>14. CASE UnlinkMarker
  BY <1>14 DEF UnlinkMarker
<1>15. CASE WriteReceipt
  BY <1>15 DEF WriteReceipt
<1>16. CASE WriteExport
  BY <1>16 DEF WriteExport
<1>17. CASE WriteExportReceipt
  BY <1>17 DEF WriteExportReceipt
<1>18. CASE Crash
  BY <1>18 DEF Crash
<1>19. CASE Adjudicate
  BY <1>19 DEF Adjudicate
<1>20. CASE ChangeRevision
  BY <1>20 DEF ChangeRevision
<1>21. CASE UNCHANGED vars
  BY <1>21 DEF vars
<1> QED
  BY <1>1, <1>2, <1>3, <1>4, <1>5, <1>6, <1>7, <1>8, <1>9, <1>10, <1>11,
     <1>12, <1>13, <1>14, <1>15, <1>16, <1>17, <1>18, <1>19, <1>20, <1>21
  DEF Next, Session

\* The types of the files.
LEMMA FilesType ==
  ASSUME ManifestOK, SessionOK, FilesOK, PlaceInv, RevisionInv, [Next]_vars
  PROVE  FilesOK'
<1> USE DEF FilesOK, manifest, host, files, memory, bounds, Goto, Fault,
            Replaceable, Proceed
<1>1. CASE StartSession
  BY <1>1 DEF StartSession
<1>2. CASE CheckPreflight
  BY <1>2 DEF CheckPreflight, RevisionInv
<1>3. CASE LoadState
  BY <1>3 DEF LoadState
<1>4. CASE SkipPanel
  BY <1>4 DEF SkipPanel
<1>5. CASE StartPanel
  BY <1>5, PlaceType DEF StartPanel
<1>6. CASE EndSchedule
  BY <1>6 DEF EndSchedule
<1>7. CASE GenerateTask
  BY <1>7 DEF GenerateTask
<1>8. CASE PrepareAttempt
  BY <1>8 DEF PrepareAttempt
<1>9. CASE RunPi
  BY <1>9 DEF RunPi
<1>10. CASE RecordEvents
  BY <1>10 DEF RecordEvents
<1>11. CASE VerifyAttempt
  BY <1>11 DEF VerifyAttempt
<1>12. CASE ClassifyResult
  BY <1>12 DEF ClassifyResult
<1>13. CASE AppendRecord
  <2>1. Panel \in Panels
    BY <1>13, PlaceType DEF AppendRecord, PlaceInv
  <2>2. [schedule |-> schedule, panel |-> Panel, status |-> pending,
         revision |-> loaded] \in Records
    BY <1>13, <2>1 DEF AppendRecord, PlaceInv, RevisionInv, SessionOK, Records
  <2> QED
    BY <1>13, <2>2 DEF AppendRecord
<1>14. CASE UnlinkMarker
  BY <1>14 DEF UnlinkMarker
<1>15. CASE WriteReceipt
  BY <1>15 DEF WriteReceipt
<1>16. CASE WriteExport
  BY <1>16 DEF WriteExport, Selected
<1>17. CASE WriteExportReceipt
  BY <1>17 DEF WriteExportReceipt
<1>18. CASE Crash
  BY <1>18 DEF Crash
<1>19. CASE Adjudicate
  BY <1>19 DEF Adjudicate
<1>20. CASE ChangeRevision
  BY <1>20 DEF ChangeRevision
<1>21. CASE UNCHANGED vars
  BY <1>21 DEF vars
<1> QED
  BY <1>1, <1>2, <1>3, <1>4, <1>5, <1>6, <1>7, <1>8, <1>9, <1>10, <1>11,
     <1>12, <1>13, <1>14, <1>15, <1>16, <1>17, <1>18, <1>19, <1>20, <1>21
  DEF Next, Session

\* A record is appended after its panel, and none is ever taken back; Pi is
\* started by a panel only.
LEMMA LedgerStep ==
  ASSUME FilesOK, [Next]_vars
  PROVE  /\ \/ UNCHANGED ledger
            \/ /\ pc = "append"
               /\ ledger' = Append(ledger, [schedule |-> schedule, panel |-> Panel,
                                            status |-> pending, revision |-> loaded])
         /\ UNCHANGED runs \/ pc = "pi"
<1> USE DEF manifest, host, files, memory, bounds, Goto, Fault, Replaceable, Proceed
<1>1. CASE StartSession
  BY <1>1 DEF StartSession
<1>2. CASE CheckPreflight
  BY <1>2 DEF CheckPreflight
<1>3. CASE LoadState
  BY <1>3 DEF LoadState
<1>4. CASE SkipPanel
  BY <1>4 DEF SkipPanel
<1>5. CASE StartPanel
  BY <1>5 DEF StartPanel
<1>6. CASE EndSchedule
  BY <1>6 DEF EndSchedule
<1>7. CASE GenerateTask
  BY <1>7 DEF GenerateTask
<1>8. CASE PrepareAttempt
  BY <1>8 DEF PrepareAttempt
<1>9. CASE RunPi
  BY <1>9 DEF RunPi
<1>10. CASE RecordEvents
  BY <1>10 DEF RecordEvents
<1>11. CASE VerifyAttempt
  BY <1>11 DEF VerifyAttempt
<1>12. CASE ClassifyResult
  BY <1>12 DEF ClassifyResult
<1>13. CASE AppendRecord
  BY <1>13 DEF AppendRecord
<1>14. CASE UnlinkMarker
  BY <1>14 DEF UnlinkMarker
<1>15. CASE WriteReceipt
  BY <1>15 DEF WriteReceipt
<1>16. CASE WriteExport
  BY <1>16 DEF WriteExport
<1>17. CASE WriteExportReceipt
  BY <1>17 DEF WriteExportReceipt
<1>18. CASE Crash
  BY <1>18 DEF Crash
<1>19. CASE Adjudicate
  BY <1>19 DEF Adjudicate
<1>20. CASE ChangeRevision
  BY <1>20 DEF ChangeRevision
<1>21. CASE UNCHANGED vars
  BY <1>21 DEF vars
<1> QED
  BY <1>1, <1>2, <1>3, <1>4, <1>5, <1>6, <1>7, <1>8, <1>9, <1>10, <1>11,
     <1>12, <1>13, <1>14, <1>15, <1>16, <1>17, <1>18, <1>19, <1>20, <1>21
  DEF Next, Session

LEMMA RecordedGrows ==
  ASSUME FilesOK, [Next]_vars
  PROVE  Recorded \subseteq Recorded'
<1>1. CASE UNCHANGED ledger
  BY <1>1 DEF Recorded, KeyOf
<1>2. ASSUME NEW r, ledger' = Append(ledger, r)
      PROVE  Recorded \subseteq Recorded'
  BY <1>2 DEF Recorded, KeyOf, FilesOK
<1> QED
  BY <1>1, <1>2, LedgerStep

\* The host changes in the attempt at hand, and a verdict stays.
LEMMA HostStep ==
  ASSUME TypeOK, PlaceInv, AttemptInv, [Next]_vars
  PROVE  \A a \in Attempts :
           /\ remote[a] = "verified" => remote'[a] = "verified"
           /\ remote[a] = "absent" /\ remote'[a] # "absent"
                => pc = "prepare" /\ a = Attempt
<1> USE DEF manifest, host, files, memory, bounds, Goto, Fault, Replaceable,
            Proceed, TypeOK
<1>1. CASE StartSession
  BY <1>1 DEF StartSession
<1>2. CASE CheckPreflight
  BY <1>2 DEF CheckPreflight
<1>3. CASE LoadState
  BY <1>3 DEF LoadState
<1>4. CASE SkipPanel
  BY <1>4 DEF SkipPanel
<1>5. CASE StartPanel
  BY <1>5 DEF StartPanel
<1>6. CASE EndSchedule
  BY <1>6 DEF EndSchedule
<1>7. CASE GenerateTask
  BY <1>7 DEF GenerateTask
<1>8. CASE PrepareAttempt
  BY <1>8, PlaceType DEF PrepareAttempt, AttemptInv, HostOK, Exists, PlaceInv
<1>9. CASE RunPi
  BY <1>9, PlaceType DEF RunPi, AttemptInv, HostOK, Exists, PlaceInv
<1>10. CASE RecordEvents
  BY <1>10, PlaceType DEF RecordEvents, AttemptInv, HostOK, Exists, PlaceInv
<1>11. CASE VerifyAttempt
  BY <1>11, PlaceType DEF VerifyAttempt, AttemptInv, HostOK, Exists, PlaceInv
<1>12. CASE ClassifyResult
  BY <1>12 DEF ClassifyResult
<1>13. CASE AppendRecord
  BY <1>13 DEF AppendRecord
<1>14. CASE UnlinkMarker
  BY <1>14 DEF UnlinkMarker
<1>15. CASE WriteReceipt
  BY <1>15 DEF WriteReceipt
<1>16. CASE WriteExport
  BY <1>16 DEF WriteExport
<1>17. CASE WriteExportReceipt
  BY <1>17 DEF WriteExportReceipt
<1>18. CASE Crash
  BY <1>18 DEF Crash
<1>19. CASE Adjudicate
  BY <1>19 DEF Adjudicate
<1>20. CASE ChangeRevision
  BY <1>20 DEF ChangeRevision
<1>21. CASE UNCHANGED vars
  BY <1>21 DEF vars
<1> QED
  BY <1>1, <1>2, <1>3, <1>4, <1>5, <1>6, <1>7, <1>8, <1>9, <1>10, <1>11,
     <1>12, <1>13, <1>14, <1>15, <1>16, <1>17, <1>18, <1>19, <1>20, <1>21
  DEF Next, Session

\* A marker is written when none is there; it goes after its record, or when
\* it is adjudicated.
LEMMA MarkerStep ==
  ASSUME PlaceInv, [Next]_vars
  PROVE  \/ UNCHANGED marker
         \/ pc = "panel"
         \/ pc = "unlink"
         \/ marker \in adjudicated'
<1> USE DEF manifest, host, files, memory, bounds, Goto, Fault, Replaceable, Proceed
<1>1. CASE StartSession
  BY <1>1 DEF StartSession
<1>2. CASE CheckPreflight
  BY <1>2 DEF CheckPreflight
<1>3. CASE LoadState
  BY <1>3 DEF LoadState
<1>4. CASE SkipPanel
  BY <1>4 DEF SkipPanel
<1>5. CASE StartPanel
  BY <1>5 DEF StartPanel
<1>6. CASE EndSchedule
  BY <1>6 DEF EndSchedule
<1>7. CASE GenerateTask
  BY <1>7 DEF GenerateTask
<1>8. CASE PrepareAttempt
  BY <1>8 DEF PrepareAttempt
<1>9. CASE RunPi
  BY <1>9 DEF RunPi
<1>10. CASE RecordEvents
  BY <1>10 DEF RecordEvents
<1>11. CASE VerifyAttempt
  BY <1>11 DEF VerifyAttempt
<1>12. CASE ClassifyResult
  BY <1>12 DEF ClassifyResult
<1>13. CASE AppendRecord
  BY <1>13 DEF AppendRecord
<1>14. CASE UnlinkMarker
  BY <1>14 DEF UnlinkMarker
<1>15. CASE WriteReceipt
  BY <1>15 DEF WriteReceipt
<1>16. CASE WriteExport
  BY <1>16 DEF WriteExport
<1>17. CASE WriteExportReceipt
  BY <1>17 DEF WriteExportReceipt
<1>18. CASE Crash
  BY <1>18 DEF Crash
<1>19. CASE Adjudicate
  BY <1>19 DEF Adjudicate
<1>20. CASE ChangeRevision
  BY <1>20 DEF ChangeRevision
<1>21. CASE UNCHANGED vars
  BY <1>21 DEF vars
<1> QED
  BY <1>1, <1>2, <1>3, <1>4, <1>5, <1>6, <1>7, <1>8, <1>9, <1>10, <1>11,
     <1>12, <1>13, <1>14, <1>15, <1>16, <1>17, <1>18, <1>19, <1>20, <1>21
  DEF Next, Session

\* A session stays at the panel of its marker.
LEMMA PlaceKept ==
  ASSUME TypeOK, PlaceInv, [Next]_vars
  PROVE  PlaceInv'
<1> USE DEF PlaceInv, TypeOK, SessionOK, Key, Panel, ToRun, manifest, host, files,
            memory, bounds, Goto, Fault, Replaceable, Proceed, EndSession
<1>1. CASE StartSession
  BY <1>1 DEF StartSession
<1>2. CASE CheckPreflight
  BY <1>2 DEF CheckPreflight
<1>3. CASE LoadState
  BY <1>3 DEF LoadState
<1>4. CASE SkipPanel
  BY <1>4 DEF SkipPanel
<1>5. CASE StartPanel
  BY <1>5 DEF StartPanel
<1>6. CASE EndSchedule
  BY <1>6 DEF EndSchedule
<1>7. CASE GenerateTask
  BY <1>7 DEF GenerateTask
<1>8. CASE PrepareAttempt
  BY <1>8 DEF PrepareAttempt
<1>9. CASE RunPi
  BY <1>9 DEF RunPi
<1>10. CASE RecordEvents
  BY <1>10 DEF RecordEvents
<1>11. CASE VerifyAttempt
  BY <1>11 DEF VerifyAttempt
<1>12. CASE ClassifyResult
  BY <1>12 DEF ClassifyResult
<1>13. CASE AppendRecord
  <2>1. ledger'[Len(ledger) + 1]
          = [schedule |-> schedule, panel |-> Panel, status |-> pending,
             revision |-> loaded]
    BY <1>13 DEF AppendRecord, FilesOK
  <2>2. Len(ledger) + 1 \in DOMAIN ledger'
    BY <1>13 DEF AppendRecord, FilesOK
  <2>3. Key \in Recorded'
    BY <2>1, <2>2 DEF Recorded, KeyOf, Key
  <2> QED
    BY <1>13, <2>3 DEF AppendRecord
<1>14. CASE UnlinkMarker
  BY <1>14 DEF UnlinkMarker
<1>15. CASE WriteReceipt
  BY <1>15 DEF WriteReceipt
<1>16. CASE WriteExport
  BY <1>16 DEF WriteExport
<1>17. CASE WriteExportReceipt
  BY <1>17 DEF WriteExportReceipt
<1>18. CASE Crash
  BY <1>18 DEF Crash
<1>19. CASE Adjudicate
  BY <1>19 DEF Adjudicate
<1>20. CASE ChangeRevision
  BY <1>20 DEF ChangeRevision
<1>21. CASE UNCHANGED vars
  BY <1>21 DEF vars, Recorded, KeyOf
<1> QED
  BY <1>1, <1>2, <1>3, <1>4, <1>5, <1>6, <1>7, <1>8, <1>9, <1>10, <1>11,
     <1>12, <1>13, <1>14, <1>15, <1>16, <1>17, <1>18, <1>19, <1>20, <1>21
  DEF Next, Session

\* A session stays under its revision.
LEMMA RevisionKept ==
  ASSUME TypeOK, RevisionInv, [Next]_vars
  PROVE  RevisionInv'
<1> USE DEF RevisionInv, TypeOK, SessionOK, ManifestOK, FilesOK, OneRevision,
            manifest, host, files, memory, bounds, Goto, Fault, Replaceable,
            Proceed, EndSession
<1>1. CASE StartSession
  BY <1>1 DEF StartSession
<1>2. CASE CheckPreflight
  <2>1. ledger \in Seq(Records)
    OBVIOUS
  <2>2. \A i \in DOMAIN ledger : ledger[i] \in Records
    BY <2>1
  <2>3. \A i \in DOMAIN ledger : ledger[i].revision \in Revisions
    BY <2>2 DEF Records
  <2> QED
    BY <1>2, <2>3 DEF CheckPreflight
<1>3. CASE LoadState
  BY <1>3 DEF LoadState
<1>4. CASE SkipPanel
  BY <1>4 DEF SkipPanel
<1>5. CASE StartPanel
  BY <1>5 DEF StartPanel
<1>6. CASE EndSchedule
  BY <1>6 DEF EndSchedule
<1>7. CASE GenerateTask
  BY <1>7 DEF GenerateTask
<1>8. CASE PrepareAttempt
  BY <1>8 DEF PrepareAttempt
<1>9. CASE RunPi
  BY <1>9 DEF RunPi
<1>10. CASE RecordEvents
  BY <1>10 DEF RecordEvents
<1>11. CASE VerifyAttempt
  BY <1>11 DEF VerifyAttempt
<1>12. CASE ClassifyResult
  BY <1>12 DEF ClassifyResult
<1>13. CASE AppendRecord
  BY <1>13 DEF AppendRecord
<1>14. CASE UnlinkMarker
  BY <1>14 DEF UnlinkMarker
<1>15. CASE WriteReceipt
  BY <1>15 DEF WriteReceipt
<1>16. CASE WriteExport
  BY <1>16 DEF WriteExport
<1>17. CASE WriteExportReceipt
  BY <1>17 DEF WriteExportReceipt
<1>18. CASE Crash
  BY <1>18 DEF Crash
<1>19. CASE Adjudicate
  BY <1>19 DEF Adjudicate
<1>20. CASE ChangeRevision
  BY <1>20 DEF ChangeRevision
<1>21. CASE UNCHANGED vars
  BY <1>21 DEF vars
<1> QED
  BY <1>1, <1>2, <1>3, <1>4, <1>5, <1>6, <1>7, <1>8, <1>9, <1>10, <1>11,
     <1>12, <1>13, <1>14, <1>15, <1>16, <1>17, <1>18, <1>19, <1>20, <1>21
  DEF Next, Session

\* Only the attempt at hand runs, and it has not run before.
LEMMA AttemptKept ==
  ASSUME TypeOK, PlaceInv, AttemptInv, [Next]_vars
  PROVE  AttemptInv'
<1> USE DEF AttemptInv, Attempt, Panel, manifest, host, files, memory, bounds,
            Goto, Fault, Replaceable, Proceed, EndSession
<1>1. CASE StartSession
  BY <1>1 DEF StartSession
<1>2. CASE CheckPreflight
  BY <1>2 DEF CheckPreflight
<1>3. CASE LoadState
  BY <1>3 DEF LoadState
<1>4. CASE SkipPanel
  BY <1>4 DEF SkipPanel
<1>5. CASE StartPanel
  BY <1>5 DEF StartPanel
<1>6. CASE EndSchedule
  BY <1>6 DEF EndSchedule
<1>7. CASE GenerateTask
  BY <1>7 DEF GenerateTask
<1>8. CASE PrepareAttempt
  BY <1>8, PlaceType DEF PrepareAttempt, HostOK, Exists, PlaceInv, TypeOK, Attempt, Panel
<1>9. CASE RunPi
  BY <1>9, PlaceType DEF RunPi, HostOK, Exists, PlaceInv, TypeOK, Attempt, Panel
<1>10. CASE RecordEvents
  BY <1>10, PlaceType DEF RecordEvents, HostOK, Exists, PlaceInv, TypeOK, Attempt, Panel
<1>11. CASE VerifyAttempt
  BY <1>11, PlaceType DEF VerifyAttempt, HostOK, Exists, PlaceInv, TypeOK, Attempt, Panel
<1>12. CASE ClassifyResult
  BY <1>12 DEF ClassifyResult
<1>13. CASE AppendRecord
  BY <1>13 DEF AppendRecord
<1>14. CASE UnlinkMarker
  BY <1>14 DEF UnlinkMarker
<1>15. CASE WriteReceipt
  BY <1>15 DEF WriteReceipt
<1>16. CASE WriteExport
  BY <1>16 DEF WriteExport
<1>17. CASE WriteExportReceipt
  BY <1>17 DEF WriteExportReceipt
<1>18. CASE Crash
  BY <1>18 DEF Crash
<1>19. CASE Adjudicate
  BY <1>19 DEF Adjudicate
<1>20. CASE ChangeRevision
  BY <1>20 DEF ChangeRevision
<1>21. CASE UNCHANGED vars
  BY <1>21 DEF vars
<1> QED
  BY <1>1, <1>2, <1>3, <1>4, <1>5, <1>6, <1>7, <1>8, <1>9, <1>10, <1>11,
     <1>12, <1>13, <1>14, <1>15, <1>16, <1>17, <1>18, <1>19, <1>20, <1>21
  DEF Next, Session

\* A panel verified up to some arm stays so.
LEMMA VerifiedStays ==
  ASSUME TypeOK, PlaceInv, AttemptInv, [Next]_vars,
         NEW s \in Schedules, NEW p \in Panels, NEW k \in 0..Arms,
         VerifiedUpTo(s, p, k)
  PROVE  \A n \in 1..k : remote'[AttemptAt(s, p, n)] = "verified"
<1>1. \A n \in 1..k : AttemptAt(s, p, n) \in Attempts
  BY DEF Attempts, AttemptAt
<1> QED
  BY <1>1, HostStep DEF VerifiedUpTo

LEMMA ProgressStays ==
  ASSUME TypeOK, PlaceInv, AttemptInv, ProgressInv, [Next]_vars,
         pc \in {"prepare", "pi", "record", "verify"}
  PROVE  \A n \in 1..(arm - 1) : remote'[AttemptAt(schedule, Panel, n)] = "verified"
<1>1. Panel \in Panels /\ schedule \in Schedules /\ arm \in 1..Arms
  BY PlaceType DEF PlaceInv, TypeOK, SessionOK
<1> QED
  BY <1>1, HostStep DEF ProgressInv, VerifiedUpTo, AttemptAt, Attempts

\* The arms before the one at hand are verified, and all of them before a
\* result is recorded.
LEMMA ProgressKept ==
  ASSUME TypeOK, PlaceInv, AttemptInv, ProgressInv, [Next]_vars
  PROVE  ProgressInv'
<1> USE DEF ProgressInv, manifest, host, files, memory, bounds, Goto, Fault,
            Replaceable, Proceed, EndSession
<1>1. CASE StartSession
  BY <1>1 DEF StartSession, Panel, VerifiedUpTo
<1>2. CASE CheckPreflight
  BY <1>2 DEF CheckPreflight, Panel, VerifiedUpTo
<1>3. CASE LoadState
  BY <1>3 DEF LoadState, Panel, VerifiedUpTo
<1>4. CASE SkipPanel
  BY <1>4 DEF SkipPanel, Panel, VerifiedUpTo
<1>5. CASE StartPanel
  BY <1>5 DEF StartPanel, Panel, VerifiedUpTo
<1>6. CASE EndSchedule
  BY <1>6 DEF EndSchedule, Panel, VerifiedUpTo
<1>7. CASE GenerateTask
  BY <1>7 DEF GenerateTask, PlaceInv, VerifiedUpTo
<1>8. CASE PrepareAttempt
  <2>1. \A n \in 1..(arm - 1) : remote'[AttemptAt(schedule, Panel, n)] = "verified"
    BY <1>8, ProgressStays DEF PrepareAttempt
  <2> QED
    BY <1>8, <2>1 DEF PrepareAttempt, Panel, VerifiedUpTo
<1>9. CASE RunPi
  <2>1. \A n \in 1..(arm - 1) : remote'[AttemptAt(schedule, Panel, n)] = "verified"
    BY <1>9, ProgressStays DEF RunPi
  <2> QED
    BY <1>9, <2>1 DEF RunPi, Panel, VerifiedUpTo
<1>10. CASE RecordEvents
  <2>1. \A n \in 1..(arm - 1) : remote'[AttemptAt(schedule, Panel, n)] = "verified"
    BY <1>10, ProgressStays DEF RecordEvents
  <2> QED
    BY <1>10, <2>1 DEF RecordEvents, Panel, VerifiedUpTo
<1>11. CASE VerifyAttempt
  <2>1. \A n \in 1..(arm - 1) : remote'[AttemptAt(schedule, Panel, n)] = "verified"
    BY <1>11, ProgressStays DEF VerifyAttempt
  <2>2. SUFFICES ASSUME pc' # "idle", pc' # "append"
                PROVE  ProgressInv'
    BY <1>11 DEF VerifyAttempt
  <2>3. Attempt = AttemptAt(schedule, Panel, arm) /\ Attempt \in Attempts
    BY <1>11, PlaceType DEF VerifyAttempt, PlaceInv, TypeOK, Attempt, AttemptAt
  <2>4. remote'[Attempt] = "verified"
    BY <1>11, <2>2, <2>3 DEF VerifyAttempt, TypeOK, HostOK
  <2>5. \A n \in 1..arm : remote'[AttemptAt(schedule, Panel, n)] = "verified"
    BY <2>1, <2>3, <2>4 DEF TypeOK, SessionOK
  <2> QED
    BY <1>11, <2>2, <2>5 DEF VerifyAttempt, Panel, VerifiedUpTo, TypeOK, SessionOK
<1>12. CASE ClassifyResult
  BY <1>12 DEF ClassifyResult, Panel, VerifiedUpTo
<1>13. CASE AppendRecord
  BY <1>13 DEF AppendRecord, Panel, VerifiedUpTo
<1>14. CASE UnlinkMarker
  BY <1>14 DEF UnlinkMarker, Panel, VerifiedUpTo
<1>15. CASE WriteReceipt
  BY <1>15 DEF WriteReceipt, Panel, VerifiedUpTo
<1>16. CASE WriteExport
  BY <1>16 DEF WriteExport, Panel, VerifiedUpTo
<1>17. CASE WriteExportReceipt
  BY <1>17 DEF WriteExportReceipt, Panel, VerifiedUpTo
<1>18. CASE Crash
  BY <1>18 DEF Crash, Panel, VerifiedUpTo
<1>19. CASE Adjudicate
  BY <1>19 DEF Adjudicate, Panel, VerifiedUpTo
<1>20. CASE ChangeRevision
  BY <1>20 DEF ChangeRevision, Panel, VerifiedUpTo
<1>21. CASE UNCHANGED vars
  BY <1>21 DEF vars, Panel, VerifiedUpTo
<1> QED
  BY <1>1, <1>2, <1>3, <1>4, <1>5, <1>6, <1>7, <1>8, <1>9, <1>10, <1>11,
     <1>12, <1>13, <1>14, <1>15, <1>16, <1>17, <1>18, <1>19, <1>20, <1>21
  DEF Next, Session

\* The export is the only step that publishes attempts.
LEMMA SafeStep ==
  ASSUME [Next]_vars
  PROVE  UNCHANGED safe \/ (Exportable /\ safe' = Selected)
<1> USE DEF manifest, host, files, memory, bounds, Goto, Fault, Replaceable,
            Proceed, EndSession
<1>1. CASE StartSession
  BY <1>1 DEF StartSession
<1>2. CASE CheckPreflight
  BY <1>2 DEF CheckPreflight
<1>3. CASE LoadState
  BY <1>3 DEF LoadState
<1>4. CASE SkipPanel
  BY <1>4 DEF SkipPanel
<1>5. CASE StartPanel
  BY <1>5 DEF StartPanel
<1>6. CASE EndSchedule
  BY <1>6 DEF EndSchedule
<1>7. CASE GenerateTask
  BY <1>7 DEF GenerateTask
<1>8. CASE PrepareAttempt
  BY <1>8 DEF PrepareAttempt
<1>9. CASE RunPi
  BY <1>9 DEF RunPi
<1>10. CASE RecordEvents
  BY <1>10 DEF RecordEvents
<1>11. CASE VerifyAttempt
  BY <1>11 DEF VerifyAttempt
<1>12. CASE ClassifyResult
  BY <1>12 DEF ClassifyResult
<1>13. CASE AppendRecord
  BY <1>13 DEF AppendRecord
<1>14. CASE UnlinkMarker
  BY <1>14 DEF UnlinkMarker
<1>15. CASE WriteReceipt
  BY <1>15 DEF WriteReceipt
<1>16. CASE WriteExport
  BY <1>16 DEF WriteExport
<1>17. CASE WriteExportReceipt
  BY <1>17 DEF WriteExportReceipt
<1>18. CASE Crash
  BY <1>18 DEF Crash
<1>19. CASE Adjudicate
  BY <1>19 DEF Adjudicate
<1>20. CASE ChangeRevision
  BY <1>20 DEF ChangeRevision
<1>21. CASE UNCHANGED vars
  BY <1>21 DEF vars
<1> QED
  BY <1>1, <1>2, <1>3, <1>4, <1>5, <1>6, <1>7, <1>8, <1>9, <1>10, <1>11,
     <1>12, <1>13, <1>14, <1>15, <1>16, <1>17, <1>18, <1>19, <1>20, <1>21
  DEF Next, Session

\* A result in the ledger, or published, was verified in all its arms.
LEMMA VerdictKept ==
  ASSUME TypeOK, PlaceInv, AttemptInv, ProgressInv, VerdictInv, [Next]_vars
  PROVE  VerdictInv'
<1>1. \A i \in DOMAIN ledger : ledger[i] \in Records
  BY DEF TypeOK, FilesOK
<1>2. \A i \in DOMAIN ledger : ledger[i].status # "infrastructure_invalid"
        => \A n \in 1..Arms :
             remote'[AttemptAt(ledger[i].schedule, ledger[i].panel, n)] = "verified"
  <2> TAKE i \in DOMAIN ledger
  <2> HAVE ledger[i].status # "infrastructure_invalid"
  <2>1. ledger[i].schedule \in Schedules /\ ledger[i].panel \in Panels
    BY <1>1 DEF Records
  <2>2. VerifiedUpTo(ledger[i].schedule, ledger[i].panel, Arms)
    BY DEF VerdictInv
  <2> QED
    BY <2>1, <2>2, VerifiedStays
<1>3. \A i \in DOMAIN ledger' : ledger'[i].status # "infrastructure_invalid"
        => \A n \in 1..Arms :
             remote'[AttemptAt(ledger'[i].schedule, ledger'[i].panel, n)] = "verified"
  <2>1. CASE UNCHANGED ledger
    BY <2>1, <1>2 DEF VerifiedUpTo
  <2>2. CASE /\ pc = "append"
             /\ ledger' = Append(ledger, [schedule |-> schedule, panel |-> Panel,
                                          status |-> pending, revision |-> loaded])
    <3> SUFFICES ASSUME NEW i \in DOMAIN ledger',
                        ledger'[i].status # "infrastructure_invalid"
                 PROVE  \A n \in 1..Arms :
                          remote'[AttemptAt(ledger'[i].schedule, ledger'[i].panel, n)]
                            = "verified"
      OBVIOUS
    <3>1. CASE i \in DOMAIN ledger
      BY <3>1, <2>2, <1>2 DEF VerifiedUpTo, TypeOK, FilesOK
    <3>2. CASE i = Len(ledger) + 1
      <4>1. ledger'[i] = [schedule |-> schedule, panel |-> Panel,
                          status |-> pending, revision |-> loaded]
        BY <3>2, <2>2 DEF TypeOK, FilesOK
      <4>2. VerifiedUpTo(schedule, Panel, Arms)
        BY <4>1, <2>2 DEF ProgressInv
      <4>3. schedule \in Schedules /\ Panel \in Panels
        BY <2>2, PlaceType DEF TypeOK, SessionOK, PlaceInv
      <4>4. \A n \in 1..Arms : remote'[AttemptAt(schedule, Panel, n)] = "verified"
        BY <4>2, <4>3, HostStep DEF VerifiedUpTo, AttemptAt, Attempts
      <4> QED
        BY <4>1, <4>4
    <3> QED
      BY <3>1, <3>2, <2>2 DEF TypeOK, FilesOK
  <2> QED
    BY <2>1, <2>2, LedgerStep DEF TypeOK
<1>4. \A a \in safe' : remote'[a] = "verified"
  <2>1. CASE UNCHANGED safe
    BY <2>1, HostStep DEF VerdictInv, TypeOK, FilesOK
  <2>2. CASE Exportable /\ safe' = Selected
    <3> SUFFICES ASSUME NEW a \in Selected
                 PROVE  remote'[a] = "verified"
      BY <2>2
    <3>1. PICK i \in DOMAIN ledger :
            /\ KeyOf(ledger[i]) = [schedule |-> a.schedule, panel |-> a.panel]
            /\ ledger[i].status = "completed"
      BY <2>2 DEF Exportable
    <3>2. a \in Attempts
      BY DEF Selected
    <3>3. a.arm \in 1..Arms /\ a = AttemptAt(ledger[i].schedule, ledger[i].panel, a.arm)
      BY <3>1, <3>2 DEF Attempts, AttemptAt, KeyOf
    <3>4. remote[a] = "verified"
      BY <3>1, <3>3 DEF VerdictInv, VerifiedUpTo
    <3> QED
      BY <3>2, <3>4, HostStep
  <2> QED
    BY <2>1, <2>2, SafeStep
<1> QED
  BY <1>3, <1>4 DEF VerdictInv, VerifiedUpTo

\* What was adjudicated stays so.
LEMMA AdjudicatedGrows ==
  ASSUME TRUE, [Next]_vars
  PROVE  adjudicated \subseteq adjudicated'
<1> USE DEF manifest, host, files, memory, bounds, Goto, Fault, Replaceable, Proceed
<1>1. CASE StartSession
  BY <1>1 DEF StartSession
<1>2. CASE CheckPreflight
  BY <1>2 DEF CheckPreflight
<1>3. CASE LoadState
  BY <1>3 DEF LoadState
<1>4. CASE SkipPanel
  BY <1>4 DEF SkipPanel
<1>5. CASE StartPanel
  BY <1>5 DEF StartPanel
<1>6. CASE EndSchedule
  BY <1>6 DEF EndSchedule
<1>7. CASE GenerateTask
  BY <1>7 DEF GenerateTask
<1>8. CASE PrepareAttempt
  BY <1>8 DEF PrepareAttempt
<1>9. CASE RunPi
  BY <1>9 DEF RunPi
<1>10. CASE RecordEvents
  BY <1>10 DEF RecordEvents
<1>11. CASE VerifyAttempt
  BY <1>11 DEF VerifyAttempt
<1>12. CASE ClassifyResult
  BY <1>12 DEF ClassifyResult
<1>13. CASE AppendRecord
  BY <1>13 DEF AppendRecord
<1>14. CASE UnlinkMarker
  BY <1>14 DEF UnlinkMarker
<1>15. CASE WriteReceipt
  BY <1>15 DEF WriteReceipt
<1>16. CASE WriteExport
  BY <1>16 DEF WriteExport
<1>17. CASE WriteExportReceipt
  BY <1>17 DEF WriteExportReceipt
<1>18. CASE Crash
  BY <1>18 DEF Crash
<1>19. CASE Adjudicate
  BY <1>19 DEF Adjudicate
<1>20. CASE ChangeRevision
  BY <1>20 DEF ChangeRevision
<1>21. CASE UNCHANGED vars
  BY <1>21 DEF vars
<1> QED
  BY <1>1, <1>2, <1>3, <1>4, <1>5, <1>6, <1>7, <1>8, <1>9, <1>10, <1>11,
     <1>12, <1>13, <1>14, <1>15, <1>16, <1>17, <1>18, <1>19, <1>20, <1>21
  DEF Next, Session

\* Markers stay until the record is there.
LEMMA MarkerKept ==
  ASSUME TypeOK, PlaceInv, AttemptInv, UncertainMarked, [Next]_vars
  PROVE  UncertainMarked'
<1> DEFINE key(a) == [schedule |-> a.schedule, panel |-> a.panel]
<1> SUFFICES ASSUME NEW a \in Attempts, remote'[a] # "absent", key(a) \notin Recorded'
             PROVE  marker' = key(a) \/ key(a) \in adjudicated'
  BY DEF UncertainMarked
<1>1. key(a) \in Keys /\ key(a) \notin Recorded
  BY RecordedGrows DEF TypeOK, Attempts, Keys
<1>2. CASE remote[a] = "absent"
  <2>1. pc = "prepare" /\ a = Attempt
    BY <1>2, HostStep
  <2>2. marker = key(a)
    BY <2>1 DEF PlaceInv, Attempt, Key
  <2>3. UNCHANGED marker \/ marker \in adjudicated'
    BY <2>1, MarkerStep
  <2> QED
    BY <2>2, <2>3
<1>3. CASE remote[a] # "absent" /\ marker = key(a)
  <2>1. pc # "unlink" /\ pc # "panel"
    BY <1>1, <1>3 DEF PlaceInv, Keys
  <2> QED
    BY <1>3, <2>1, MarkerStep
<1>4. CASE remote[a] # "absent" /\ key(a) \in adjudicated
  BY <1>4, AdjudicatedGrows
<1> QED
  BY <1>1, <1>2, <1>3, <1>4 DEF UncertainMarked

-----------------------------------------------------------------------------

LEMMA InitInv == Init => IInv
<1> SUFFICES ASSUME Init PROVE IInv
  OBVIOUS
<1>1. TypeOK
  BY DEF Init, TypeOK, ManifestOK, SessionOK, HostOK, FilesOK, NoTriggers
<1>2. PlaceInv /\ RevisionInv /\ AttemptInv
  BY DEF Init, PlaceInv, RevisionInv, OneRevision, AttemptInv
<1>3. ProgressInv /\ VerdictInv /\ UncertainMarked
  BY DEF Init, ProgressInv, VerdictInv, UncertainMarked
<1> QED
  BY <1>1, <1>2, <1>3 DEF IInv, RunInv

LEMMA NextInv == IInv /\ [Next]_vars => IInv'
<1> SUFFICES ASSUME IInv, [Next]_vars PROVE IInv'
  OBVIOUS
<1> USE DEF IInv, RunInv, TypeOK
<1>1. TypeOK'
  BY ManifestType, SessionType, HostType, FilesType
<1>2. PlaceInv'
  BY PlaceKept
<1>3. RevisionInv'
  BY RevisionKept
<1>4. AttemptInv'
  BY AttemptKept
<1>5. ProgressInv'
  BY ProgressKept
<1>6. VerdictInv'
  BY VerdictKept
<1>7. UncertainMarked'
  BY MarkerKept
<1> QED
  BY <1>1, <1>2, <1>3, <1>4, <1>5, <1>6, <1>7

\* The inductive invariant holds in every reachable state.
THEOREM Invariance == Spec => []IInv
  BY InitInv, NextInv, PTL DEF Spec

\* Type correctness for every manifest and any bounds.
THEOREM TypeCorrect == Spec => []TypeOK
<1>1. IInv => TypeOK
  BY DEF IInv
<1> QED
  BY <1>1, Invariance, PTL

\* No planned attempt is given to the model twice, whatever fails or is
\* resumed (prepare_attempt refuses the directory it finds).
THEOREM AttemptsRunOnce == Spec => []AttemptOnce
<1>1. IInv => AttemptOnce
  BY DEF IInv, RunInv, AttemptInv, AttemptOnce
<1> QED
  BY <1>1, Invariance, PTL

\* An attempt without a record belongs to the marked panel or to an
\* adjudicated one (the active marker of run_stage_b).
THEOREM UncertainStaysMarked == Spec => []UncertainMarked
<1>1. IInv => UncertainMarked
  BY DEF IInv, RunInv
<1> QED
  BY <1>1, Invariance, PTL

\* All records were made under the revision of the preflight file
\* (run_stage_b compares the preflight it finds).
THEOREM LedgerOfOneRevision == Spec => []OneRevision
<1>1. IInv => OneRevision
  BY DEF IInv, RunInv, RevisionInv
<1> QED
  BY <1>1, Invariance, PTL

\* What is exported ran once and was verified (export_safe_attempts).
THEOREM ExportIsVerified == Spec => []ExportVerified
<1>1. IInv => ExportVerified
  BY DEF IInv, RunInv, TypeOK, FilesOK, AttemptInv, VerdictInv, ExportVerified
<1> QED
  BY <1>1, Invariance, PTL

-----------------------------------------------------------------------------
(* The chronology. *)

\* Every panel has one place in a schedule.
LEMMA PlaceOf ==
  ASSUME NEW order \in Orders
  PROVE  /\ Cardinality(Panels) \in Nat
         /\ DOMAIN order = 1..Cardinality(Panels)
         /\ \A k \in DOMAIN order : order[k] \in Panels /\ Place(order, order[k]) = k
         /\ \A p \in Panels : Place(order, p) \in DOMAIN order /\ order[Place(order, p)] = p
<1> DEFINE n == Cardinality(Panels)
<1>1. n \in Nat
  BY FS_CardinalityType
<1>2. order \in [1..n -> Panels]
  BY DEF Orders
<1>3. IsFiniteSet(1..n) /\ Cardinality(1..n) = n
  BY <1>1, FS_Interval
<1>4. order \in Surjection(1..n, Panels)
  BY <1>2 DEF Orders, Surjection
<1>5. order \in Injection(1..n, Panels)
  BY <1>3, <1>4, FS_SurjSameCardinalityImpliesInj
<1>6. \A i, j \in 1..n : order[i] = order[j] => i = j
  BY <1>5 DEF Injection, IsInjective
<1>7. ASSUME NEW p \in Panels PROVE Place(order, p) \in 1..n /\ order[Place(order, p)] = p
  <2>1. \E k \in DOMAIN order : order[k] = p
    BY DEF Orders
  <2> QED
    BY <1>2, <2>1 DEF Place
<1> QED
  BY <1>1, <1>2, <1>6, <1>7

-----------------------------------------------------------------------------
(* What a session remembers of the ledger, and what a resumed one finds. *)

KeyAt(s, p) == [schedule |-> s, panel |-> p]

\* A ledger is loaded.
LoadedPcs == PanelPcs \cup BetweenPcs

\* An infrastructure failure is on record that the session has not acted upon.
Failing == pc = "unlink" /\ pending = "infrastructure_invalid"

\* The triggers and the active blocks a session remembers are those of the
\* ledger, but for the failure at hand.
TriggerInv ==
  pc \in LoadedPcs =>
    /\ ~Failing => triggers = LedgerTriggers /\ Invalid("contingency") = {}
    /\ Failing /\ schedule = "primary" =>
         /\ LedgerTriggers = [triggers EXCEPT ![BlockOf[Panel]] = Panel]
         /\ Invalid("contingency") = {}
    /\ active = IF schedule = "primary" THEN Blocks \ Triggered(triggers)
                ELSE Triggered(triggers)

\* Every place before the one at hand has its record or needs none.
PassedInv ==
  /\ pc \in PanelPcs => BlockOf[Panel] \in active
  /\ pc \in PanelPcs \ {"unlink"} => Key \notin Recorded
  /\ pc \in LoadedPcs =>
       \A k \in DOMAIN chronology[schedule] : k < position =>
         \/ KeyAt(schedule, chronology[schedule][k]) \in Recorded
         \/ BlockOf[chronology[schedule][k]] \notin active
  /\ pc \in LoadedPcs /\ schedule = "contingency" =>
       \A p \in Panels :
         KeyAt("primary", p) \in Recorded \/ BlockOf[p] \in Triggered(triggers)
  /\ pc \in {"receipt", "export", "export_receipt"} =>
       schedule = "contingency" /\ ~ToRun

\* The ledger holds all that will ever be recorded.
Complete ==
  /\ Invalid("contingency") = {}
  /\ \A p \in Panels :
       IF BlockOf[p] \in Triggered(LedgerTriggers)
       THEN KeyAt("contingency", p) \in Recorded
       ELSE KeyAt("primary", p) \in Recorded

\* Receipt and export speak of a complete ledger.
ReceiptInv ==
  /\ \/ receipt # NoReceipt
     \/ safe # {}
     \/ pc \in {"export", "export_receipt"}
     => receipt = LedgerTriggers /\ Complete
  /\ pc \in PanelPcs => receipt = NoReceipt /\ safe = {}
  /\ safe # {} => safe = Selected

ResumeInv == Readable /\ TriggerInv /\ PassedInv /\ ReceiptInv

\* The steps that matter to what a session remembers of the ledger: it ends or
\* has not loaded it, it is busy with a panel, or it is one of seven.
LEMMA StepKinds ==
  ASSUME SessionOK, [Next]_vars
  PROVE  /\ UNCHANGED chronology
         /\ \/ /\ pc' \notin LoadedPcs
               /\ UNCHANGED <<ledger, receipt, safe>>
            \/ /\ UNCHANGED <<ledger, receipt, safe, schedule, position, active,
                              triggers>>
               /\ \/ UNCHANGED <<pc, pending>>
                  \/ /\ pc \in PanelPcs \ {"unlink"}
                     /\ pc' \in PanelPcs \ {"unlink"}
            \/ LoadState /\ pc' = "panel"
            \/ SkipPanel \/ StartPanel \/ EndSchedule \/ AppendRecord
            \/ UnlinkMarker /\ pc' = "panel"
            \/ WriteReceipt /\ pc' = "export"
            \/ WriteExport /\ pc' = "export_receipt"
<1> USE DEF manifest, host, files, memory, bounds, Goto, Fault, Replaceable, Proceed,
            EndSession, LoadedPcs
<1>1. CASE StartSession
  BY <1>1 DEF StartSession
<1>2. CASE CheckPreflight
  BY <1>2 DEF CheckPreflight
<1>3. CASE LoadState
  BY <1>3 DEF LoadState
<1>4. CASE SkipPanel
  BY <1>4 DEF SkipPanel
<1>5. CASE StartPanel
  BY <1>5 DEF StartPanel
<1>6. CASE EndSchedule
  BY <1>6 DEF EndSchedule
<1>7. CASE GenerateTask
  BY <1>7 DEF GenerateTask
<1>8. CASE PrepareAttempt
  BY <1>8 DEF PrepareAttempt
<1>9. CASE RunPi
  BY <1>9 DEF RunPi
<1>10. CASE RecordEvents
  BY <1>10 DEF RecordEvents
<1>11. CASE VerifyAttempt
  BY <1>11 DEF VerifyAttempt
<1>12. CASE ClassifyResult
  BY <1>12 DEF ClassifyResult
<1>13. CASE AppendRecord
  BY <1>13 DEF AppendRecord
<1>14. CASE UnlinkMarker
  BY <1>14 DEF UnlinkMarker
<1>15. CASE WriteReceipt
  BY <1>15 DEF WriteReceipt
<1>16. CASE WriteExport
  BY <1>16 DEF WriteExport
<1>17. CASE WriteExportReceipt
  BY <1>17 DEF WriteExportReceipt
<1>18. CASE Crash
  BY <1>18 DEF Crash
<1>19. CASE Adjudicate
  BY <1>19 DEF Adjudicate
<1>20. CASE ChangeRevision
  BY <1>20 DEF ChangeRevision
<1>21. CASE UNCHANGED vars
  BY <1>21 DEF vars
<1> QED
  BY <1>1, <1>2, <1>3, <1>4, <1>5, <1>6, <1>7, <1>8, <1>9, <1>10, <1>11,
     <1>12, <1>13, <1>14, <1>15, <1>16, <1>17, <1>18, <1>19, <1>20, <1>21
  DEF Next, Session

\* What is read off the ledger changes with the ledger only.
LEMMA LedgerView ==
  ASSUME UNCHANGED ledger
  PROVE  /\ Recorded' = Recorded
         /\ Invalid("primary")' = Invalid("primary")
         /\ Invalid("contingency")' = Invalid("contingency")
         /\ LedgerTriggers' = LedgerTriggers
<1>1. /\ Recorded' = Recorded
      /\ Invalid("primary")' = Invalid("primary")
      /\ Invalid("contingency")' = Invalid("contingency")
  BY DEF Recorded, Invalid
<1>2. \A b : Failed(b)' = Failed(b)
  BY <1>1 DEF Failed
<1> QED
  BY <1>1, <1>2 DEF LedgerTriggers

\* What one more record changes.
LEMMA AppendView ==
  ASSUME FilesOK, NEW record \in Records, ledger' = Append(ledger, record)
  PROVE  /\ Recorded' = Recorded \cup {KeyOf(record)}
         /\ \A s \in Schedules :
              Invalid(s)' = Invalid(s) \cup
                (IF record.schedule = s /\ record.status = "infrastructure_invalid"
                 THEN {record.panel} ELSE {})
<1>1. /\ Len(ledger) \in Nat
      /\ DOMAIN ledger = 1..Len(ledger)
      /\ DOMAIN ledger' = 1..(Len(ledger) + 1)
      /\ \A i \in 1..Len(ledger) : ledger'[i] = ledger[i]
      /\ ledger'[Len(ledger) + 1] = record
  BY DEF FilesOK
<1>2. Recorded' = Recorded \cup {KeyOf(record)}
  BY <1>1 DEF Recorded, KeyOf
<1>3. ASSUME NEW s \in Schedules
      PROVE  Invalid(s)' = Invalid(s) \cup
                (IF record.schedule = s /\ record.status = "infrastructure_invalid"
                 THEN {record.panel} ELSE {})
  BY <1>1 DEF Invalid
<1> QED
  BY <1>2, <1>3

-----------------------------------------------------------------------------

\* The record a step appends.
LEMMA AppendType ==
  ASSUME TypeOK, PlaceInv, RevisionInv, AppendRecord
  PROVE  /\ Panel \in Panels /\ Panel' = Panel
         /\ [schedule |-> schedule, panel |-> Panel, status |-> pending,
             revision |-> loaded] \in Records
         /\ Recorded' = Recorded \cup {Key}
         /\ \A s \in Schedules :
              Invalid(s)' = Invalid(s) \cup
                (IF schedule = s /\ pending = "infrastructure_invalid"
                 THEN {Panel} ELSE {})
<1> DEFINE record == [schedule |-> schedule, panel |-> Panel, status |-> pending,
                      revision |-> loaded]
<1>1. Panel \in Panels /\ Panel' = Panel
  BY PlaceType DEF AppendRecord, PlaceInv, TypeOK, Panel, Proceed, memory, manifest
<1>2. record \in Records
  BY <1>1 DEF AppendRecord, PlaceInv, RevisionInv, TypeOK, SessionOK, Records
<1>3. ledger' = Append(ledger, record)
  BY DEF AppendRecord
<1>4. KeyOf(record) = Key
  BY DEF KeyOf, Key
<1>5. record.schedule = schedule /\ record.status = pending /\ record.panel = Panel
  OBVIOUS
<1> HIDE DEF record
<1>6. /\ Recorded' = Recorded \cup {KeyOf(record)}
      /\ \A s \in Schedules :
              Invalid(s)' = Invalid(s) \cup
                (IF record.schedule = s /\ record.status = "infrastructure_invalid"
                 THEN {record.panel} ELSE {})
  BY <1>2, <1>3, AppendView DEF TypeOK
<1> QED
  BY <1>1, <1>2, <1>4, <1>5, <1>6 DEF record

\* A new failure triggers its block, if no other failure has.
LEMMA AppendTriggers ==
  ASSUME TypeOK, PlaceInv, RevisionInv, AppendRecord
  PROVE  /\ schedule = "primary" /\ pending = "infrastructure_invalid"
            /\ BlockOf[Panel] \notin Triggered(LedgerTriggers)
            => LedgerTriggers' = [LedgerTriggers EXCEPT ![BlockOf[Panel]] = Panel]
         /\ schedule = "contingency" \/ pending # "infrastructure_invalid"
            => LedgerTriggers' = LedgerTriggers
<1>1. CASE schedule = "primary" /\ pending = "infrastructure_invalid"
           /\ BlockOf[Panel] \notin Triggered(LedgerTriggers)
  <2>1. Invalid("primary")' = Invalid("primary") \cup {Panel} /\ Panel \in Panels
    BY <1>1, AppendType
  <2>2. Failed(BlockOf[Panel]) = {}
    BY <1>1, <2>1, TriggersOfLedger DEF TypeOK
  <2>3. Failed(BlockOf[Panel])' = {Panel}
    <3>1. \A p \in Invalid("primary") : BlockOf[p] # BlockOf[Panel]
      BY <2>2 DEF Failed
    <3>2. \A p : p \in Failed(BlockOf[Panel])' <=> p = Panel
      BY <1>1, <2>1, <3>1, AppendType DEF Failed
    <3> QED
      BY <3>2
  <2>4. \A b \in Blocks \ {BlockOf[Panel]} : Failed(b)' = Failed(b)
    BY <2>1 DEF Failed
  <2>5. Only({Panel}) = Panel
    BY DEF Only
  <2>6. LedgerTriggers'[BlockOf[Panel]] = Panel
    BY <1>1, <2>1, <2>3, <2>5, AppendType DEF LedgerTriggers
  <2>7. \A b \in Blocks \ {BlockOf[Panel]} : LedgerTriggers'[b] = LedgerTriggers[b]
    BY <2>4 DEF LedgerTriggers
  <2> QED
    BY <1>1, <2>6, <2>7 DEF LedgerTriggers
<1>2. CASE schedule = "contingency" \/ pending # "infrastructure_invalid"
  <2>1. Invalid("primary")' = Invalid("primary")
    BY <1>2, AppendType
  <2>2. \A b : Failed(b)' = Failed(b)
    BY <2>1 DEF Failed
  <2> QED
    BY <1>2, <2>2 DEF LedgerTriggers
<1> QED
  BY <1>1, <1>2

\* The session keeps the triggers of the ledger.
LEMMA TriggersKept ==
  ASSUME TypeOK, PlaceInv, RevisionInv, TriggerInv, PassedInv, [Next]_vars
  PROVE  TriggerInv'
<1> USE DEF TypeOK, LoadedPcs, Failing
<1>1. UNCHANGED chronology
  BY StepKinds
<1>2. CASE pc' \notin LoadedPcs
  BY <1>2 DEF TriggerInv
<1>3. CASE /\ UNCHANGED <<ledger, receipt, safe, schedule, position, active, triggers>>
           /\ \/ UNCHANGED <<pc, pending>>
              \/ /\ pc \in PanelPcs \ {"unlink"}
                 /\ pc' \in PanelPcs \ {"unlink"}
  BY <1>1, <1>3, LedgerView DEF TriggerInv, Panel, Triggered
<1>4. CASE LoadState /\ pc' = "panel"
  BY <1>4, LedgerView DEF TriggerInv, LoadState, EndSession, files, Triggered
<1>5. CASE SkipPanel
  BY <1>5, LedgerView DEF TriggerInv, SkipPanel, files, Triggered
<1>6. CASE StartPanel
  BY <1>6, LedgerView DEF TriggerInv, StartPanel, Goto, Triggered
<1>7. CASE EndSchedule
  BY <1>7, LedgerView DEF TriggerInv, EndSchedule, files, Triggered
<1>8. CASE AppendRecord
  <2>1. /\ pc = "append" /\ pc' = "unlink"
        /\ UNCHANGED <<schedule, position, active, triggers, pending>>
    BY <1>8 DEF AppendRecord, Proceed, memory
  <2>2. triggers = LedgerTriggers /\ Invalid("contingency") = {}
    BY <2>1 DEF TriggerInv
  <2>3. active = IF schedule = "primary" THEN Blocks \ Triggered(triggers)
                 ELSE Triggered(triggers)
    BY <2>1 DEF TriggerInv
  <2>4. BlockOf[Panel] \in active
    BY <2>1 DEF PassedInv
  <2>5. Panel' = Panel
    BY <1>8, AppendType
  <2>6. Invalid("contingency")' = {} \/ (Failing' /\ schedule = "contingency")
    <3>1. Invalid("contingency")' = Invalid("contingency") \cup
            (IF schedule = "contingency" /\ pending = "infrastructure_invalid"
             THEN {Panel} ELSE {})
      BY <1>8, AppendType
    <3> QED
      BY <2>1, <2>2, <3>1
  <2>7. CASE pending = "infrastructure_invalid" /\ schedule = "primary"
    <3>1. LedgerTriggers' = [triggers EXCEPT ![BlockOf[Panel]] = Panel]
      BY <1>8, <2>2, <2>3, <2>4, <2>7, AppendTriggers
    <3> QED
      BY <2>1, <2>3, <2>5, <2>6, <2>7, <3>1 DEF TriggerInv, Triggered
  <2>8. CASE pending # "infrastructure_invalid" \/ schedule = "contingency"
    <3>1. LedgerTriggers' = triggers
      BY <1>8, <2>2, <2>8, AppendTriggers
    <3> QED
      BY <2>1, <2>3, <2>6, <2>8, <3>1 DEF TriggerInv, Triggered
  <2> QED
    BY <2>7, <2>8 DEF SessionOK
<1>9. CASE UnlinkMarker /\ pc' = "panel"
  <2>1. /\ pc = "unlink" /\ UNCHANGED <<ledger, schedule>>
        /\ \/ /\ pending # "infrastructure_invalid"
              /\ UNCHANGED <<active, triggers>>
           \/ /\ schedule = "primary" /\ pending = "infrastructure_invalid"
              /\ triggers' = [triggers EXCEPT ![BlockOf[Panel]] = Panel]
              /\ active' = active \ {BlockOf[Panel]}
    BY <1>9 DEF UnlinkMarker, EndSession, SessionOK
  <2>2. Panel \in Panels
    BY <2>1, PlaceType DEF PlaceInv
  <2>3. CASE pending # "infrastructure_invalid"
    BY <1>9, <2>1, <2>3, LedgerView DEF TriggerInv, Triggered
  <2>4. CASE schedule = "primary" /\ pending = "infrastructure_invalid"
    <3>1. Triggered(triggers') = Triggered(triggers) \cup {BlockOf[Panel]}
      BY <2>1, <2>2, <2>4 DEF Triggered, SessionOK
    <3> QED
      BY <1>9, <2>1, <2>4, <3>1, LedgerView DEF TriggerInv
  <2> QED
    BY <2>1, <2>3, <2>4
<1>10. CASE WriteReceipt /\ pc' = "export"
  BY <1>10, LedgerView DEF TriggerInv, WriteReceipt, Proceed, EndSession, memory, Triggered
<1>11. CASE WriteExport /\ pc' = "export_receipt"
  BY <1>11, LedgerView DEF TriggerInv, WriteExport, Proceed, EndSession, memory, Triggered
<1> QED
  BY <1>2, <1>3, <1>4, <1>5, <1>6, <1>7, <1>8, <1>9, <1>10, <1>11, StepKinds

\* The session passes a place when it is recorded or needs no record.
LEMMA PassedKept ==
  ASSUME TypeOK, PlaceInv, RevisionInv, TriggerInv, PassedInv, [Next]_vars
  PROVE  PassedInv'
<1> USE DEF TypeOK, LoadedPcs
<1>1. UNCHANGED chronology
  BY StepKinds
<1>2. /\ DOMAIN chronology[schedule] = 1..Cardinality(Panels)
      /\ Cardinality(Panels) \in Nat
      /\ \A k \in DOMAIN chronology[schedule] : chronology[schedule][k] \in Panels
      /\ \A p \in Panels : \E k \in DOMAIN chronology[schedule] : chronology[schedule][k] = p
  <2>1. chronology[schedule] \in Orders
    BY DEF ManifestOK, SessionOK, Chronologies
  <2> QED
    BY <2>1, PlaceOf
<1>3. CASE pc' \notin LoadedPcs
  BY <1>3 DEF PassedInv
<1>4. CASE /\ UNCHANGED <<ledger, receipt, safe, schedule, position, active, triggers>>
           /\ \/ UNCHANGED <<pc, pending>>
              \/ /\ pc \in PanelPcs \ {"unlink"}
                 /\ pc' \in PanelPcs \ {"unlink"}
  BY <1>1, <1>4, LedgerView DEF PassedInv, Panel, Key, ToRun, Triggered
<1>5. CASE LoadState /\ pc' = "panel"
  <2>1. UNCHANGED ledger /\ schedule' = "primary" /\ position' = 1
    BY <1>5 DEF LoadState, EndSession, files
  <2>2. DOMAIN chronology["primary"] = 1..Cardinality(Panels)
    BY PlaceOf DEF ManifestOK, Chronologies
  <2> QED
    BY <1>1, <1>2, <1>5, <2>1, <2>2 DEF PassedInv
<1>6. CASE SkipPanel
  <2>1. /\ pc = "panel" /\ position' = position + 1
        /\ UNCHANGED <<ledger, pc, schedule, active, triggers>>
        /\ BlockOf[Panel] \notin active \/ Key \in Recorded
    BY <1>6 DEF SkipPanel, files, Done
  <2>2. ASSUME NEW k \in DOMAIN chronology[schedule], k < position + 1
        PROVE  \/ KeyAt(schedule, chronology[schedule][k]) \in Recorded
               \/ BlockOf[chronology[schedule][k]] \notin active
    <3>1. k < position \/ k = position
      BY <1>2, <2>2 DEF SessionOK
    <3> QED
      BY <2>1, <3>1 DEF PassedInv, Panel, Key, KeyAt
  <2> QED
    BY <1>1, <2>1, <2>2, LedgerView DEF PassedInv, Triggered
<1>7. CASE StartPanel
  BY <1>1, <1>7, LedgerView DEF PassedInv, StartPanel, Goto, Done, Panel, Key, Triggered
<1>8. CASE EndSchedule
  <2>1. /\ pc = "panel" /\ ~ToRun /\ UNCHANGED <<ledger, triggers>>
        /\ \/ /\ schedule = "primary" /\ schedule' = "contingency" /\ position' = 1
              /\ active' = Triggered(triggers) /\ pc' = "panel"
           \/ /\ schedule = "contingency" /\ pc' = "receipt"
              /\ UNCHANGED <<schedule, position, active>>
    BY <1>8 DEF EndSchedule, files, SessionOK
  <2>2. \A k \in DOMAIN chronology[schedule] : k < position
    BY <1>2, <2>1 DEF ToRun, SessionOK
  <2>3. \A p \in Panels : KeyAt(schedule, p) \in Recorded \/ BlockOf[p] \notin active
    BY <1>2, <2>1, <2>2 DEF PassedInv
  <2>4. CASE schedule = "primary"
    <3>1. \A p \in Panels : KeyAt("primary", p) \in Recorded
                            \/ BlockOf[p] \in Triggered(triggers)
      BY <2>1, <2>3, <2>4 DEF TriggerInv, Failing
    <3>2. DOMAIN chronology["contingency"] = 1..Cardinality(Panels)
      BY PlaceOf DEF ManifestOK, Chronologies
    <3> QED
      BY <1>1, <1>2, <2>1, <2>4, <3>1, <3>2, LedgerView DEF PassedInv, Triggered
  <2>5. CASE schedule = "contingency"
    BY <1>1, <2>1, <2>2, <2>5, LedgerView DEF PassedInv, Triggered, ToRun
  <2> QED
    BY <2>1, <2>4, <2>5
<1>9. CASE AppendRecord
  <2>1. /\ pc = "append" /\ pc' = "unlink"
        /\ UNCHANGED <<schedule, position, active, triggers, pending>>
    BY <1>9 DEF AppendRecord, Proceed, memory
  <2>2. Recorded \subseteq Recorded' /\ Panel' = Panel
    BY <1>9, AppendType
  <2> QED
    BY <1>1, <2>1, <2>2 DEF PassedInv, Triggered
<1>10. CASE UnlinkMarker /\ pc' = "panel"
  <2>1. /\ pc = "unlink" /\ UNCHANGED <<ledger, schedule>> /\ position' = position + 1
        /\ active' \subseteq active
        /\ schedule = "contingency" => UNCHANGED triggers
    BY <1>10 DEF UnlinkMarker, EndSession
  <2>2. Key \in Recorded
    BY <2>1 DEF PlaceInv
  <2>3. ASSUME NEW k \in DOMAIN chronology[schedule], k < position + 1
        PROVE  \/ KeyAt(schedule, chronology[schedule][k]) \in Recorded
               \/ BlockOf[chronology[schedule][k]] \notin active
    <3>1. k < position \/ k = position
      BY <1>2, <2>3 DEF SessionOK
    <3> QED
      BY <2>1, <2>2, <3>1 DEF PassedInv, Panel, Key, KeyAt
  <2> QED
    BY <1>1, <1>10, <2>1, <2>3, LedgerView DEF PassedInv, Triggered
<1>11. CASE WriteReceipt /\ pc' = "export"
  BY <1>1, <1>11, LedgerView
  DEF PassedInv, WriteReceipt, Proceed, EndSession, memory, Triggered, ToRun
<1>12. CASE WriteExport /\ pc' = "export_receipt"
  BY <1>1, <1>12, LedgerView
  DEF PassedInv, WriteExport, Proceed, EndSession, memory, Triggered, ToRun
<1> QED
  BY <1>3, <1>4, <1>5, <1>6, <1>7, <1>8, <1>9, <1>10, <1>11, <1>12, StepKinds

\* What follows for a panel at hand: its block has not failed when it is a
\* primary one and has failed when it is a contingency one.
LEMMA PanelAtHand ==
  ASSUME TypeOK, PlaceInv, TriggerInv, PassedInv, pc \in PanelPcs, ~Failing
  PROVE  /\ Panel \in Panels
         /\ IF schedule = "primary" THEN BlockOf[Panel] \notin Triggered(LedgerTriggers)
            ELSE BlockOf[Panel] \in Triggered(LedgerTriggers)
<1>1. Panel \in Panels
  BY PlaceType DEF PlaceInv, TypeOK
<1>2. pc \in LoadedPcs
  BY DEF LoadedPcs
<1> QED
  BY <1>1, <1>2 DEF TriggerInv, PassedInv

\* Receipt and export are written once the ledger is complete, and a complete
\* ledger leaves no panel to run.
LEMMA ReceiptKept ==
  ASSUME TypeOK, PlaceInv, RevisionInv, TriggerInv, PassedInv, ReceiptInv, [Next]_vars
  PROVE  ReceiptInv'
<1> USE DEF TypeOK, LoadedPcs
<1>1. ASSUME UNCHANGED ledger, Complete PROVE Complete'
  BY <1>1, LedgerView DEF Complete, Triggered
<1>2. ASSUME UNCHANGED receipt PROVE Selected' = Selected
  BY <1>2 DEF Selected, SelectedSchedule
<1>3. CASE pc' \notin LoadedPcs /\ UNCHANGED <<ledger, receipt, safe>>
  BY <1>1, <1>2, <1>3, LedgerView DEF ReceiptInv
<1>4. CASE /\ UNCHANGED <<ledger, receipt, safe, schedule, position, active, triggers>>
           /\ \/ UNCHANGED <<pc, pending>>
              \/ /\ pc \in PanelPcs \ {"unlink"}
                 /\ pc' \in PanelPcs \ {"unlink"}
  BY <1>1, <1>2, <1>4, LedgerView DEF ReceiptInv
<1>5. CASE (LoadState /\ pc' = "panel") \/ SkipPanel \/ EndSchedule
           \/ (UnlinkMarker /\ pc' = "panel")
  <2>1. UNCHANGED <<ledger, receipt, safe>> /\ pc' \in {"panel", "receipt"}
    BY <1>5 DEF LoadState, SkipPanel, EndSchedule, UnlinkMarker, files
  <2> QED
    BY <1>1, <1>2, <2>1, LedgerView DEF ReceiptInv
<1>6. CASE StartPanel
  <2>1. /\ UNCHANGED <<ledger, receipt, safe>> /\ pc = "panel" /\ pc' = "generate"
        /\ ToRun /\ BlockOf[Panel] \in active /\ Key \notin Recorded
    BY <1>6 DEF StartPanel, Goto, Done
  <2>2. Panel \in Panels
    BY <2>1, PlaceType
  <2>3. ~Complete
    <3>1. /\ triggers = LedgerTriggers
          /\ active = IF schedule = "primary" THEN Blocks \ Triggered(triggers)
                      ELSE Triggered(triggers)
      BY <2>1 DEF TriggerInv, Failing
    <3>2. KeyAt(schedule, Panel) \notin Recorded
      BY <2>1 DEF Key, KeyAt
    <3> QED
      BY <2>1, <2>2, <3>1, <3>2 DEF Complete, SessionOK
  <2>4. receipt = NoReceipt /\ safe = {}
    BY <2>3 DEF ReceiptInv
  <2> QED
    BY <2>1, <2>4 DEF ReceiptInv
<1>7. CASE AppendRecord
  BY <1>7 DEF ReceiptInv, AppendRecord, Proceed
<1>8. CASE WriteReceipt /\ pc' = "export"
  <2>1. /\ pc = "receipt" /\ receipt' = triggers /\ receipt \in {NoReceipt, triggers}
        /\ UNCHANGED <<ledger, safe>>
    BY <1>8 DEF WriteReceipt, EndSession
  <2>2. triggers = LedgerTriggers /\ Invalid("contingency") = {}
    BY <2>1 DEF TriggerInv, Failing
  <2>3. Complete
    <3>1. /\ schedule = "contingency" /\ ~ToRun
          /\ active = Triggered(triggers)
      BY <2>1 DEF PassedInv, TriggerInv
    <3>2. chronology[schedule] \in Orders
      BY DEF ManifestOK, SessionOK, Chronologies
    <3>3. \A k \in DOMAIN chronology[schedule] : k < position
      BY <3>1, <3>2, PlaceOf DEF ToRun, SessionOK
    <3>4. \A p \in Panels : BlockOf[p] \in active => KeyAt("contingency", p) \in Recorded
      BY <2>1, <3>1, <3>2, <3>3, PlaceOf DEF PassedInv
    <3>5. \A p \in Panels : BlockOf[p] \notin active => KeyAt("primary", p) \in Recorded
      BY <2>1, <3>1 DEF PassedInv
    <3> QED
      BY <2>2, <3>1, <3>4, <3>5 DEF Complete
  <2>4. safe # {} => receipt = receipt'
    BY <2>1, <2>2 DEF ReceiptInv
  <2> QED
    BY <1>1, <1>2, <1>8, <2>1, <2>2, <2>3, <2>4, LedgerView DEF ReceiptInv
<1>9. CASE WriteExport /\ pc' = "export_receipt"
  <2>1. pc = "export" /\ safe' = Selected /\ UNCHANGED <<ledger, receipt>>
    BY <1>9 DEF WriteExport, EndSession
  <2> QED
    BY <1>1, <1>2, <1>9, <2>1, LedgerView DEF ReceiptInv
<1> QED
  BY <1>3, <1>4, <1>5, <1>6, <1>7, <1>8, <1>9, StepKinds

\* A record appended by a session is one the next session accepts.
LEMMA ReadableAppended ==
  ASSUME TypeOK, PlaceInv, RevisionInv, TriggerInv, PassedInv, Readable, AppendRecord
  PROVE  Readable'
<1> DEFINE n == Len(ledger)
<1> USE DEF TypeOK
<1>1. /\ pc = "append" /\ ~Failing
      /\ UNCHANGED <<chronology, schedule>>
      /\ Panel \in Panels /\ Panel' = Panel
      /\ Key \notin Recorded /\ Recorded' = Recorded \cup {Key}
  BY AppendType DEF AppendRecord, Failing, PassedInv, Proceed, memory, manifest
<1>2. /\ n \in Nat /\ DOMAIN ledger = 1..n /\ DOMAIN ledger' = 1..(n + 1)
      /\ \A i \in 1..n : ledger'[i] = ledger[i] /\ ledger[i] \in Records
      /\ KeyOf(ledger'[n + 1]) = Key
      /\ ledger'[n + 1].schedule = schedule /\ ledger'[n + 1].panel = Panel
  <2>1. ledger' = Append(ledger, [schedule |-> schedule, panel |-> Panel,
                                  status |-> pending, revision |-> loaded])
    BY DEF AppendRecord
  <2> QED
    BY <2>1 DEF FilesOK, KeyOf, Key
<1>3. IF schedule = "primary" THEN BlockOf[Panel] \notin Triggered(LedgerTriggers)
      ELSE BlockOf[Panel] \in Triggered(LedgerTriggers)
  BY <1>1, PanelAtHand
<1>4. \A s \in Schedules : \A p \in Panels :
        KeyAt(s, p) \in Recorded <=> \E i \in RecordsOf(ledger, s) : ledger[i].panel = p
  <2> TAKE s \in Schedules
  <2> TAKE p \in Panels
  <2>1. \A i \in DOMAIN ledger : KeyOf(ledger[i]) = KeyAt(s, p) <=>
          ledger[i].schedule = s /\ ledger[i].panel = p
    BY DEF KeyOf, KeyAt
  <2>2. KeyAt(s, p) \in Recorded <=> \E i \in DOMAIN ledger : KeyOf(ledger[i]) = KeyAt(s, p)
    BY DEF Recorded
  <2> QED
    BY <2>1, <2>2 DEF RecordsOf
<1>5. schedule = "primary" => RecordsOf(ledger, "contingency") = {}
  <2> SUFFICES ASSUME schedule = "primary", RecordsOf(ledger, "contingency") # {}
               PROVE  FALSE
    OBVIOUS
  <2>1. Panel \in Allowed("primary")
    BY <1>1, <1>3 DEF Allowed
  <2>2. KeyAt("primary", Panel) \in Recorded
    BY <2>1 DEF Readable, KeyAt
  <2> QED
    BY <1>1, <2>2 DEF Key, KeyAt
<1>6. \A b \in Blocks : b \in Triggered(LedgerTriggers) <=>
        \E i \in 1..n : /\ ledger[i].schedule = "primary"
                        /\ ledger[i].status = "infrastructure_invalid"
                        /\ BlockOf[ledger[i].panel] = b
  BY <1>2, TriggersOfLedger DEF Failed, Invalid
<1>7. ASSUME NEW i \in DOMAIN ledger', NEW j \in DOMAIN ledger', i < j
      PROVE  /\ KeyOf(ledger'[i]) # KeyOf(ledger'[j])
             /\ ledger'[i].schedule = "contingency" => ledger'[j].schedule = "contingency"
             /\ ledger'[j].schedule = "primary"
                  /\ ledger'[i].status = "infrastructure_invalid"
                => BlockOf[ledger'[i].panel] # BlockOf[ledger'[j].panel]
  <2>1. i \in 1..n /\ i \in DOMAIN ledger
    BY <1>2, <1>7
  <2>2. CASE j \in 1..n
    BY <1>2, <1>7, <2>1, <2>2 DEF Readable, KeyOf
  <2>3. CASE j = n + 1
    <3>1. KeyOf(ledger'[i]) # Key
      BY <1>1, <1>2, <2>1 DEF Recorded, KeyOf
    <3>2. ledger[i].schedule = "contingency" => schedule = "contingency"
      BY <1>2, <1>5, <2>1 DEF RecordsOf, SessionOK
    <3>3. schedule = "primary" /\ ledger[i].status = "infrastructure_invalid"
            => BlockOf[ledger[i].panel] # BlockOf[Panel]
      BY <1>1, <1>2, <1>3, <1>6, <2>1, <3>2 DEF Records
    <3> QED
      BY <1>2, <2>1, <2>3, <3>1, <3>2, <3>3
  <2> QED
    BY <1>2, <2>2, <2>3
<1>8. ASSUME NEW j \in DOMAIN ledger', ledger'[j].schedule = "contingency"
      PROVE  \E i \in 1..(j - 1) : /\ ledger'[i].schedule = "primary"
                                   /\ ledger'[i].status = "infrastructure_invalid"
                                   /\ BlockOf[ledger'[i].panel] = BlockOf[ledger'[j].panel]
  <2>1. CASE j \in 1..n
    <3>1. PICK i \in 1..(j - 1) : /\ ledger[i].schedule = "primary"
                                  /\ ledger[i].status = "infrastructure_invalid"
                                  /\ BlockOf[ledger[i].panel] = BlockOf[ledger[j].panel]
      BY <1>2, <1>8, <2>1 DEF Readable
    <3> QED
      BY <1>2, <2>1, <3>1
  <2>2. CASE j = n + 1
    <3>1. PICK i \in 1..n : /\ ledger[i].schedule = "primary"
                            /\ ledger[i].status = "infrastructure_invalid"
                            /\ BlockOf[ledger[i].panel] = BlockOf[Panel]
      BY <1>1, <1>2, <1>3, <1>6, <1>8, <2>2
    <3> QED
      BY <1>2, <2>2, <3>1
  <2> QED
    BY <1>2, <2>1, <2>2
<1>9. /\ Triggered(LedgerTriggers) \subseteq Triggered(LedgerTriggers')
      /\ Allowed("primary")' \subseteq Allowed("primary")
      /\ schedule = "contingency" => Allowed("contingency")' = Allowed("contingency")
  <2>1. Triggered(LedgerTriggers) \subseteq Triggered(LedgerTriggers')
    <3>1. \/ LedgerTriggers' = LedgerTriggers
          \/ LedgerTriggers' = [LedgerTriggers EXCEPT ![BlockOf[Panel]] = Panel]
      BY <1>3, AppendTriggers DEF SessionOK
    <3> QED
      BY <1>1, <3>1, TriggersOfLedger DEF Triggered
  <2>2. schedule = "contingency" => LedgerTriggers' = LedgerTriggers
    BY AppendTriggers
  <2>3. Allowed("primary")' \subseteq Allowed("primary")
    BY <1>1, <1>3, <2>1 DEF Allowed, Key
  <2>4. schedule = "contingency" => Allowed("contingency")' = Allowed("contingency")
    BY <1>1, <2>2 DEF Allowed
  <2> QED
    BY <2>1, <2>3, <2>4
<1>10. ASSUME NEW s \in Schedules, NEW i \in RecordsOf(ledger, s)
       PROVE  /\ i \in 1..n /\ ledger'[i] = ledger[i] /\ ledger[i].panel \in Panels
              /\ ledger[i].panel \in Allowed(s)'
  <2>1. i \in 1..n /\ ledger[i].panel \in Panels /\ KeyAt(s, ledger[i].panel) \in Recorded
    BY <1>2, <1>4 DEF RecordsOf, Records
  <2>2. s = "primary" => ledger[i].panel \in Allowed(s)'
    BY <1>1, <2>1 DEF Allowed, KeyAt
  <2>3. s = "contingency" => ledger[i].panel \in Allowed(s)
    BY DEF Readable, IsPrefix
  <2>4. s = "contingency" => schedule = "contingency"
    BY <1>5 DEF SessionOK
  <2> QED
    BY <1>2, <1>9, <2>1, <2>2, <2>3, <2>4
<1>11. \A s \in Schedules :
         RecordsOf(ledger', s) = RecordsOf(ledger, s) \cup
                                   (IF s = schedule THEN {n + 1} ELSE {})
  BY <1>2 DEF RecordsOf
<1>12. /\ chronology[schedule] \in Orders
       /\ position \in DOMAIN chronology[schedule]
       /\ Place(chronology[schedule], Panel) = position
  <2>1. chronology[schedule] \in Orders
    BY DEF ManifestOK, SessionOK, Chronologies
  <2>2. position \in DOMAIN chronology[schedule]
    BY <1>1 DEF PlaceInv, ToRun
  <2> QED
    BY <2>1, <2>2, PlaceOf DEF Panel
<1>13. ASSUME NEW p \in Allowed(schedule)',
              Place(chronology[schedule], p) < position
       PROVE  KeyAt(schedule, p) \in Recorded
  <2>1. p \in Panels /\ p # Panel
    BY <1>12, <1>13, PlaceOf DEF Allowed, SessionOK
  <2>2. KeyAt(schedule, p) \in Recorded \/ BlockOf[p] \notin active
    BY <1>1, <1>12, <1>13, <2>1, PlaceOf DEF PassedInv, LoadedPcs
  <2>3. active = IF schedule = "primary" THEN Blocks \ Triggered(LedgerTriggers)
                 ELSE Triggered(LedgerTriggers)
    BY <1>1 DEF TriggerInv, LoadedPcs
  <2>4. CASE schedule = "primary"
    <3>1. BlockOf[p] \notin Triggered(LedgerTriggers') \/ KeyAt(schedule, p) \in Recorded'
      BY <1>1, <1>13, <2>4 DEF Allowed, KeyAt
    <3> QED
      BY <1>1, <1>9, <2>1, <2>2, <2>3, <2>4, <3>1 DEF Key, KeyAt
  <2>5. CASE schedule = "contingency"
    <3>1. BlockOf[p] \in Triggered(LedgerTriggers')
      BY <1>1, <1>13, <2>5 DEF Allowed, Triggered
    <3>2. LedgerTriggers' = LedgerTriggers
      BY <2>5, AppendTriggers
    <3> QED
      BY <2>2, <2>3, <2>5, <3>1, <3>2
  <2> QED
    BY <2>4, <2>5 DEF SessionOK
<1>14. ASSUME NEW i \in RecordsOf(ledger, schedule)
       PROVE  Place(chronology[schedule], ledger[i].panel) < position
  <2> DEFINE k == Place(chronology[schedule], ledger[i].panel)
  <2>1. ledger[i].panel \in Panels /\ ledger[i].panel # Panel
    BY <1>1, <1>4, <1>10 DEF Key, KeyAt, SessionOK
  <2>2. k \in DOMAIN chronology[schedule] /\ k # position
    BY <1>12, <2>1, PlaceOf DEF Panel
  <2>3. ~(position < k)
    <3>1. Panel \in Allowed(schedule)
      BY <1>1, <1>3 DEF Allowed, SessionOK
    <3>2. position < k => \E j \in RecordsOf(ledger, schedule) : ledger[j].panel = Panel
      BY <1>12, <3>1 DEF Readable, IsPrefix, SessionOK
    <3> QED
      BY <1>1, <1>4, <3>2 DEF Key, KeyAt, SessionOK
  <2> QED
    BY <1>12, <2>2, <2>3, PlaceOf
<1>15. ASSUME NEW s \in Schedules, s = schedule
       PROVE  IsPrefix(ledger', s, chronology[s], Allowed(s)')
  <2>1. Panel \in Allowed(s)' /\ Allowed(s)' = Allowed(schedule)'
    BY <1>1, <1>3, <1>9, <1>15 DEF Allowed, Key
  <2>2. ASSUME NEW i \in RecordsOf(ledger', s)
        PROVE  /\ ledger'[i].panel \in Allowed(s)'
               /\ \/ i \in RecordsOf(ledger, s) /\ ledger'[i] = ledger[i]
                  \/ i = n + 1 /\ ledger'[i].panel = Panel
    BY <1>2, <1>10, <1>11, <2>1, <2>2
  <2>3. ASSUME NEW i \in RecordsOf(ledger', s), NEW j \in RecordsOf(ledger', s), i < j
        PROVE  Place(chronology[s], ledger'[i].panel) < Place(chronology[s], ledger'[j].panel)
    <3>1. i \in 1..n /\ i \in RecordsOf(ledger, s) /\ ledger'[i] = ledger[i]
      BY <1>2, <1>10, <2>2, <2>3
    <3>2. CASE j = n + 1
      BY <1>2, <1>12, <1>14, <1>15, <3>1, <3>2
    <3>3. CASE j \in RecordsOf(ledger, s)
      BY <1>10, <2>3, <3>1, <3>3 DEF Readable, IsPrefix
    <3> QED
      BY <2>2, <3>2, <3>3
  <2>4. ASSUME NEW j \in RecordsOf(ledger', s), NEW p \in Allowed(s)',
               Place(chronology[s], p) < Place(chronology[s], ledger'[j].panel)
        PROVE  \E i \in RecordsOf(ledger', s) : ledger'[i].panel = p
    <3>1. p \in Panels
      BY DEF Allowed
    <3>2. KeyAt(s, p) \in Recorded
      <4>1. CASE j = n + 1
        BY <1>2, <1>12, <1>13, <1>15, <2>1, <2>4, <4>1
      <4>2. CASE j \in RecordsOf(ledger, s) /\ ledger'[j] = ledger[j]
        <5>1. p \in Allowed(s)
          BY <1>9, <1>15, <2>1, <2>4
        <5> QED
          BY <1>4, <2>4, <3>1, <4>2, <5>1 DEF Readable, IsPrefix
      <4> QED
        BY <2>2, <4>1, <4>2
    <3>3. PICK i \in RecordsOf(ledger, s) : ledger[i].panel = p
      BY <1>4, <3>1, <3>2
    <3> QED
      BY <1>10, <1>11, <3>3
  <2> QED
    BY <2>2, <2>3, <2>4 DEF IsPrefix
<1>16. ASSUME NEW s \in Schedules, s # schedule
       PROVE  IsPrefix(ledger', s, chronology[s], Allowed(s)')
  <2>1. RecordsOf(ledger', s) = RecordsOf(ledger, s)
    BY <1>11, <1>16
  <2>2. CASE schedule = "primary"
    <3>1. RecordsOf(ledger', s) = {}
      BY <1>5, <1>16, <2>1, <2>2
    <3> QED
      BY <3>1 DEF IsPrefix
  <2>3. CASE s = "primary"
    <3>1. \A i \in RecordsOf(ledger, s) :
            ledger'[i] = ledger[i] /\ ledger[i].panel \in Allowed(s)'
      BY <1>10
    <3>2. Allowed(s)' \subseteq Allowed(s)
      BY <1>9, <2>3
    <3>3. IsPrefix(ledger, s, chronology[s], Allowed(s))
      BY DEF Readable
    <3> QED
      BY <2>1, <3>1, <3>2, <3>3 DEF IsPrefix
  <2> QED
    BY <1>16, <2>2, <2>3 DEF SessionOK
<1>17. ASSUME RecordsOf(ledger', "contingency") # {}, NEW p \in Allowed("primary")'
       PROVE  KeyAt("primary", p) \in Recorded'
  <2>1. schedule = "contingency"
    BY <1>5, <1>11, <1>17 DEF SessionOK
  <2>2. p \in Panels /\ p \in Allowed("primary")
    BY <1>9, <1>17 DEF Allowed
  <2>3. triggers = LedgerTriggers
    BY <1>1 DEF TriggerInv, LoadedPcs
  <2>4. KeyAt("primary", p) \in Recorded \/ BlockOf[p] \in Triggered(triggers)
    BY <1>1, <2>1, <2>2 DEF PassedInv, LoadedPcs
  <2> QED
    BY <1>1, <2>2, <2>3, <2>4 DEF Allowed, KeyAt
<1> QED
  BY <1>1, <1>7, <1>8, <1>15, <1>16, <1>17 DEF Readable, KeyAt, KeyOf

\* The ledger stays readable.
LEMMA ReadableKept ==
  ASSUME TypeOK, PlaceInv, RevisionInv, TriggerInv, PassedInv, Readable, [Next]_vars
  PROVE  Readable'
<1>1. UNCHANGED chronology
  BY StepKinds DEF TypeOK
<1>2. CASE UNCHANGED ledger
  <2>1. Recorded' = Recorded /\ LedgerTriggers' = LedgerTriggers
    BY <1>2, LedgerView
  <2>2. \A s : Allowed(s)' = Allowed(s)
    BY <2>1 DEF Allowed, Triggered
  <2> QED
    BY <1>1, <1>2, <2>1, <2>2 DEF Readable, KeyOf
<1>3. CASE AppendRecord
  BY <1>3, ReadableAppended
<1>4. UNCHANGED ledger \/ AppendRecord
  <2>1. \/ pc' \notin LoadedPcs /\ UNCHANGED <<ledger, receipt, safe>>
        \/ UNCHANGED <<ledger, receipt, safe, schedule, position, active, triggers>>
        \/ LoadState \/ SkipPanel \/ StartPanel \/ EndSchedule \/ AppendRecord
        \/ UnlinkMarker \/ WriteReceipt \/ WriteExport
    BY StepKinds DEF TypeOK
  <2> QED
    BY <2>1 DEF LoadState, SkipPanel, StartPanel, EndSchedule, UnlinkMarker,
                WriteReceipt, WriteExport, files
<1> QED
  BY <1>2, <1>3, <1>4

-----------------------------------------------------------------------------

LEMMA InitResume ==
  ASSUME Init
  PROVE  ResumeInv
<1>1. /\ DOMAIN ledger = {} /\ pc = "idle" /\ receipt = NoReceipt /\ safe = {}
  BY DEF Init
<1>2. \A s : RecordsOf(ledger, s) = {}
  BY <1>1 DEF RecordsOf
<1>3. Readable
  BY <1>1, <1>2 DEF Readable, IsPrefix
<1> QED
  BY <1>1, <1>3 DEF ResumeInv, TriggerInv, PassedInv, ReceiptInv, LoadedPcs

\* What a session remembers, what it has passed and what it publishes is told
\* by the ledger, which every later session accepts.
THEOREM ResumeInvariance == Spec => []ResumeInv
<1>1. ASSUME IInv, ResumeInv, [Next]_vars PROVE ResumeInv'
  BY <1>1, TriggersKept, PassedKept, ReceiptKept, ReadableKept
  DEF IInv, RunInv, ResumeInv
<1> QED
  BY <1>1, InitResume, Invariance, PTL DEF Spec

\* A session accepts whatever ledger earlier sessions have left, wherever they
\* ended (run_stage_b and _existing_raw_state agree).
THEOREM LedgerStaysReadable == Spec => []LedgerReadable
<1>1. ResumeInv => LedgerReadable
  BY DEF ResumeInv, LedgerReadable
<1> QED
  BY <1>1, ResumeInvariance, PTL

\* No attempt is started and no record is made once a receipt is there: it
\* stays true (the receipt is written when no panel is left).
THEOREM ReceiptIsFinal == Spec => NothingAfterReceipt
<1>1. ASSUME IInv, ResumeInv, [Next]_vars, receipt # NoReceipt
      PROVE  UNCHANGED <<ledger, runs>>
  <2>1. pc \notin PanelPcs
    BY <1>1 DEF ResumeInv, ReceiptInv
  <2> QED
    BY <1>1, <2>1, LedgerStep DEF IInv, TypeOK
<1>2. ASSUME IInv, ResumeInv, UNCHANGED vars
      PROVE  [receipt # NoReceipt => UNCHANGED <<ledger, runs>>]_vars
  BY <1>2
<1> QED
  BY <1>1, Invariance, ResumeInvariance, PTL DEF Spec, NothingAfterReceipt

-----------------------------------------------------------------------------
(* Refinement.                                                             *)

\* An export shows of every block the schedule the receipt selects.
LEMMA SelectedShown ==
  safe = Selected => \A b \in Blocks : Published[b] = SelectedSchedule(b)
<1> SUFFICES ASSUME safe = Selected, NEW b \in Blocks
             PROVE  Published[b] = SelectedSchedule(b)
  OBVIOUS
<1> DEFINE rows == {a \in safe : BlockOf[a.panel] = b}
<1>1. PICK p \in Panels : BlockOf[p] = b
  OBVIOUS
<1>2. SelectedSchedule(b) \in Schedules
  BY DEF SelectedSchedule
<1>3. rows = AttemptsOf(b, SelectedSchedule(b))
  BY DEF Selected, AttemptsOf
<1>4. AttemptAt(SelectedSchedule(b), p, 1) \in rows
  BY <1>1, <1>2, <1>3 DEF AttemptsOf, AttemptAt, Attempts
<1>5. \A s \in Schedules : rows = AttemptsOf(b, s) => s = SelectedSchedule(b)
  BY <1>4 DEF AttemptsOf, AttemptAt
<1>6. safe # {}
  BY <1>4
<1>7. Published[b] = CHOOSE s \in Schedules : rows = AttemptsOf(b, s)
  BY <1>2, <1>3, <1>6 DEF Published
<1> QED
  BY <1>2, <1>3, <1>5, <1>7

\* Blocks, receipts and exports of the ledger behave as the run policy
\* promises: every step is one of the policy, or changes nothing it speaks of.
THEOREM Refinement == Spec => ImplementsOneReplacement
<1>1. Init => Promise!Init
  <2> SUFFICES ASSUME Init PROVE Promise!Init
    OBVIOUS
  <2>1. DOMAIN ledger = {} /\ safe = {}
    BY DEF Init
  <2> QED
    BY <2>1 DEF Promise!Init, Promise!NothingPublished, BlockStatus, Published, Invalid
<1>2. (safe = Selected => \A b \in Blocks : Published[b] = SelectedSchedule(b))'
  BY SelectedShown, PTL
<1>3. ASSUME IInv, ResumeInv, [Next]_vars
      PROVE  [Promise!Next]_Promise!rvars
  <2> USE DEF Promise!rvars, Promise!Next
  <2>1. CASE UNCHANGED <<ledger, safe>>
    BY <2>1, LedgerView DEF BlockStatus, Published
  <2>2. CASE AppendRecord
    <3> DEFINE b == BlockOf[Panel]
    <3>1. pc = "append" /\ ~Failing /\ UNCHANGED safe
      BY <2>2 DEF AppendRecord, Failing
    <3>2. safe = {} /\ Invalid("contingency") = {}
      BY <1>3, <3>1 DEF ResumeInv, ReceiptInv, TriggerInv, LoadedPcs
    <3>3. Published = Promise!NothingPublished /\ Published' = Published
      BY <3>1, <3>2 DEF Published, Promise!NothingPublished
    <3>4. /\ Panel \in Panels /\ b \in Blocks
          /\ IF schedule = "primary" THEN Failed(b) = {} ELSE Failed(b) # {}
      BY <1>3, <3>1, PanelAtHand, TriggersOfLedger
      DEF IInv, RunInv, ResumeInv, TypeOK
    <3>5. \A s \in Schedules :
            Invalid(s)' = Invalid(s) \cup
                (IF schedule = s /\ pending = "infrastructure_invalid"
                 THEN {Panel} ELSE {})
      BY <1>3, <2>2, AppendType DEF IInv, RunInv
    <3>6. CASE pending # "infrastructure_invalid"
      <4>1. /\ Invalid("primary")' = Invalid("primary")
            /\ Invalid("contingency")' = Invalid("contingency")
        BY <3>5, <3>6
      <4> QED
        BY <3>3, <4>1 DEF BlockStatus
    <3>7. CASE schedule = "primary" /\ pending = "infrastructure_invalid"
      <4>1. /\ Invalid("primary")' = Invalid("primary") \cup {Panel}
            /\ Invalid("contingency")' = {}
        BY <3>2, <3>5, <3>7
      <4>2. BlockStatus[b] = "open"
        BY <3>2, <3>4, <3>7 DEF BlockStatus, Failed
      <4>3. BlockStatus' = [BlockStatus EXCEPT ![b] = "replaced"]
        BY <3>2, <3>4, <4>1 DEF BlockStatus
      <4> QED
        BY <3>3, <3>4, <4>2, <4>3 DEF Promise!Replace
    <3>8. CASE schedule = "contingency" /\ pending = "infrastructure_invalid"
      <4>1. /\ Invalid("primary")' = Invalid("primary")
            /\ Invalid("contingency")' = {Panel}
        BY <3>2, <3>5, <3>8
      <4>2. BlockStatus[b] = "replaced"
        BY <3>2, <3>4, <3>8 DEF BlockStatus, Failed
      <4>3. BlockStatus' = [BlockStatus EXCEPT ![b] = "lost"]
        BY <3>2, <3>4, <4>1 DEF BlockStatus
      <4> QED
        BY <3>3, <3>4, <4>2, <4>3 DEF Promise!Lose
    <3> QED
      BY <1>3, <3>6, <3>7, <3>8 DEF IInv, TypeOK, SessionOK
  <2>3. CASE WriteExport /\ pc' = "export_receipt"
    <3>1. /\ pc = "export" /\ safe \in {{}, Selected} /\ safe' = Selected
          /\ UNCHANGED <<ledger, receipt>>
      BY <2>3 DEF WriteExport, EndSession
    <3>2. receipt = LedgerTriggers /\ Invalid("contingency") = {}
      BY <1>3, <3>1 DEF ResumeInv, ReceiptInv, Complete
    <3>3. BlockStatus' = BlockStatus
      BY <3>1, LedgerView DEF BlockStatus
    <3>4. CASE safe = Selected
      BY <3>1, <3>3, <3>4 DEF Published
    <3>5. CASE safe = {}
      <4>1. Published = Promise!NothingPublished
        BY <3>5 DEF Published, Promise!NothingPublished
      <4>2. ASSUME NEW b \in Blocks
            PROVE  /\ BlockStatus[b] = IF receipt[b] = NoPanel THEN "open" ELSE "replaced"
                   /\ Published'[b] = SelectedSchedule(b)
        <5>1. receipt[b] # NoPanel <=> Failed(b) # {}
          BY <1>3, <3>2, TriggersOfLedger DEF IInv, TypeOK, Triggered
        <5>2. Selected' = Selected /\ SelectedSchedule(b)' = SelectedSchedule(b)
          BY <3>1 DEF Selected, SelectedSchedule
        <5>3. Published'[b] = SelectedSchedule(b)'
          BY <1>2, <3>1, <5>2
        <5> QED
          BY <3>1, <3>2, <5>1, <5>2, <5>3 DEF BlockStatus, Failed
      <4>3. Published' = [b \in Blocks |-> IF BlockStatus[b] = "open" THEN "primary"
                                           ELSE "contingency"]
        BY <4>2 DEF Published, SelectedSchedule
      <4>4. \A b \in Blocks : BlockStatus[b] # "lost"
        BY <4>2
      <4> QED
        BY <3>3, <4>1, <4>3, <4>4 DEF Promise!Publish
    <3> QED
      BY <3>1, <3>4, <3>5
  <2>4. \/ UNCHANGED <<ledger, safe>> \/ AppendRecord
        \/ (WriteExport /\ pc' = "export_receipt")
    <3>1. \/ UNCHANGED <<ledger, safe>>
          \/ LoadState \/ SkipPanel \/ StartPanel \/ EndSchedule \/ AppendRecord
          \/ UnlinkMarker \/ WriteReceipt \/ (WriteExport /\ pc' = "export_receipt")
      BY <1>3, StepKinds DEF IInv, TypeOK
    <3> QED
      BY <3>1 DEF LoadState, SkipPanel, StartPanel, EndSchedule, UnlinkMarker,
                  WriteReceipt, files
  <2> QED
    BY <2>1, <2>2, <2>3, <2>4
<1> QED
  BY <1>1, <1>3, Invariance, ResumeInvariance, PTL DEF Spec, ImplementsOneReplacement,
     Promise!Spec

-----------------------------------------------------------------------------
(* The length of a session.                                                *)

\* From the marker of a panel to its removal, with four steps for each arm.
PanelSteps == 4 * Arms + 5

Work(panels) == panels * PanelSteps
Manifest == Cardinality(Panels)
ToDo == Manifest + 1 - position

\* The steps of the panel at hand that are done.
Passed ==
  CASE pc = "generate" -> 1
    [] pc = "prepare" -> 4 * arm - 2
    [] pc = "pi" -> 4 * arm - 1
    [] pc = "record" -> 4 * arm
    [] pc = "verify" -> 4 * arm + 1
    [] pc = "classify" -> 4 * Arms + 2
    [] pc = "append" -> 4 * Arms + 3
    [] pc = "unlink" -> 4 * Arms + 4
    [] OTHER -> 0

\* The longest way to the end of the session: the rest of this schedule, all of
\* the contingency schedule if it is still to come, and the receipts.
Left ==
  CASE pc = "idle" -> 0
    [] pc = "export_receipt" -> 1
    [] pc = "export" -> 2
    [] pc = "receipt" -> 3
    [] pc = "load" -> 2 * Work(Manifest) + 6
    [] pc = "preflight" -> 2 * Work(Manifest) + 7
    [] OTHER -> Work(ToDo) - Passed
                  + (IF schedule = "primary" THEN Work(Manifest) + 5 ELSE 4)

\* While a session runs, every step, of whatever kind, brings it nearer to its
\* end.
StepsDescend == [][pc # "idle" => Left' < Left]_vars

\* A session has at most this many steps, and none are left only when it is over.
SessionIsBounded ==
  /\ Left \in 0 .. (2 * (Cardinality(Panels) * (4 * Arms + 5)) + 7)
  /\ Left = 0 <=> pc = "idle"

\* A schedule is never left behind by more than its last panel.
PositionInv == position <= Manifest + 1

LEMMA ManifestSize == Manifest \in Nat
  BY FS_CardinalityType DEF Manifest

\* One panel less is the steps of one panel less.
LEMMA WorkOfPanel ==
  /\ PanelSteps \in Nat /\ PanelSteps = 4 * Arms + 5
  /\ \A k \in Nat : Work(k) \in Nat /\ Work(k + 1) = Work(k) + PanelSteps
BY DEF Work, PanelSteps

LEMMA WorkBounded == ASSUME NEW k \in Nat, NEW m \in Nat, k <= m
                     PROVE  Work(k) <= Work(m)
<1>1. PanelSteps \in Nat
  BY WorkOfPanel
<1>2. PICK d \in Nat : m = k + d
  BY m - k \in Nat
<1>3. (k + d) * PanelSteps = k * PanelSteps + d * PanelSteps /\ d * PanelSteps \in Nat
  BY <1>1
<1>4. k * PanelSteps \in Nat
  BY <1>1
<1> QED BY <1>2, <1>3, <1>4 DEF Work

\* At a panel there is work for it, and for those after it.
LEMMA AtPanel ==
  ASSUME ManifestOK, SessionOK, ToRun
  PROVE  /\ ToDo \in 1 .. Manifest
         /\ ToDo - 1 \in Nat /\ Work(ToDo - 1) \in Nat
         /\ Work(ToDo) = Work(ToDo - 1) + PanelSteps
<1>1. DOMAIN chronology[schedule] = 1..Manifest
  BY DEF ManifestOK, SessionOK, Chronologies, Orders, Manifest
<1>2. ToDo \in 1 .. Manifest /\ ToDo - 1 \in Nat
  BY <1>1, ManifestSize DEF ToRun, SessionOK, ToDo
<1>3. Work((ToDo - 1) + 1) = Work(ToDo - 1) + PanelSteps /\ Work(ToDo - 1) \in Nat
  BY <1>2, WorkOfPanel
<1>4. (ToDo - 1) + 1 = ToDo
  BY <1>2
<1> QED BY <1>2, <1>3, <1>4

LEMMA LeftAt ==
  /\ pc = "idle" => Left = 0
  /\ pc = "export_receipt" => Left = 1
  /\ pc = "export" => Left = 2
  /\ pc = "receipt" => Left = 3
  /\ pc = "load" => Left = 2 * Work(Manifest) + 6
  /\ pc = "preflight" => Left = 2 * Work(Manifest) + 7
  /\ pc \in PanelPcs \cup {"panel"} =>
       Left = Work(ToDo) - Passed + (IF schedule = "primary" THEN Work(Manifest) + 5 ELSE 4)
BY DEF Left

LEMMA PassedAt ==
  /\ pc = "panel" => Passed = 0
  /\ pc = "generate" => Passed = 1
  /\ pc = "prepare" => Passed = 4 * arm - 2
  /\ pc = "pi" => Passed = 4 * arm - 1
  /\ pc = "record" => Passed = 4 * arm
  /\ pc = "verify" => Passed = 4 * arm + 1
  /\ pc = "classify" => Passed = 4 * Arms + 2
  /\ pc = "append" => Passed = 4 * Arms + 3
  /\ pc = "unlink" => Passed = 4 * Arms + 4
BY DEF Passed

LEMMA PassedBounded == ASSUME SessionOK, pc \in PanelPcs
                       PROVE  Passed \in 1 .. (PanelSteps - 1)
BY PassedAt DEF SessionOK, PanelSteps

LEMMA LeftBounded == ASSUME ManifestOK, SessionOK, PlaceInv, PositionInv
                     PROVE  /\ Left \in 0 .. (2 * Work(Manifest) + 7)
                            /\ Left = 0 <=> pc = "idle"
<1>1. Work(Manifest) \in Nat
  BY ManifestSize, WorkOfPanel
<1>2. CASE pc \in PanelPcs
  <2>1. ToRun
    BY <1>2 DEF PlaceInv
  <2>2. Work(ToDo) <= Work(Manifest)
    BY <2>1, AtPanel, ManifestSize, WorkBounded
  <2> QED BY <1>1, <1>2, <2>1, <2>2, AtPanel, PassedBounded, LeftAt, WorkOfPanel
<1>3. CASE pc = "panel"
  <2>1. ToDo \in 0 .. Manifest
    BY ManifestSize DEF PositionInv, SessionOK, ToDo
  <2>2. Work(ToDo) \in Nat /\ Work(ToDo) <= Work(Manifest)
    BY <2>1, ManifestSize, WorkBounded, WorkOfPanel
  <2> QED BY <1>1, <1>3, <2>2, LeftAt, PassedAt
<1>4. CASE pc \notin PanelPcs \cup {"panel"}
  BY <1>1, <1>4, LeftAt DEF SessionOK
<1> QED BY <1>2, <1>3, <1>4

\* What the steps of a running session do to its place.
LEMMA RunningSteps ==
  ASSUME SessionOK, PlaceInv, pc # "idle", Next
  PROVE  \/ EndSession
         \/ /\ UNCHANGED <<chronology, schedule, position>>
            /\ \/ pc = "preflight" /\ pc' = "load"
               \/ pc = "panel" /\ ToRun /\ pc' = "generate"
               \/ pc = "panel" /\ ~ToRun /\ pc' = "receipt"
               \/ pc = "generate" /\ pc' \in {"prepare", "append"} /\ arm = 1 /\ arm' = 1
               \/ pc = "prepare" /\ pc' \in {"pi", "append"} /\ arm' = arm
               \/ pc = "pi" /\ pc' \in {"record", "append"} /\ arm' = arm
               \/ pc = "record" /\ pc' \in {"verify", "append"} /\ arm' = arm
               \/ pc = "verify" /\ pc' \in {"classify", "append"} /\ arm' = arm
               \/ pc = "verify" /\ pc' = "prepare" /\ arm' = arm + 1
               \/ pc = "classify" /\ pc' = "append"
               \/ pc = "append" /\ pc' = "unlink"
               \/ pc = "receipt" /\ pc' = "export"
               \/ pc = "export" /\ pc' = "export_receipt"
         \/ pc = "load" /\ pc' = "panel" /\ schedule' = "primary" /\ position' = 1
         \/ /\ UNCHANGED <<chronology, schedule>>
            /\ ToRun /\ pc \in {"panel", "unlink"} /\ pc' = "panel"
            /\ position' = position + 1
         \/ /\ pc = "panel" /\ pc' = "panel" /\ ~ToRun
            /\ schedule = "primary" /\ schedule' = "contingency" /\ position' = 1
<1> USE DEF PlaceInv, manifest, memory, Goto, Replaceable, Proceed
<1>1. CASE CheckPreflight BY <1>1 DEF CheckPreflight
<1>2. CASE LoadState BY <1>2 DEF LoadState
<1>3. CASE SkipPanel BY <1>3 DEF SkipPanel
<1>4. CASE StartPanel BY <1>4 DEF StartPanel
<1>5. CASE EndSchedule BY <1>5 DEF EndSchedule
<1>6. CASE GenerateTask BY <1>6 DEF GenerateTask
<1>7. CASE PrepareAttempt BY <1>7 DEF PrepareAttempt
<1>8. CASE RunPi BY <1>8 DEF RunPi
<1>9. CASE RecordEvents BY <1>9 DEF RecordEvents
<1>10. CASE VerifyAttempt BY <1>10 DEF VerifyAttempt
<1>11. CASE ClassifyResult BY <1>11 DEF ClassifyResult
<1>12. CASE AppendRecord BY <1>12 DEF AppendRecord
<1>13. CASE UnlinkMarker BY <1>13 DEF UnlinkMarker
<1>14. CASE WriteReceipt BY <1>14 DEF WriteReceipt
<1>15. CASE WriteExport BY <1>15 DEF WriteExport
<1>16. CASE WriteExportReceipt BY <1>16 DEF WriteExportReceipt
<1>17. CASE Crash BY <1>17 DEF Crash
<1>18. CASE StartSession \/ Adjudicate \/ ChangeRevision
  BY <1>18 DEF StartSession, Adjudicate, ChangeRevision
<1> QED
  BY <1>1, <1>2, <1>3, <1>4, <1>5, <1>6, <1>7, <1>8, <1>9, <1>10, <1>11, <1>12,
     <1>13, <1>14, <1>15, <1>16, <1>17, <1>18
  DEF Next, Session

\* A step within a panel.
LEMMA PanelDescends ==
  ASSUME ManifestOK, SessionOK, SessionOK', ToRun,
         UNCHANGED <<chronology, schedule, position>>,
         pc \in PanelPcs \cup {"panel"}, pc' \in PanelPcs, Passed' > Passed
  PROVE  Left' < Left
<1>1. Work(Manifest) \in Nat
  BY ManifestSize, WorkOfPanel
<1>2. Passed \in Int /\ Passed' \in Int
  <2>1. arm \in Int /\ arm' \in Int /\ Arms \in Int
    BY DEF SessionOK
  <2> QED BY <2>1 DEF Passed
<1>3. Left' = Work(ToDo) - Passed' + (IF schedule = "primary" THEN Work(Manifest) + 5 ELSE 4)
  BY DEF Left, ToDo
<1>4. Work(ToDo) \in Int
  BY AtPanel, WorkOfPanel
<1> QED BY <1>1, <1>2, <1>3, <1>4, LeftAt

LEMMA SessionDescends ==
  ASSUME ManifestOK, SessionOK, SessionOK', PlaceInv, PositionInv, pc # "idle", Next
  PROVE  Left' < Left /\ PositionInv'
<1>1. /\ Work(Manifest) \in Nat /\ Manifest \in Nat
      /\ Left \in Nat /\ Left > 0
  BY ManifestSize, WorkOfPanel, LeftBounded
<1>2. CASE EndSession
  <2>1. Left' = 0 /\ position' = 1
    BY <1>2 DEF EndSession, Left
  <2> QED BY <1>1, <2>1 DEF PositionInv
<1>3. CASE /\ UNCHANGED <<chronology, schedule, position>>
           /\ pc \in PanelPcs \/ (pc = "panel" /\ ToRun)
           /\ pc' \in PanelPcs
  <2>1. ToRun
    BY <1>3 DEF PlaceInv
  <2>2. arm \in 1 .. Arms /\ arm' \in 1 .. Arms /\ Arms \in Nat
    BY DEF SessionOK
  <2>3. Passed' > Passed
    <3>1. \/ pc = "panel" /\ pc' = "generate"
          \/ pc = "generate" /\ pc' \in {"prepare", "append"} /\ arm = 1 /\ arm' = 1
          \/ pc = "prepare" /\ pc' \in {"pi", "append"} /\ arm' = arm
          \/ pc = "pi" /\ pc' \in {"record", "append"} /\ arm' = arm
          \/ pc = "record" /\ pc' \in {"verify", "append"} /\ arm' = arm
          \/ pc = "verify" /\ pc' \in {"classify", "append"} /\ arm' = arm
          \/ pc = "verify" /\ pc' = "prepare" /\ arm' = arm + 1
          \/ pc = "classify" /\ pc' = "append"
          \/ pc = "append" /\ pc' = "unlink"
      BY <1>3, RunningSteps DEF EndSession
    <3> QED BY <2>2, <3>1 DEF Passed
  <2> QED BY <1>3, <2>1, <2>3, PanelDescends DEF PositionInv
<1>4. CASE /\ UNCHANGED <<chronology, schedule>>
           /\ ToRun /\ pc \in {"panel", "unlink"} /\ pc' = "panel"
           /\ position' = position + 1
  <2>1. ToDo' = ToDo - 1 /\ PositionInv'
    BY <1>1, <1>4, AtPanel DEF ToDo, PositionInv, SessionOK, Manifest
  <2>2. Left' = Work(ToDo - 1) + (IF schedule = "primary" THEN Work(Manifest) + 5 ELSE 4)
    BY <1>1, <1>4, <2>1, AtPanel DEF Left, Passed, Work, PanelSteps
  <2>3. Passed \in 0 .. (PanelSteps - 1)
    BY <1>4, PassedAt, WorkOfPanel
  <2> QED BY <1>1, <1>4, <2>1, <2>2, <2>3, AtPanel, LeftAt, WorkOfPanel
<1>5. CASE /\ pc = "panel" /\ ~ToRun
           /\ \/ schedule = "primary" /\ schedule' = "contingency" /\ position' = 1
                   /\ pc' = "panel"
              \/ UNCHANGED position /\ pc' = "receipt"
  <2>1. Work(ToDo) \in Nat
    <3>1. ToDo \in Nat
      BY <1>1 DEF ToDo, PositionInv, SessionOK
    <3> QED BY <3>1, WorkOfPanel
  <2>2. CASE pc' = "receipt"
    BY <1>1, <1>5, <2>1, <2>2, LeftAt, PassedAt DEF Left, PositionInv
  <2>3. CASE pc' = "panel"
    <3>1. ToDo' = Manifest
      BY <1>1, <1>5, <2>3 DEF ToDo
    <3>2. Left' = Work(Manifest) + 4
      BY <1>1, <1>5, <2>3, <3>1 DEF Left, Passed, Work, PanelSteps
    <3> QED BY <1>1, <1>5, <2>1, <2>3, <3>2, LeftAt, PassedAt DEF PositionInv
  <2> QED BY <1>5, <2>2, <2>3
<1>6. CASE pc = "load" /\ pc' = "panel" /\ schedule' = "primary" /\ position' = 1
  <2>1. ToDo' = Manifest
    BY <1>1, <1>6 DEF ToDo
  <2>2. Left' = 2 * Work(Manifest) + 5
    BY <1>1, <1>6, <2>1 DEF Left, Passed, Work, PanelSteps
  <2> QED BY <1>1, <1>6, <2>2, LeftAt DEF PositionInv
<1>7. CASE /\ UNCHANGED position
           /\ \/ pc = "preflight" /\ pc' = "load"
              \/ pc = "receipt" /\ pc' = "export"
              \/ pc = "export" /\ pc' = "export_receipt"
  <2>1. /\ pc' = "load" => Left' = 2 * Work(Manifest) + 6
        /\ pc' = "export" => Left' = 2
        /\ pc' = "export_receipt" => Left' = 1
    BY DEF Left
  <2> QED BY <1>1, <1>7, <2>1, LeftAt DEF PositionInv
<1> QED BY <1>2, <1>3, <1>4, <1>5, <1>6, <1>7, RunningSteps

\* A session ends after a bounded number of steps, whatever fails and wherever
\* it dies: it passes each panel of each schedule once, and no panel sends it
\* back (execute_schedule, _run_policy_set).
THEOREM SessionsEndInBound == Spec => []SessionIsBounded /\ StepsDescend
<1>1. Init => PositionInv
  BY ManifestSize DEF Init, PositionInv
<1>2. IInv /\ IInv' /\ PositionInv /\ [Next]_vars =>
        /\ PositionInv'
        /\ [pc # "idle" => Left' < Left]_vars
  <2> SUFFICES ASSUME IInv, IInv', PositionInv, [Next]_vars
               PROVE  /\ PositionInv'
                      /\ [pc # "idle" => Left' < Left]_vars
    OBVIOUS
  <2>1. CASE UNCHANGED vars
    BY <2>1 DEF vars, memory, PositionInv
  <2>2. CASE Next /\ pc # "idle"
    BY <2>2, SessionDescends DEF IInv, TypeOK, RunInv
  <2>3. CASE Next /\ pc = "idle"
    <3>1. position' = position
      BY <2>3 DEF Next, StartSession, Adjudicate, ChangeRevision, Crash, Session,
         CheckPreflight, LoadState, SkipPanel, StartPanel, EndSchedule, GenerateTask,
         PrepareAttempt, RunPi, RecordEvents, VerifyAttempt, ClassifyResult,
         AppendRecord, UnlinkMarker, WriteReceipt, WriteExport, WriteExportReceipt,
         Goto, memory
    <3> QED BY <2>3, <3>1 DEF PositionInv
  <2> QED BY <2>1, <2>2, <2>3
<1>3. IInv /\ PositionInv => SessionIsBounded
  <2>1. Work(Manifest) = Cardinality(Panels) * (4 * Arms + 5)
    BY DEF Work, Manifest, PanelSteps
  <2> QED BY <2>1, LeftBounded DEF IInv, TypeOK, RunInv, SessionIsBounded
<1> QED BY <1>1, <1>2, <1>3, Invariance, PTL DEF Spec, StepsDescend
=============================================================================
