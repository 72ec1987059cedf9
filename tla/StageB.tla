------------------------------- MODULE StageB -------------------------------
(***************************************************************************)
(* The live execution of the Stage-B routing smoke (run_stage_b of         *)
(* m3_utility_routing_smoke.py) together with the treatment sets it runs   *)
(* on the host (_run_policy_set and _run_attempt of orchestrator.py, the   *)
(* attempt directories of artifact_gym.py).                                *)
(*                                                                         *)
(* A frozen manifest has two schedules of the same panels, each in its own *)
(* order.  Primary panels run one after the other; an infrastructure       *)
(* failure ends the primary schedule of its block, and the whole block is  *)
(* run again from the contingency schedule.  Every panel is announced by   *)
(* an active marker, run, appended to a ledger, and then the marker is     *)
(* removed.  A session may die or stop anywhere, and later sessions resume *)
(* from the files.                                                         *)
(***************************************************************************)
EXTENDS Naturals, Sequences, FiniteSets

CONSTANTS
  Panels,            \* task and replica pairs of the manifest
  Blocks,            \* 0 and 1 in the frozen design
  BlockOf,           \* the block of a panel
  Arms,              \* policies per panel, two in the frozen design
  Revisions,         \* identities of code and runtime a preflight can see
  NoKey,             \* no active marker
  NoPanel,           \* no trigger
  NoRevision,        \* no preflight file
  NoReceipt,         \* no execution receipt
  MaxFaults,         \* bound: failed commands and results, dead controllers
  MaxAdjudications   \* bound: markers an operator removes

ASSUME StageAssumption ==
  /\ IsFiniteSet(Panels)
  /\ BlockOf \in [Panels -> Blocks]
  /\ \A b \in Blocks : \E p \in Panels : BlockOf[p] = b
  /\ Arms \in Nat \ {0}
  /\ NoKey \notin [schedule : {"primary", "contingency"}, panel : Panels]
  /\ NoPanel \notin Panels
  /\ NoRevision \notin Revisions

Schedules == {"primary", "contingency"}
Keys == [schedule : Schedules, panel : Panels]
Attempts == [schedule : Schedules, panel : Panels, arm : 1..Arms]

VARIABLES
  chronology,   \* the manifest: panels of each schedule in execution order
  revision,     \* identity of the worktree and the runtime pins
  remote,       \* remote[a]: attempt directory of a on the host
  runs,         \* history: how often Pi was started for an attempt
  ledger,       \* raw panel records, in the order they were appended
  marker,       \* <raw output>.active.json
  preflight,    \* revision bound by the preflight file
  receipt,      \* execution receipt: triggering panel per block, or absent
  safe,         \* attempts in the safe export, {} while it is absent
  exported,     \* the export receipt is there
  pc,           \* where the session is, "idle" between sessions
  loaded,       \* revision of the running session
  schedule, position, active, triggers,   \* execute_schedule
  arm,          \* position in the panel's execution order
  pending,      \* status of the record to append
  faults, adjudicated

manifest == <<chronology, revision>>
host == <<remote, runs>>
files == <<ledger, marker, preflight, receipt, safe, exported>>
memory == <<loaded, schedule, position, active, triggers, arm, pending>>
bounds == <<faults, adjudicated>>
vars == <<manifest, host, files, pc, memory, bounds>>

-----------------------------------------------------------------------------
(* The ledger *)

NoTriggers == [b \in Blocks |-> NoPanel]

\* Both schedules hold every panel once, shuffled with different seeds, and a
\* manifest whose two orders are equal is not built.
Orders ==
  {c \in [1..Cardinality(Panels) -> Panels] :
     \A p \in Panels : \E i \in DOMAIN c : c[i] = p}

Chronologies ==
  {c \in [Schedules -> Orders] : c["primary"] # c["contingency"]}

KeyOf(record) == [schedule |-> record.schedule, panel |-> record.panel]
Recorded == {KeyOf(ledger[i]) : i \in DOMAIN ledger}
Invalid(s) ==
  {ledger[i].panel :
     i \in {j \in DOMAIN ledger : /\ ledger[j].schedule = s
                                  /\ ledger[j].status = "infrastructure_invalid"}}

Failed(b) == {p \in Invalid("primary") : BlockOf[p] = b}

\* A block has one infrastructure-invalid primary panel at most.
Only(panels) == CHOOSE p \in panels : TRUE

\* The panel that triggered the replacement of a block.
LedgerTriggers ==
  [b \in Blocks |-> IF Failed(b) = {} THEN NoPanel ELSE Only(Failed(b))]

Triggered(t) == {b \in Blocks : t[b] # NoPanel}

RecordsOf(records, s) == {i \in DOMAIN records : records[i].schedule = s}

Place(order, p) == CHOOSE k \in DOMAIN order : order[k] = p

\* The panels recorded for a schedule, as they were appended, are the first of
\* the allowed panels in the order of the schedule.
IsPrefix(records, s, order, allowed) ==
  /\ \A i \in RecordsOf(records, s) : records[i].panel \in allowed
  /\ \A i, j \in RecordsOf(records, s) : i < j =>
       Place(order, records[i].panel) < Place(order, records[j].panel)
  /\ \A j \in RecordsOf(records, s), p \in allowed :
       Place(order, p) < Place(order, records[j].panel) =>
         \E i \in RecordsOf(records, s) : records[i].panel = p

\* The panels a ledger may hold: a triggered block keeps only the primary
\* panels it has.
Allowed(s) ==
  LET triggered == Triggered(LedgerTriggers)
  IN  IF s = "primary"
      THEN {p \in Panels : \/ BlockOf[p] \notin triggered
                            \/ [schedule |-> s, panel |-> p] \in Recorded}
      ELSE {p \in Panels : BlockOf[p] \in triggered}

\* What a resumed session demands of the ledger it finds.
Readable ==
  /\ \A i, j \in DOMAIN ledger : i < j =>
       /\ KeyOf(ledger[i]) # KeyOf(ledger[j])
       /\ ledger[i].schedule = "contingency" => ledger[j].schedule = "contingency"
       /\ ledger[j].schedule = "primary"
            /\ ledger[i].status = "infrastructure_invalid"
          => BlockOf[ledger[i].panel] # BlockOf[ledger[j].panel]
  /\ \A j \in DOMAIN ledger : ledger[j].schedule = "contingency" =>
       \E i \in 1..(j - 1) : /\ ledger[i].schedule = "primary"
                             /\ ledger[i].status = "infrastructure_invalid"
                             /\ BlockOf[ledger[i].panel] = BlockOf[ledger[j].panel]
  /\ \A s \in Schedules : IsPrefix(ledger, s, chronology[s], Allowed(s))
  /\ RecordsOf(ledger, "contingency") # {} =>
       \A p \in Allowed("primary") : [schedule |-> "primary", panel |-> p] \in Recorded

-----------------------------------------------------------------------------
(* Sessions *)

Init ==
  /\ chronology \in Chronologies
  /\ revision \in Revisions
  /\ remote = [a \in Attempts |-> "absent"]
  /\ runs = [a \in Attempts |-> 0]
  /\ ledger = <<>> /\ marker = NoKey /\ preflight = NoRevision
  /\ receipt = NoReceipt /\ safe = {} /\ exported = FALSE
  /\ pc = "idle" /\ loaded = NoRevision
  /\ schedule = "primary" /\ position = 1 /\ active = {} /\ triggers = NoTriggers
  /\ arm = 1 /\ pending = "none"
  /\ faults = 0 /\ adjudicated = {}

\* The process ends: what it knew is gone, the files and the host stay.
EndSession ==
  /\ pc' = "idle" /\ loaded' = NoRevision
  /\ schedule' = "primary" /\ position' = 1 /\ active' = {} /\ triggers' = NoTriggers
  /\ arm' = 1 /\ pending' = "none"

Goto(from, to) == pc = from /\ pc' = to

Fault ==
  /\ faults < MaxFaults
  /\ faults' = faults + 1
  /\ UNCHANGED adjudicated

StartSession ==
  /\ Goto("idle", "preflight")
  /\ loaded' = revision
  /\ UNCHANGED <<manifest, host, files, schedule, position, active, triggers,
                 arm, pending, bounds>>

\* Mutant: a resumed session overwrites the preflight file it finds.
Mutant_CheckPreflight ==
  /\ pc = "preflight"
  /\ preflight' = loaded
  /\ pc' = "load"
  /\ UNCHANGED <<memory, manifest, host, ledger, marker, receipt, safe, exported,
                 bounds>>

\* The first session writes the preflight file, a later one must find itself
\* in it.
CheckPreflight ==
  /\ pc = "preflight"
  /\ IF preflight \in {NoRevision, loaded}
     THEN /\ preflight' = loaded
          /\ pc' = "load"
          /\ UNCHANGED memory
     ELSE EndSession /\ UNCHANGED preflight
  /\ UNCHANGED <<manifest, host, ledger, marker, receipt, safe, exported, bounds>>

\* An unfinished panel, a ledger out of order or a failed contingency panel
\* end the session; otherwise it resumes with the triggers of the ledger.
LoadState ==
  /\ pc = "load"
  /\ IF marker = NoKey /\ Readable /\ Invalid("contingency") = {}
     THEN /\ pc' = "panel"
          /\ triggers' = LedgerTriggers
          /\ active' = Blocks \ Triggered(LedgerTriggers)
          /\ schedule' = "primary" /\ position' = 1
          /\ UNCHANGED <<loaded, arm, pending>>
     ELSE EndSession
  /\ UNCHANGED <<manifest, host, files, bounds>>

Panel == chronology[schedule][position]
Key == [schedule |-> schedule, panel |-> Panel]
Attempt == [schedule |-> schedule, panel |-> Panel, arm |-> arm]
\* Mutant: a resumed session repeats panels whose rows could not be exported.
Mutant_Done(key) ==
  \E i \in DOMAIN ledger :
     KeyOf(ledger[i]) = key /\ ledger[i].status # "not_exportable"

Done(key) == key \in Recorded
ToRun == position \in DOMAIN chronology[schedule]

\* Mutant: a recorded panel is met again and again.
Mutant_SkipPanel ==
  /\ pc = "panel" /\ ToRun
  /\ BlockOf[Panel] \notin active \/ Done(Key)
  /\ position' = IF Done(Key) THEN position ELSE position + 1
  /\ UNCHANGED <<manifest, host, files, pc, loaded, schedule, active, triggers,
                 arm, pending, bounds>>

\* A panel of a block that is not active, or one that has its record.
SkipPanel ==
  /\ pc = "panel" /\ ToRun
  /\ BlockOf[Panel] \notin active \/ Done(Key)
  /\ position' = position + 1
  /\ UNCHANGED <<manifest, host, files, pc, loaded, schedule, active, triggers,
                 arm, pending, bounds>>

\* Mutant: the panel starts without a marker.
Mutant_StartPanel ==
  /\ Goto("panel", "generate") /\ ToRun
  /\ BlockOf[Panel] \in active /\ ~Done(Key)
  /\ marker' = NoKey
  /\ arm' = 1
  /\ UNCHANGED <<manifest, host, ledger, preflight, receipt, safe, exported, loaded,
                 schedule, position, active, triggers, pending, bounds>>

StartPanel ==
  /\ Goto("panel", "generate") /\ ToRun
  /\ BlockOf[Panel] \in active /\ ~Done(Key)
  /\ marker' = Key
  /\ arm' = 1
  /\ UNCHANGED <<manifest, host, ledger, preflight, receipt, safe, exported, loaded,
                 schedule, position, active, triggers, pending, bounds>>

\* After the primary chronology the triggered blocks run from the contingency
\* chronology, after that the receipts are written.
EndSchedule ==
  /\ pc = "panel" /\ ~ToRun
  /\ IF schedule = "primary"
     THEN /\ schedule' = "contingency" /\ position' = 1
          /\ active' = Triggered(triggers)
          /\ UNCHANGED pc
     ELSE pc' = "receipt" /\ UNCHANGED <<schedule, position, active>>
  /\ UNCHANGED <<manifest, host, files, loaded, triggers, arm, pending, bounds>>

-----------------------------------------------------------------------------
(* One panel on the host *)

\* AttemptExecutionError of class infrastructure_invalid: the panel gets a
\* record without a result.
Replaceable ==
  /\ pc' = "append" /\ pending' = "infrastructure_invalid"
  /\ UNCHANGED <<loaded, schedule, position, active, triggers, arm>>

Proceed(to) == pc' = to /\ UNCHANGED memory

\* Task generation and the fixture commitment; a malformed response is not
\* replaceable and ends the session.
GenerateTask ==
  /\ pc = "generate"
  /\ \/ Proceed("prepare") /\ UNCHANGED bounds
     \/ Fault /\ (Replaceable \/ EndSession)
  /\ UNCHANGED <<manifest, host, files>>

\* Mutant: prepare-attempt reuses a directory it finds.
Mutant_Exists(a) == FALSE

Exists(a) == remote[a] # "absent"

\* prepare-attempt refuses an attempt directory that exists.  The command, or
\* its answer, can be lost.
PrepareAttempt ==
  /\ pc = "prepare"
  /\ \/ /\ ~Exists(Attempt)
        /\ remote' = [remote EXCEPT ![Attempt] = "prepared"]
        /\ \/ Proceed("pi") /\ UNCHANGED bounds
           \/ Fault /\ Replaceable
     \/ /\ Exists(Attempt)
        /\ Replaceable
        /\ UNCHANGED <<remote, bounds>>
     \/ /\ Fault /\ Replaceable
        /\ UNCHANGED remote
  /\ UNCHANGED <<manifest, runs, files>>

\* Pi runs the attempt, to its end or to its wall-clock limit; it may also
\* fail to start or end in an error of the controller.
RunPi ==
  /\ pc = "pi"
  /\ \/ /\ runs' = [runs EXCEPT ![Attempt] = @ + 1]
        /\ \/ Proceed("record") /\ UNCHANGED bounds
           \/ Fault /\ Replaceable
     \/ /\ Fault /\ Replaceable
        /\ UNCHANGED runs
  /\ UNCHANGED <<manifest, remote, files>>

RecordEvents ==
  /\ pc = "record"
  /\ \/ /\ remote' = [remote EXCEPT ![Attempt] = "executed"]
        /\ \/ Proceed("verify") /\ UNCHANGED bounds
           \/ Fault /\ Replaceable
     \/ /\ Fault /\ Replaceable
        /\ UNCHANGED remote
  /\ UNCHANGED <<manifest, runs, files>>

\* Mutant: a verdict that cannot be had counts as a result of the attempt.
Mutant_VerifyAttempt ==
  /\ pc = "verify"
  /\ \/ /\ remote' = [remote EXCEPT ![Attempt] = "verified"]
        /\ UNCHANGED bounds
     \/ /\ Fault
        /\ UNCHANGED remote
  /\ IF arm < Arms
     THEN /\ pc' = "prepare" /\ arm' = arm + 1
          /\ UNCHANGED <<loaded, schedule, position, active, triggers, pending>>
     ELSE Proceed("classify")
  /\ UNCHANGED <<manifest, runs, files>>

\* A verifier failure is of another class and ends the session; a missing
\* event summary is replaceable although the verdict is there.
VerifyAttempt ==
  /\ pc = "verify"
  /\ \/ /\ remote' = [remote EXCEPT ![Attempt] = "verified"]
        /\ \/ /\ UNCHANGED bounds
              /\ IF arm < Arms
                 THEN /\ pc' = "prepare" /\ arm' = arm + 1
                      /\ UNCHANGED <<loaded, schedule, position, active, triggers,
                                     pending>>
                 ELSE Proceed("classify")
           \/ Fault /\ (Replaceable \/ EndSession)
     \/ /\ Fault /\ EndSession
        /\ UNCHANGED remote
  /\ UNCHANGED <<manifest, runs, files>>

\* The result of a whole panel: provider and browser transport errors make it
\* infrastructure-invalid, a mechanism error ends the session.  A record is
\* accepted whose rows the export will refuse later.
ClassifyResult ==
  /\ pc = "classify"
  /\ \/ /\ pc' = "append"
        /\ \/ pending' = "completed" /\ UNCHANGED bounds
           \/ pending' = "not_exportable" /\ Fault
        /\ UNCHANGED <<loaded, schedule, position, active, triggers, arm>>
     \/ Fault /\ (Replaceable \/ EndSession)
  /\ UNCHANGED <<manifest, host, files>>

AppendRecord ==
  /\ pc = "append"
  /\ ledger' = Append(ledger, [schedule |-> schedule, panel |-> Panel,
                               status |-> pending, revision |-> loaded])
  /\ Proceed("unlink")
  /\ UNCHANGED <<manifest, host, marker, preflight, receipt, safe, exported, bounds>>

\* Mutant: the triggered block stays active: its later primary panels still run.
Mutant_UnlinkMarker ==
  /\ pc = "unlink"
  /\ marker' = NoKey
  /\ pc' = "panel" /\ position' = position + 1 /\ pending' = "none"
  /\ triggers' = IF pending = "infrastructure_invalid"
                 THEN [triggers EXCEPT ![BlockOf[Panel]] = Panel] ELSE triggers
  /\ UNCHANGED <<loaded, schedule, active, arm, manifest, host, ledger, preflight,
                 receipt, safe, exported, bounds>>

\* After the record the marker goes; an infrastructure failure then takes the
\* block out of the primary schedule, or ends a contingency run for good.
UnlinkMarker ==
  /\ pc = "unlink"
  /\ marker' = NoKey
  /\ IF pending # "infrastructure_invalid"
     THEN /\ pc' = "panel" /\ position' = position + 1 /\ pending' = "none"
          /\ UNCHANGED <<loaded, schedule, active, triggers, arm>>
     ELSE IF schedule = "contingency"
     THEN EndSession
     ELSE /\ pc' = "panel" /\ position' = position + 1 /\ pending' = "none"
          /\ triggers' = [triggers EXCEPT ![BlockOf[Panel]] = Panel]
          /\ active' = active \ {BlockOf[Panel]}
          /\ UNCHANGED <<loaded, schedule, arm>>
  /\ UNCHANGED <<manifest, host, ledger, preflight, receipt, safe, exported, bounds>>

-----------------------------------------------------------------------------
(* Receipts and export *)

\* The execution receipt selects the contingency schedule for the triggered
\* blocks.  A receipt with other bytes is never overwritten.
WriteReceipt ==
  /\ pc = "receipt"
  /\ IF receipt \in {NoReceipt, triggers}
     THEN receipt' = triggers /\ Proceed("export")
     ELSE EndSession /\ UNCHANGED receipt
  /\ UNCHANGED <<manifest, host, ledger, marker, preflight, safe, exported, bounds>>

SelectedSchedule(b) == IF receipt[b] = NoPanel THEN "primary" ELSE "contingency"

\* Mutant: only the panels that failed are replaced, not their block.
Mutant_Selected ==
  {a \in Attempts :
     a.schedule = IF a.panel \in Invalid("primary") THEN "contingency" ELSE "primary"}

Selected == {a \in Attempts : a.schedule = SelectedSchedule(BlockOf[a.panel])}

\* Every selected panel has a completed record whose rows are accepted.
Exportable ==
  \A a \in Selected : \E i \in DOMAIN ledger :
     /\ KeyOf(ledger[i]) = [schedule |-> a.schedule, panel |-> a.panel]
     /\ ledger[i].status = "completed"

WriteExport ==
  /\ pc = "export"
  /\ IF Exportable /\ safe \in {{}, Selected}
     THEN safe' = Selected /\ Proceed("export_receipt")
     ELSE EndSession /\ UNCHANGED safe
  /\ UNCHANGED <<manifest, host, ledger, marker, preflight, receipt, exported, bounds>>

WriteExportReceipt ==
  /\ pc = "export_receipt"
  /\ exported' = TRUE
  /\ EndSession
  /\ UNCHANGED <<manifest, host, ledger, marker, preflight, receipt, safe, bounds>>

-----------------------------------------------------------------------------
(* The environment *)

Crash ==
  /\ pc # "idle"
  /\ Fault /\ EndSession
  /\ UNCHANGED <<manifest, host, files>>

\* An operator removes the marker of an unfinished panel.
Adjudicate ==
  /\ pc = "idle" /\ marker # NoKey
  /\ Cardinality(adjudicated) < MaxAdjudications
  /\ adjudicated' = adjudicated \cup {marker}
  /\ marker' = NoKey
  /\ UNCHANGED <<manifest, host, ledger, preflight, receipt, safe, exported, pc,
                 memory, faults>>

\* Between sessions the code or the runtime is changed.
ChangeRevision ==
  /\ pc = "idle"
  /\ revision' \in Revisions \ {revision}
  /\ UNCHANGED <<chronology, host, files, pc, memory, bounds>>

Session ==
  \/ CheckPreflight \/ LoadState
  \/ SkipPanel \/ StartPanel \/ EndSchedule
  \/ GenerateTask \/ PrepareAttempt \/ RunPi \/ RecordEvents \/ VerifyAttempt
  \/ ClassifyResult \/ AppendRecord \/ UnlinkMarker
  \/ WriteReceipt \/ WriteExport \/ WriteExportReceipt

Next == StartSession \/ Session \/ Crash \/ Adjudicate \/ ChangeRevision

\* A running session goes on; nobody has to start another one.
Spec == Init /\ [][Next]_vars /\ WF_vars(Session)

-----------------------------------------------------------------------------
(* Properties *)

\* No planned attempt is ever given to the model twice, whatever fails, dies,
\* resumes or is adjudicated ("never_rerun" of the manifest, no selective
\* reruns): the attempt directory on the host outlives every session.
AttemptOnce == \A a \in Attempts : runs[a] <= 1

\* An attempt directory without a ledger record belongs to the panel the
\* marker names, or to one an operator has adjudicated: work whose end is
\* uncertain never goes unnoticed (active marker of run_stage_b).
UncertainMarked ==
  \A a \in Attempts :
    LET key == [schedule |-> a.schedule, panel |-> a.panel]
    IN  remote[a] # "absent" /\ key \notin Recorded
          => marker = key \/ key \in adjudicated

\* Whatever a session has appended when it ends, the next session accepts it:
\* run_stage_b and _existing_raw_state agree on the chronology.
LedgerReadable == Readable

\* All records of a ledger were made by one revision, the one of the preflight
\* file, over any number of resumed sessions.
OneRevision == \A i \in DOMAIN ledger : ledger[i].revision = preflight

\* Every exported attempt ran exactly once and was verified on the host.
ExportVerified == \A a \in safe : runs[a] = 1 /\ remote[a] = "verified"

\* Once the execution receipt is written, no later session starts an attempt
\* or appends a record: the receipt stays true.
NothingAfterReceipt == [][receipt # NoReceipt => UNCHANGED <<ledger, runs>>]_vars

BlockStatus ==
  [b \in Blocks |->
     IF \E p \in Invalid("contingency") : BlockOf[p] = b THEN "lost"
     ELSE IF \E p \in Invalid("primary") : BlockOf[p] = b THEN "replaced"
     ELSE "open"]

AttemptsOf(b, s) == {a \in Attempts : BlockOf[a.panel] = b /\ a.schedule = s}

Published ==
  [b \in Blocks |->
     LET rows == {a \in safe : BlockOf[a.panel] = b}
     IN  IF safe = {} THEN "nothing"
         ELSE IF \E s \in Schedules : rows = AttemptsOf(b, s)
         THEN CHOOSE s \in Schedules : rows = AttemptsOf(b, s)
         ELSE "mixed"]

Promise == INSTANCE OneReplacement WITH status <- BlockStatus,
                                        published <- Published

\* The run policy: a block is replaced once and as a whole, before anything is
\* published, and nothing is published after a second failure.
ImplementsOneReplacement == Promise!Spec

\* A session that runs comes to an end.
SessionEnds == pc # "idle" ~> pc = "idle"
=============================================================================
