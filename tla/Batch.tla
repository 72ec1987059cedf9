------------------------------- MODULE Batch --------------------------------
(***************************************************************************)
(* The resumable batch runner (batch.py): invocations one after another on *)
(* one results file, each with its own treatment, ended by a crash, a      *)
(* refusal or a summary. A file left by another tool may have lines that   *)
(* do not parse, and its last line, parsed or not, may lack its newline.   *)
(* The names that any machine has (BatchInit, step, ...) carry the batch   *)
(* in them, so that one module can extend this one and another.            *)
(***************************************************************************)
EXTENDS Naturals, Sequences

CONSTANTS Families,     \* --families, which may repeat one
          Seeds,        \* the seeds, in order (parse_seeds removes repeats)
          Versions,     \* policy versions
          FirstVersion, \* the version of records written before versions
          Registries,   \* treatment registry hashes
          None,
          OldFiles,     \* the files a batch may find: [lines, torn]
          MaxInvocations

VARIABLES file,         \* the lines of the results file
          torn,         \* its last line has no newline
          spoiled,      \* keys of the two records that this invocation made one
                        \* line of, which does not parse
          step,
          invocation,   \* the arguments of the running invocation
          doneKeys,
          next,         \* index of the current job
          record,       \* the record _run_job returned
          summary,
          invocations   \* number of invocations so far

batchVars == <<file, torn, spoiled, step, invocation, doneKeys, next, record, summary,
               invocations>>

Broken == [key |-> None, registry |-> None, version |-> None, status |-> "broken"]

Treatments == [registry : Registries \cup {None}, version : Versions]

\* family-major, as expand_jobs nests its loops
Jobs == [n \in 1 .. Len(Families) * Len(Seeds) |->
           <<Families[1 + (n - 1) \div Len(Seeds)], Seeds[1 + ((n - 1) % Len(Seeds))]>>]

\* JobSpec.key: the mode is in it, the version and the registry are not.
KeyOf(t, job) == <<IF t.registry = None THEN "policy" ELSE "treatment_set", job>>

CompletedRecords(lines) ==
  {lines[i] : i \in {j \in DOMAIN lines : lines[j].status = "completed"}}

\* q is a sequence of some elements.
IsSequence(q) == q \in Seq({q[i] : i \in DOMAIN q})

\* A treatment-set record names its registry, a policy record has none (_run_job).
OwnMode(lines) ==
  \A r \in CompletedRecords(lines) :
    r.key[1] = IF r.registry = None THEN "policy" ELSE "treatment_set"

\* What expand_jobs is given, and the results files a batch may find.
WellFormed ==
  /\ FirstVersion \in Versions /\ None \notin Versions \cup Registries
  /\ IsSequence(Families) /\ IsSequence(Seeds)
  /\ \A f \in OldFiles : /\ IsSequence(f.lines) /\ OwnMode(f.lines)
                      /\ f.torn \in BOOLEAN /\ (f.torn => f.lines # <<>>)

ASSUME BatchAssumption == WellFormed

\* Mutant: records are not filtered by their status.
Mutant_RecordedKeys(lines) ==
  {lines[i].key : i \in {j \in DOMAIN lines : lines[j].status # "broken"}}

\* Mutant: reading stops at the first line that does not parse.
Mutant_KeysBeforeBroken(lines) ==
  {lines[i].key : i \in {j \in DOMAIN lines :
     lines[j].status = "completed" /\ \A h \in 1 .. j : lines[h].status # "broken"}}

\* _load_done_keys: lines that do not parse are passed over.
RecordedKeys(lines) == {r.key : r \in CompletedRecords(lines)}

EmptySummary == [completed |-> 0, error |-> 0, skipped |-> 0]

BatchInit ==
  /\ \E f \in OldFiles : file = f.lines /\ torn = f.torn
  /\ spoiled = {}
  /\ step = "idle"
  /\ invocation = [registry |-> None, version |-> FirstVersion, resume |-> TRUE]
  /\ doneKeys = {}
  /\ next = 1
  /\ record = Broken
  /\ summary = EmptySummary
  /\ invocations = 0

-----------------------------------------------------------------------------
Start(t, resume) ==
  /\ step \in {"idle", "ended"}
  /\ invocations < MaxInvocations
  /\ invocation' = [registry |-> t.registry, version |-> t.version, resume |-> resume]
  /\ invocations' = invocations + 1
  /\ step' = "preflight"
  /\ UNCHANGED <<file, torn, spoiled, doneKeys, next, record, summary>>

\* Mutant: records of another version are accepted.
Mutant_Accepts(t, r) == t.registry # None => r.registry = t.registry

\* What default_preflight asks of each completed record.
Accepts(t, r) == IF t.registry # None
                 THEN r.registry = t.registry
                 ELSE \/ r.version = t.version
                      \/ r.version = None /\ t.version = FirstVersion

Preflight ==
  /\ step = "preflight"
  /\ step' = IF \A r \in CompletedRecords(file) : Accepts(invocation, r) THEN "load" ELSE "idle"
  /\ UNCHANGED <<file, torn, spoiled, invocation, doneKeys, next, record, summary, invocations>>

LoadDoneKeys ==
  /\ step = "load"
  /\ doneKeys' = IF invocation.resume THEN RecordedKeys(file) ELSE {}
  /\ next' = 1
  /\ summary' = EmptySummary
  /\ spoiled' = {}
  /\ step' = "loop"
  /\ UNCHANGED <<file, torn, invocation, record, invocations>>

CurrentKey == KeyOf(invocation, Jobs[next])

Skip ==
  /\ step = "loop"
  /\ next \in DOMAIN Jobs
  /\ CurrentKey \in doneKeys
  /\ summary' = [summary EXCEPT !.skipped = @ + 1]
  /\ next' = next + 1
  /\ UNCHANGED <<file, torn, spoiled, step, invocation, doneKeys, record, invocations>>

\* _run_job: an exception of the runner is data.
RunJob ==
  /\ step = "loop"
  /\ next \in DOMAIN Jobs
  /\ CurrentKey \notin doneKeys
  /\ \E status \in {"completed", "error"} :
       record' = [key |-> CurrentKey, registry |-> invocation.registry,
                  version |-> invocation.version, status |-> status]
  /\ step' = "append"
  /\ UNCHANGED <<file, torn, spoiled, invocation, doneKeys, next, summary, invocations>>

\* The file with the record written after its last byte: a line without its
\* newline and the record become one line, which does not parse.
Appended == IF torn THEN [file EXCEPT ![Len(file)] = Broken] ELSE Append(file, record)

\* _append_result is atomic: a temporary file replaces the old one.
AppendResult ==
  /\ step = "append"
  /\ file' = Appended
  /\ torn' = FALSE
  /\ spoiled' = IF torn THEN {record.key, file[Len(file)].key} ELSE spoiled
  /\ doneKeys' = doneKeys \cup {record.key}
  /\ summary' = [summary EXCEPT ![record.status] = @ + 1]
  /\ next' = next + 1
  /\ step' = "loop"
  /\ UNCHANGED <<invocation, record, invocations>>

Finished == next > Len(Jobs)

Return ==
  /\ step = "loop"
  /\ Finished
  /\ step' = "ended"
  /\ UNCHANGED <<file, torn, spoiled, invocation, doneKeys, next, record, summary, invocations>>

\* A kill, an interrupt, or an error of the file system: what was appended stays.
BatchCrash ==
  /\ step \in {"preflight", "load", "loop", "append"}
  /\ step' = "idle"
  /\ UNCHANGED <<file, torn, spoiled, invocation, doneKeys, next, record, summary, invocations>>

BatchNext ==
  \/ \E t \in Treatments, resume \in BOOLEAN : Start(t, resume)
  \/ Preflight \/ LoadDoneKeys \/ Skip \/ RunJob \/ AppendResult \/ Return \/ BatchCrash

BatchSpec == BatchInit /\ [][BatchNext]_batchVars

-----------------------------------------------------------------------------
\* A job is skipped for a record only if the record is of the treatment the
\* invocation runs, however many invocations of other treatments, crashes and
\* errors came before (the comment in default_preflight).
SkipsOwnTreatment ==
  step = "loop" /\ next \in DOMAIN Jobs /\ CurrentKey \in doneKeys =>
    \A r \in CompletedRecords(file) :
      r.key = CurrentKey =>
        /\ r.registry = invocation.registry
        /\ r.registry = None => \/ r.version = invocation.version
                                \/ r.version = None /\ invocation.version = FirstVersion

\* A batch that ends without an error (exit code 0) has a completed record of
\* each of its jobs, resumed or not, repeated families included, but for the two
\* that it may have made one line of: the last line it found without a newline,
\* which it skipped as done, and the record of the first job it ran. A batch that
\* appends to such a line loses both, the next one misses none (main,
\* _load_done_keys, _append_result).
ExitZeroMeansRecorded ==
  step = "ended" /\ summary.error = 0 =>
    {KeyOf(invocation, Jobs[n]) : n \in DOMAIN Jobs}
      \subseteq {r.key : r \in CompletedRecords(file)} \cup spoiled

\* A resumed invocation never runs a job that has a completed record, its own
\* or one of an earlier invocation, whatever lines do not parse (run_batch). A
\* record that was spoiled is none.
CompletedOnce ==
  [][step = "loop" /\ step' = "append" /\ invocation.resume =>
       record'.key \notin {r.key : r \in CompletedRecords(file)}]_batchVars
=============================================================================
