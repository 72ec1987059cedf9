--------------------------- MODULE HostQuarantine ---------------------------
(***************************************************************************)
(* What the generation lease of m3_prompt_only_execution.py promises to    *)
(* the one inference host that every probe and pilot shares: a run that    *)
(* starts server side effects holds the host's quarantine marker, and the  *)
(* marker is not removed before that run's effects are closed.             *)
(***************************************************************************)
CONSTANTS Runs,     \* the probe and pilot runs of the screen
          None      \* "no run"

VARIABLES holder,   \* the run whose marker is on the host, or None
          phase     \* the phase of each run's side effects on the host

vars == <<holder, phase>>

Phases == {"fresh", "running", "closed"}

Init == /\ holder = None
        /\ phase = [r \in Runs |-> "fresh"]

\* The marker is created atomically: only a host without one can be taken.
Take(r) == /\ holder = None
           /\ phase[r] = "fresh"
           /\ holder' = r
           /\ UNCHANGED phase

\* Side effects begin once per run, and only under the run's own marker.
Begin(r) == /\ holder = r
            /\ phase[r] = "fresh"
            /\ phase' = [phase EXCEPT ![r] = "running"]
            /\ UNCHANGED holder

Close(r) == /\ holder = r
            /\ phase[r] = "running"
            /\ phase' = [phase EXCEPT ![r] = "closed"]
            /\ UNCHANGED holder

\* The holder gives the host back, never in the middle of its side effects.
Release(r) == /\ holder = r
              /\ phase[r] # "running"
              /\ holder' = None
              /\ UNCHANGED phase

Next == \E r \in Runs : Take(r) \/ Begin(r) \/ Close(r) \/ Release(r)

Spec == Init /\ [][Next]_vars
=============================================================================
