--------------------------- MODULE OneReplacement ---------------------------
(***************************************************************************)
(* What the run policy of the Stage-B routing smoke promises about its     *)
(* blocks of panels: a block is replaced at most once, as a whole, only    *)
(* before anything is published, and what is published for a block is      *)
(* either its primary or its contingency schedule, never a mixture.        *)
(***************************************************************************)

CONSTANT Blocks

VARIABLES
  status,     \* status[b]: "open", "replaced" once, or "lost" for good
  published   \* NothingPublished or, per block, the schedule it shows

rvars == <<status, published>>

NothingPublished == [b \in Blocks |-> "nothing"]

Init ==
  /\ status = [b \in Blocks |-> "open"]
  /\ published = NothingPublished

\* An infrastructure failure of a primary panel replaces the block.
Replace(b) ==
  /\ published = NothingPublished
  /\ status[b] = "open"
  /\ status' = [status EXCEPT ![b] = "replaced"]
  /\ UNCHANGED published

\* There is no second replacement: the run can publish no more.
Lose(b) ==
  /\ published = NothingPublished
  /\ status[b] = "replaced"
  /\ status' = [status EXCEPT ![b] = "lost"]
  /\ UNCHANGED published

Publish ==
  /\ published = NothingPublished
  /\ \A b \in Blocks : status[b] # "lost"
  /\ published' = [b \in Blocks |-> IF status[b] = "open" THEN "primary"
                                                          ELSE "contingency"]
  /\ UNCHANGED status

Next ==
  \/ \E b \in Blocks : Replace(b) \/ Lose(b)
  \/ Publish

Spec == Init /\ [][Next]_rvars
=============================================================================
