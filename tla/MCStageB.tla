------------------------------ MODULE MCStageB ------------------------------
(* Two blocks of two and of one panel, in two pairs of orders: the blocks      *)
(* interleaved, and the small block first and last.                            *)
EXTENDS StageB

CONSTANTS p1, p2, p3, r1, r2

MCPanels == {p1, p2, p3}
MCBlocks == {0, 1}
MCBlockOf == [p \in MCPanels |-> IF p = p3 THEN 1 ELSE 0]

Manifest(primaryOrder, contingencyOrder) ==
  [s \in Schedules |-> IF s = "primary" THEN primaryOrder ELSE contingencyOrder]

MCInit ==
  /\ chronology \in {Manifest(<<p1, p3, p2>>, <<p2, p1, p3>>),
                     Manifest(<<p3, p1, p2>>, <<p1, p2, p3>>)}
  /\ revision = r1
  /\ Init

MCSpec == MCInit /\ [][Next]_vars /\ WF_vars(Session)

(* The source compares two lists: the panels recorded for a schedule, and as   *)
(* many of the allowed ones. IsPrefix says the same of every ledger without a  *)
(* repeated panel.                                                             *)
Ledgers ==
  {l \in UNION {[1..n -> [schedule : Schedules, panel : MCPanels]] : n \in 0..3} :
     \A i, j \in DOMAIN l : i # j => l[i] # l[j]}

IsListPrefix(records, s, order, allowed) ==
  LET OfSchedule(record) == record.schedule = s
      IsAllowed(p) == p \in allowed
      observed == SelectSeq(records, OfSchedule)
      expected == SelectSeq(order, IsAllowed)
  IN  /\ Len(observed) <= Len(expected)
      /\ \A i \in DOMAIN observed : observed[i].panel = expected[i]

ASSUME ListsCompared ==
  \A l \in Ledgers, s \in Schedules, order \in Orders, allowed \in SUBSET MCPanels :
    IsPrefix(l, s, order, allowed) = IsListPrefix(l, s, order, allowed)
=============================================================================
