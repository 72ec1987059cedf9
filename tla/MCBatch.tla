------------------------------ MODULE MCBatch -------------------------------
(* Values for the model checker: a family given twice, two seeds, and files  *)
(* left by an earlier tool.                                                  *)
EXTENDS Batch

CONSTANTS a, v1, v2, g1, g2

MCFamilies == <<a, a>>
MCSeeds    == <<1, 2>>

Legacy(seed) == [key |-> <<"policy", <<a, seed>>>>, registry |-> None,
                 version |-> None, status |-> "completed"]

\* No file, a line that does not parse before a record, a truncated last line
\* after one, and a record that lacks its newline only.
MCOldFiles == {[lines |-> <<>>, torn |-> FALSE],
               [lines |-> <<Broken, Legacy(1)>>, torn |-> FALSE],
               [lines |-> <<Legacy(1), Broken>>, torn |-> TRUE],
               [lines |-> <<Legacy(2), Legacy(1)>>, torn |-> TRUE],
               [lines |-> <<Legacy(1)>>, torn |-> TRUE]}
=============================================================================
