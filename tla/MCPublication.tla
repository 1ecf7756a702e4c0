---------------------------- MODULE MCPublication ----------------------------
(***************************************************************************)
(* Small instances of Publication.                                         *)
(***************************************************************************)
EXTENDS Publication, TLC

CONSTANTS v1, r2, b1

\* Every run asks about the same document.
OneDocument == [r \in Run |-> {v1}]

\* The second run revalidates the first batch.
SecondRevalidates == [r \in Run |-> IF r = r2 THEN b1 ELSE None]

\* Two revenues are reported and one cost.
TwoRevenues == [q \in {"revenue", "cost"} |-> IF q = "cost" THEN {1} ELSE {1, 2}]

Revenue(n) == [req |-> "revenue", value |-> n, version |-> v1, inputs |-> {}]
Cost == [req |-> "cost", value |-> 1, version |-> v1, inputs |-> {}]

\* An earlier run has left a revenue and the cost.
FromEarlierRun == {{Revenue(1), Cost}}

\* Extracted are a revenue that contradicts it, and the margin of what is there.
OppositeAndMargin ==
    {[fact |-> Revenue(2), verdict |-> "VALIDATED"],
     [fact |-> Derived(Revenue(1), Cost), verdict |-> None]}

\* Only the first batch is validated twice.
FirstTwice == [b \in Batch |-> IF b = b1 THEN 2 ELSE 1]
=============================================================================
