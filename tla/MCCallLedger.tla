---------------------------- MODULE MCCallLedger ----------------------------
(***************************************************************************)
(* Small instances of CallLedger.  r1 is an M3 run with an answer call and *)
(* a job j1 with its batch b1; r2 is a run of an older experiment.         *)
(***************************************************************************)
EXTENDS CallLedger

CONSTANTS r1, r2, j1, b1, q, i1, i2, legacy, answer, extract, old

Attempt(r, j, b, s, u) ==
    [run |-> r, job |-> j, batch |-> b, stage |-> s, upper |-> u]

MCRequest ==
    [c \in Call |->
        CASE c = answer  -> Attempt(r1, NoJob, NoBatch, "answer", 1)
          [] c = extract -> Attempt(r1, j1, b1, "extraction", 3)
          [] c = old     -> Attempt(r2, NoJob, NoBatch, "answer", 2)]

MCContract ==
    [r \in Run |-> [exp |-> IF r = r1 THEN M3 ELSE legacy, sub |-> q,
                    cap |-> 5, calls |-> 3, owner |-> i1]]

\* The rejected request of the older experiment turns out to be free.
MCCharge == [c \in Call |-> IF c = old THEN {0} ELSE {2}]
MCAnyCharge == [c \in Call |-> {0, 2}]

\* The answer is asked for through i1, which owns the runs; the job works
\* through i2.
MCServes == [c \in Call |-> IF c = extract THEN Instance \ {i1} ELSE {i1}]

\* Two calls of the M3 experiment, or one of each experiment.
MCTogether == {Call \cap {answer, extract}, Call \cap {answer, old}}

MCLimit == [e \in Experiment |-> [cap |-> 4, calls |-> 3, probe |-> 1]]
MCSubLimit == [s \in Sub |-> [cap |-> 4, calls |-> 3]]
=============================================================================
