----------------------------- MODULE CallLedger -----------------------------
(***************************************************************************)
(* The paid-call ledger: tables llm_calls and experiment_budgets, written  *)
(* by ReserveCall and SettleCall, by the sweeps that take over from a lost *)
(* owner, and by the two reconciliation commands; and the Python runtime   *)
(* that dispatches one HTTP request per reserved attempt.                  *)
(*                                                                         *)
(* Every handler runs in one transaction under lockModelAdmission, so a    *)
(* handler is one atomic action.  The exception is SettleCall: it reads    *)
(* the state of the call before it opens its transaction, and is two.      *)
(*                                                                         *)
(* Money is an integer.  Only the deepseek provider is modelled (the mock  *)
(* provider touches no budget).  Who owns a run or a job is reduced to the *)
(* set "open": JobLifecycle models how a job gets and loses its owner.     *)
(***************************************************************************)
EXTENDS Integers, FiniteSets, FiniteSetsExt

CONSTANTS
    Call,        \* attempt identifiers; the runtime uses each for one call
    Run, Job, Batch, Sub, Instance, Experiment,
    M3,          \* the m3-live-v1 experiment; the others follow the M1/M2 rules
    NoJob, NoBatch, None,
    Request,     \* what an attempt asks for: run, job, batch, stage, upper
    Contract,    \* a run's contract: exp, sub, cap, calls; and its owner
    Limit,       \* an experiment's cap, calls and probe cap
    SubLimit,    \* a sub-experiment's cap and calls
    Charge,      \* the amounts the provider may charge for each request
    Together,    \* bound: the sets of attempts a behaviour may reserve
    Serves       \* bound: the instances an attempt may be reserved through

Stage == {"answer", "extraction", "probe"}
Limits == [cap : Nat, calls : Nat]
CallState == {"NONE", "RESERVED", "SETTLED", "UNKNOWN"}

ASSUME LedgerAssumption ==
    /\ M3 \in Experiment
    /\ NoJob \notin Job /\ NoBatch \notin Batch
    /\ Charge \in [Call -> SUBSET Nat] /\ Together \subseteq SUBSET Call
    /\ Serves \in [Call -> SUBSET Instance]
    /\ Request \in [Call -> [run : Run, job : Job \cup {NoJob},
                             batch : Batch \cup {NoBatch},
                             stage : Stage, upper : Nat]]
    /\ Contract \in [Run -> [exp : Experiment, sub : Sub, cap : Nat,
                             calls : Nat, owner : Instance]]
    /\ Limit \in [Experiment -> [cap : Nat, calls : Nat, probe : Nat]]
    /\ SubLimit \in [Sub -> Limits]
    /\ None \notin {"COST_UNKNOWN", "COST_EXCEEDED_RESERVATION",
                    "UNRESOLVED_CALL_AFTER_OWNER_LOSS", "OPERATOR_HALT"}

Upper(c) == Request[c].upper
Exp(c)   == Contract[Request[c].run].exp

\* The work a call is made for: its job, or the foreground of its run.
Holder(c) == IF Request[c].job = NoJob THEN Request[c].run ELSE Request[c].job

VARIABLES
    callState, amount, callJson, owner,    \* columns of llm_calls
    audited,                               \* rows of m4_cost_reconciliations
    known, reserved, attempted, halted,    \* columns of experiment_budgets
    open,        \* runs QUEUED or RUNNING, jobs not terminal
    live,        \* API instances that are not stopped
    wire,        \* where the runtime is with the attempt
    record,      \* the call record the runtime built
    sent,        \* attempts whose HTTP request left the runtime
    charge       \* what the provider charges for them

row      == <<callState, amount, callJson, owner, audited>>
budget   == <<known, reserved, attempted, halted>>
runtime  == <<wire, record, sent, charge>>
vars     == <<callState, amount, callJson, owner, audited, known, reserved,
              attempted, halted, open, live, wire, record, sent, charge>>

Halt == {"COST_UNKNOWN", "COST_EXCEEDED_RESERVATION",
         "UNRESOLVED_CALL_AFTER_OWNER_LOSS", "OPERATOR_HALT"}

\* What a call record says: no dispatch, usage with a price, usage whose price
\* fails verification, or no usable cost for a request sent or not sent.
Record == {"none", "not_dispatched", "usage", "unverified",
           "unknown_sent", "unknown_unsent"}

Init ==
    /\ callState = [c \in Call |-> "NONE"]
    /\ amount    = [c \in Call |-> 0]
    /\ callJson  = [c \in Call |-> "none"]
    /\ owner     = [c \in Call |-> None]
    /\ audited   = {}
    /\ known     = [e \in Experiment |-> 0]
    /\ reserved  = [e \in Experiment |-> 0]
    /\ attempted = [e \in Experiment |-> 0]
    /\ halted    = [e \in Experiment |-> None]
    /\ open      = Run \cup Job
    /\ live      = Instance
    /\ wire      = [c \in Call |-> "idle"]
    /\ record    = [c \in Call |-> "none"]
    /\ sent      = {}
    /\ charge    = [c \in Call |-> 0]

-----------------------------------------------------------------------------
(* ReserveCall *)

Made == {c \in Call : callState[c] # "NONE"}
Unresolved == {c \in Call : callState[c] \in {"RESERVED", "UNKNOWN"}}

\* COALESCE(amount_cny, reserved_upper_cny): what a call occupies of a cap.
Occupied(S) ==
    MapThenSumSet(LAMBDA c : IF callState[c] = "SETTLED" THEN amount[c]
                                                         ELSE Upper(c), S)

\* The calls made under the same run, sub-experiment, batch.
InRun(c) == {d \in Made : Request[d].run = Request[c].run}
InSub(c) == {d \in Made : Exp(d) = M3 /\ Contract[Request[d].run].sub
                                         = Contract[Request[c].run].sub}
InBatch(c) == {d \in Made : Request[d].batch = Request[c].batch}
Probes(e) == {d \in Made : Exp(d) = e /\ Request[d].stage = "probe"}

Foreground(c) == Request[c].stage = "answer"
InFlight == {c \in Call : callState[c] = "RESERVED"}

\* admitM2Stage: one generation per batch, two probe calls.
StageAdmits(c) ==
    CASE Request[c].stage = "extraction" ->
            \A d \in InBatch(c) : Request[d].stage # "extraction"
      [] Request[c].stage = "probe" ->
            Cardinality({d \in InBatch(c) : Request[d].stage = "probe"}) < 2
      [] OTHER -> TRUE

RunAdmits(c) ==
    /\ Cardinality(InRun(c)) < Contract[Request[c].run].calls
    /\ Occupied(InRun(c)) + Upper(c) <= Contract[Request[c].run].cap

\* Any unresolved cost of any experiment stops M3 spending.
NoUnknownCost == \A d \in Call : callState[d] # "UNKNOWN"

\* Two physical slots: one for answers, one for background work.
LaneFree(c) ==
    /\ Cardinality(InFlight) < 2
    /\ \A d \in InFlight : Foreground(d) # Foreground(c)

ExperimentAdmits(c) ==
    LET e == Exp(c) IN
    /\ halted[e] = None
    /\ attempted[e] < Limit[e].calls
    /\ known[e] + reserved[e] + Upper(c) <= Limit[e].cap
    /\ Request[c].stage = "probe" =>
           Occupied(Probes(e)) + Upper(c) <= Limit[e].probe

SubexperimentAdmits(c) ==
    LET sub == SubLimit[Contract[Request[c].run].sub] IN
    /\ Cardinality(InSub(c)) < sub.calls
    /\ Occupied(InSub(c)) + Upper(c) <= sub.cap

\* Seeded fault: the older experiments do not look for calls in flight.
BudgetAdmitsBlindly(c) ==
    /\ ExperimentAdmits(c)
    /\ Exp(c) = M3 => NoUnknownCost /\ LaneFree(c) /\ SubexperimentAdmits(c)

\* admitM3Budget, and the branch of ReserveCall for the older experiments.
BudgetAdmits(c) ==
    /\ ExperimentAdmits(c)
    /\ IF Exp(c) = M3
         THEN NoUnknownCost /\ LaneFree(c) /\ SubexperimentAdmits(c)
         ELSE InFlight = {}

\* The caller still owns the work, and so does the process it runs in.
Authorised(c) ==
    /\ Holder(c) \in open
    /\ Request[c].job = NoJob => Contract[Request[c].run].owner \in live

\* i is the API instance that serves the RPC.  Its reply may be lost: the
\* runtime then gives the attempt up, without a record and without a dispatch.
ReserveCall(c, i) ==
    /\ wire[c] = "idle"
    /\ callState[c] = "NONE"
    /\ \E S \in Together : Made \cup {c} \subseteq S
    /\ i \in live \cap Serves[c]
    /\ Authorised(c)
    /\ StageAdmits(c)
    /\ RunAdmits(c)
    /\ BudgetAdmits(c)
    /\ callState' = [callState EXCEPT ![c] = "RESERVED"]
    /\ owner' = [owner EXCEPT ![c] = i]
    /\ reserved' = [reserved EXCEPT ![Exp(c)] = @ + Upper(c)]
    /\ attempted' = [attempted EXCEPT ![Exp(c)] = @ + 1]
    /\ \E w \in {"admitted", "done"} : wire' = [wire EXCEPT ![c] = w]
    /\ UNCHANGED <<amount, callJson, audited, known, halted, open, live,
                   record, sent, charge>>

-----------------------------------------------------------------------------
(* The runtime: Model.ask between the two RPCs *)

\* mark_dispatch, then the transport.  The provider charges for the request
\* whatever becomes of its answer.
Dispatch(c) ==
    /\ wire[c] = "admitted"
    /\ wire' = [wire EXCEPT ![c] = "sent"]
    /\ sent' = sent \cup {c}
    /\ \E v \in Charge[c] : charge' = [charge EXCEPT ![c] = v]
    /\ UNCHANGED <<record, row, budget, open, live>>

\* The records Model.ask can build before and after mark_dispatch.
Outcome(c) ==
    CASE wire[c] = "admitted" -> {"not_dispatched", "unknown_unsent"}
      [] wire[c] = "sent"     -> {"usage", "unverified", "unknown_sent"}
      [] OTHER                -> {}

BuildRecord(c) ==
    /\ \E r \in Outcome(c) : record' = [record EXCEPT ![c] = r]
    /\ wire' = [wire EXCEPT ![c] = "recorded"]
    /\ UNCHANGED <<sent, charge, row, budget, open, live>>

\* The runtime is through with the attempt and forgets its record.
Finish(c) ==
    /\ wire' = [wire EXCEPT ![c] = "done"]
    /\ record' = [record EXCEPT ![c] = "none"]

\* The runtime dies, or the RPC that carries the record is lost; the runtime
\* never sends it again.
Abandon(c) ==
    /\ wire[c] \in {"admitted", "sent", "recorded"}
    /\ Finish(c)
    /\ UNCHANGED <<sent, charge, row, budget, open, live>>

-----------------------------------------------------------------------------
(* SettleCall *)

\* reconcileM4LateSettlement reads the row outside any transaction and decides
\* which transaction handles the record.
SettleRoute(c) ==
    /\ wire[c] = "recorded"
    /\ wire' = [wire EXCEPT ![c] =
           IF Exp(c) = M3 /\ (callState[c] = "UNKNOWN" \/ c \in audited)
             THEN "late" ELSE "direct"]
    /\ UNCHANGED <<record, sent, charge, row, budget, open, live>>

\* Seeded fault: a request that failed is taken for one that was not sent.
ProvesNoAnswer(r) == r \in {"not_dispatched", "unknown_sent"}

\* modelNotDispatched
ProvesNoDispatch(r) == r = "not_dispatched"

\* A record that leaves the cost open.  m3VerifiedCostAtLimit checks only M3.
CostUnknown(c) ==
    \/ record[c] \in {"unknown_sent", "unknown_unsent"}
    \/ record[c] = "unverified" /\ Exp(c) = M3

SettleRelease(c) ==
    /\ ProvesNoDispatch(record[c])
    /\ callState' = [callState EXCEPT ![c] = "SETTLED"]
    /\ amount' = [amount EXCEPT ![c] = 0]
    /\ reserved' = [reserved EXCEPT ![Exp(c)] = @ - Upper(c)]
    /\ UNCHANGED <<known, halted>>

SettleUnknown(c) ==
    /\ ~ ProvesNoDispatch(record[c])
    /\ CostUnknown(c)
    /\ callState' = [callState EXCEPT ![c] = "UNKNOWN"]
    /\ halted' = [halted EXCEPT ![Exp(c)] = "COST_UNKNOWN"]
    /\ UNCHANGED <<amount, known, reserved>>

\* Seeded fault: only the cap of the experiment is compared.
OverrunsCap(c, cost) == cost > Limit[Exp(c)].cap

Overruns(c, cost) == cost > Upper(c)

SettleCost(c) ==
    /\ ~ ProvesNoDispatch(record[c])
    /\ ~ CostUnknown(c)
    /\ callState' = [callState EXCEPT ![c] = "SETTLED"]
    /\ amount' = [amount EXCEPT ![c] = charge[c]]
    /\ known' = [known EXCEPT ![Exp(c)] = @ + charge[c]]
    /\ reserved' = [reserved EXCEPT ![Exp(c)] = @ - Upper(c)]
    /\ halted' = IF Overruns(c, charge[c])
                   THEN [halted EXCEPT ![Exp(c)] = "COST_EXCEEDED_RESERVATION"]
                   ELSE halted

\* Seeded fault: any call that was reserved can be settled, again if need be.
WasReserved(c) == callState[c] # "NONE"

\* Under the row lock a call that is no longer RESERVED is a replay or a
\* conflict: the record is refused.
StillReserved(c) == callState[c] = "RESERVED"

SettleDirect(c) ==
    /\ wire[c] = "direct"
    /\ Finish(c)
    /\ \/ /\ StillReserved(c)
          /\ SettleRelease(c) \/ SettleUnknown(c) \/ SettleCost(c)
          /\ callJson' = [callJson EXCEPT ![c] = record[c]]
          /\ attempted' = attempted
       \/ /\ ~ StillReserved(c)
          /\ UNCHANGED <<callState, amount, callJson, budget>>
    /\ UNCHANGED <<owner, audited, open, live, sent, charge>>

-----------------------------------------------------------------------------
(* Reconciliation of an UNKNOWN call *)

\* validateM4Evidence.  Usage must come from the request that was sent and may
\* not contradict the stored record; absence of a dispatch must already have
\* been proved by the stored record.
EvidenceHolds(c, kind) ==
    \/ /\ kind = "late_usage"
       /\ c \in sent
       /\ callJson[c] \in {"none", "unverified", "unknown_sent"}
    \/ /\ kind = "not_dispatched"
       /\ ProvesNoDispatch(callJson[c])

EvidenceAmount(c, kind) == IF kind = "late_usage" THEN charge[c] ELSE 0

Clearable == {"COST_UNKNOWN", "UNRESOLVED_CALL_AFTER_OWNER_LOSS"}

\* The early returns of ReconcileM4Attempt.
ReconcileAdmits(c, kind) ==
    /\ Exp(c) = M3
    /\ c \notin audited
    /\ callState[c] = "UNKNOWN"
    /\ EvidenceHolds(c, kind)
    /\ Upper(c) <= reserved[Exp(c)]

\* Seeded fault: it looks for calls in flight instead of unknown ones.
NoneInFlight(e) ==
    \A d \in Call : Exp(d) = e => callState'[d] # "RESERVED"

\* clearM4ResolvedCostHalt reads the rows as its transaction has written them.
CostsKnown(e) ==
    \A d \in Call : Exp(d) = e => callState'[d] # "UNKNOWN"
CostsCovered(e) ==
    \A d \in Call : Exp(d) = e /\ callState'[d] = "SETTLED"
                      => ~ Overruns(d, amount'[d])
ClearResolved(e, reason) ==
    IF /\ reason \in Clearable
       /\ known'[e] + reserved'[e] <= Limit[e].cap
       /\ CostsKnown(e)
       /\ CostsCovered(e)
      THEN None ELSE reason

\* ReconcileM4Attempt with apply set.
ReconcileM4Attempt(c, kind) ==
    LET e == Exp(c)
        cost == EvidenceAmount(c, kind)
        reason == IF Overruns(c, cost) \/ known'[e] + reserved'[e] > Limit[e].cap
                    THEN "COST_EXCEEDED_RESERVATION" ELSE halted[e]
    IN
    /\ ReconcileAdmits(c, kind)
    /\ audited' = audited \cup {c}
    /\ callState' = [callState EXCEPT ![c] = "SETTLED"]
    /\ amount' = [amount EXCEPT ![c] = cost]
    /\ known' = [known EXCEPT ![e] = @ + cost]
    /\ reserved' = [reserved EXCEPT ![e] = @ - Upper(c)]
    /\ halted' = [halted EXCEPT ![e] = ClearResolved(e, reason)]
    /\ UNCHANGED <<callJson, owner, attempted>>

\* The operator's command, with evidence from the provider.
OperatorReconcile(c) ==
    /\ \E kind \in {"late_usage", "not_dispatched"} :
          ReconcileM4Attempt(c, kind)
    /\ UNCHANGED <<open, live, runtime>>

\* A SettleCall that was routed to reconciliation.  Its own record is the
\* evidence; anything but priced usage or a proved non-dispatch is rejected.
LateKind(c) ==
    CASE ProvesNoDispatch(record[c])  -> "not_dispatched"
      [] record[c] = "usage"          -> "late_usage"
      [] OTHER                        -> "rejected"

SettleLate(c) ==
    /\ wire[c] = "late"
    /\ Finish(c)
    /\ \/ ReconcileM4Attempt(c, LateKind(c))
       \/ /\ ~ ReconcileAdmits(c, LateKind(c))
          /\ UNCHANGED <<row, budget>>
    /\ UNCHANGED <<open, live, sent, charge>>

\* ReconcileM2Attempt: the provider's hourly bill shows that the one rejected
\* request of the hour cost nothing.
ReconcileM2Attempt(c) ==
    LET e == Exp(c) IN
    /\ e # M3
    /\ callState[c] = "UNKNOWN"
    /\ callJson[c] = "unknown_sent" /\ charge[c] = 0
    /\ halted[e] \in Clearable
    /\ Run \cap open = {}
    /\ InFlight = {}
    /\ \A d \in Call \ {c} : Exp(d) = e => callState[d] # "UNKNOWN"
    /\ Upper(c) <= reserved[e]
    /\ callState' = [callState EXCEPT ![c] = "SETTLED"]
    /\ amount' = [amount EXCEPT ![c] = 0]
    /\ reserved' = [reserved EXCEPT ![e] = @ - Upper(c)]
    /\ halted' = [halted EXCEPT ![e] = None]
    /\ UNCHANGED <<callJson, owner, audited, known, attempted, open, live,
                   runtime>>

-----------------------------------------------------------------------------
(* Owners come and go, and sweeps take over their calls *)

\* The calls of S lose their owner: their cost is unknown, not zero.
MarkUnknown(S) ==
    callState' = [c \in Call |-> IF c \in S THEN "UNKNOWN" ELSE callState[c]]

\* COALESCE(halted_reason, ...) on every budget with an unknown call in scope.
HaltForOwnerLoss(scope) ==
    halted' = [e \in Experiment |->
        IF /\ halted[e] = None
           /\ \E c \in scope : Exp(c) = e /\ callState'[c] = "UNKNOWN"
          THEN "UNRESOLVED_CALL_AFTER_OWNER_LOSS" ELSE halted[e]]

Swept == <<amount, callJson, owner, audited, known, reserved, attempted,
           live, runtime>>

\* A run or a job ends without looking at its calls (the run's own completion
\* or cancellation, FinishJob).
EndWork(h) ==
    /\ h \in open
    /\ open' = open \ {h}
    /\ UNCHANGED <<row, budget, live, runtime>>

\* m4MarkUnresolvedCallsTx, inside the transaction that revokes a lease or
\* ends the work.  A revoked job may stay open, for another owner.
RevokeWork(h) ==
    LET scope == {c \in Call : Holder(c) = h} IN
    /\ h \in open
    /\ MarkUnknown(scope \cap InFlight)
    /\ HaltForOwnerLoss(scope)
    /\ open' \in {open \ {h}} \cup (IF h \in Job THEN {open} ELSE {})
    /\ UNCHANGED Swept

\* Seeded fault: only the calls of jobs are found.
TerminalJobCalls ==
    {c \in InFlight : Request[c].job # NoJob /\ Holder(c) \notin open}

\* m4TerminalCallSQL
TerminalCalls == {c \in InFlight : Holder(c) \notin open}

\* recoverM4TerminalCalls
RecoverTerminalCalls ==
    LET orphan == TerminalCalls
        scope == {c \in Call : \E d \in orphan :
                                  Request[c].run = Request[d].run} IN
    /\ orphan # {}
    /\ MarkUnknown(orphan)
    /\ HaltForOwnerLoss(scope)
    /\ UNCHANGED <<open, Swept>>

\* An API instance stops, or its lease runs out.  One instance survives.
StopInstance(i) ==
    /\ i \in live
    /\ live # {i}
    /\ live' = live \ {i}
    /\ UNCHANGED <<row, budget, open, runtime>>

\* recoverM4OwnedWork: interrupts the runs of stopped instances and takes over
\* the calls they admitted.
RecoverOwnedWork ==
    LET orphan == {c \in InFlight : owner[c] \notin live}
        lost == {r \in Run \cap open : Contract[r].owner \notin live} IN
    /\ orphan # {} \/ lost # {}
    /\ open' = open \ lost
    /\ MarkUnknown(orphan)
    /\ HaltForOwnerLoss(Call)
    /\ UNCHANGED Swept

\* The operator stops an experiment by hand.
OperatorHalt(e) ==
    /\ halted' = [halted EXCEPT ![e] = "OPERATOR_HALT"]
    /\ UNCHANGED <<row, known, reserved, attempted, open, live, runtime>>

-----------------------------------------------------------------------------
RuntimeStep(c) ==
    \/ \E i \in Instance : ReserveCall(c, i)
    \/ Dispatch(c)
    \/ BuildRecord(c)
    \/ Abandon(c)
    \/ SettleRoute(c)
    \/ SettleDirect(c)
    \/ SettleLate(c)

Next ==
    \/ \E c \in Call : RuntimeStep(c)
    \/ \E c \in Call : OperatorReconcile(c)
    \/ \E c \in Call : ReconcileM2Attempt(c)
    \/ \E h \in Run \cup Job : EndWork(h)
    \/ \E h \in Run \cup Job : RevokeWork(h)
    \/ RecoverTerminalCalls
    \/ \E i \in Instance : StopInstance(i)
    \/ RecoverOwnedWork
    \/ \E e \in Experiment : OperatorHalt(e)

Spec == Init /\ [][Next]_vars

\* The maintenance loop keeps running both sweeps, and every run and job ends:
\* each has a deadline.  The runtime owes nothing.
Fairness ==
    /\ WF_vars(RecoverTerminalCalls)
    /\ WF_vars(RecoverOwnedWork)
    /\ \A h \in Run \cup Job : WF_vars(EndWork(h))

FairSpec == Spec /\ Fairness

-----------------------------------------------------------------------------
(* Properties *)

TypeOK ==
    /\ callState \in [Call -> CallState]
    /\ amount \in [Call -> Nat]
    /\ callJson \in [Call -> Record]
    /\ owner \in [Call -> Instance \cup {None}]
    /\ audited \subseteq Call
    /\ known \in [Experiment -> Nat]
    /\ reserved \in [Experiment -> Int]
    /\ attempted \in [Experiment -> Nat]
    /\ halted \in [Experiment -> Halt \cup {None}]
    /\ open \subseteq Run \cup Job
    /\ live \subseteq Instance
    /\ wire \in [Call -> {"idle", "admitted", "sent", "recorded", "direct",
                         "late", "done"}]
    /\ record \in [Call -> Record]
    /\ sent \subseteq Call
    /\ charge \in [Call -> Nat]

\* The counters of an experiment are what its calls say they are: nothing a
\* sweep, a late settlement or a reconciliation does is counted twice or lost.
LedgerBalanced ==
    \A e \in Experiment :
        LET mine == {c \in Made : Exp(c) = e} IN
        /\ reserved[e] = MapThenSumSet(Upper, mine \cap Unresolved)
        /\ known[e] = MapThenSumSet(LAMBDA c : amount[c], mine \ Unresolved)
        /\ attempted[e] = Cardinality(mine)

\* While the cost of a call is unknown, its experiment admits nothing.
UnknownHalts ==
    \A c \in Call : callState[c] = "UNKNOWN" => halted[Exp(c)] # None

\* An experiment that has been charged more than a call had reserved, or that
\* stands above its cap, stays halted whatever is resolved later.
OverrunHalts ==
    \A e \in Experiment :
        \/ known[e] + reserved[e] > Limit[e].cap
        \/ \E c \in Call : /\ Exp(c) = e /\ callState[c] = "SETTLED"
                           /\ amount[c] > Upper(c)
        => halted[e] # None

\* Two M3 requests are never in flight in one lane, from whichever run, job or
\* API instance they come.
LanesExclusive ==
    \A c, d \in InFlight :
        c # d => Foreground(c) # Foreground(d)

Phase(c) ==
    CASE callState[c] = "NONE"    -> "none"
      [] callState[c] = "SETTLED" -> "closed"
      [] OTHER                    -> "held"

Abstract == INSTANCE PaidCall WITH
    phase <- [c \in Call |-> Phase(c)], spent <- charge, paid <- amount

\* Every paid request is dispatched under a reservation that is still held, and
\* a reservation is closed once, at the provider's charge: no sweep and no
\* operator can write off a request that was, or still can be, sent.
HoldsUntilPaid == Abstract!Spec

\* No call stays in flight for ever, even if its worker or its API instance
\* dies: it is settled, or a sweep finds it.
ReservedResolves ==
    \A c \in Call : callState[c] = "RESERVED" ~> callState[c] # "RESERVED"

-----------------------------------------------------------------------------
(* What comments of the repository say and the code does not do *)

\* m4_reconciliation.go: "Manual and over-reservation halts are never cleared
\* by a cost-only resolution."  Nothing but an operator may reopen an
\* experiment that an operator has halted.
ManualHaltStays ==
    \A e \in Experiment :
        [](halted[e] = "OPERATOR_HALT" => [](halted[e] # None))

\* m3_budget.go: "Unknown outcomes block new paid work globally."
UnknownBlocksAllSpending ==
    [][\A c \in Call : callState[c] = "NONE" /\ callState'[c] = "RESERVED"
                      => NoUnknownCost]_vars
=============================================================================
