---------------------------- MODULE JobLifecycle ----------------------------
(***************************************************************************)
(* Background extraction jobs of one run: tables m3_jobs and               *)
(* extraction_batches, the RPCs by which a Python worker claims a job,     *)
(* extracts, validates, probes and publishes, and the cancellations and    *)
(* sweeps that take jobs away from workers.                                *)
(*                                                                         *)
(* Every RPC and every sweep locks the run and then the job, so each is    *)
(* one atomic action.  A reply may be lost, a worker may die anywhere.     *)
(*                                                                         *)
(* Bounds: a worker is one incarnation (each claim uses a fresh            *)
(* lease_owner) and makes at most one call of each stage.  Time is reduced *)
(* to whether a deadline or a lease has run out: RenewJob only postpones   *)
(* ExpireLease.  The money of a call is CallLedger's subject; of a call    *)
(* only its state and whether its record holds an answer are kept here.    *)
(***************************************************************************)
EXTENDS Naturals, FiniteSets

CONSTANTS
    Job, Worker, Instance,
    RunOwner,            \* the API instance that runs the foreground
    M4RecoveryEnabled,   \* cfg.M4RecoveryEnabled
    ProbeEnabled,        \* probe_enabled of the run's contract
    MaxTrouble,          \* bound: how many of the things below go wrong
    Serves,              \* bound: the instances that serve a worker
    None

ASSUME JobAssumption ==
    /\ RunOwner \in Instance
    /\ {M4RecoveryEnabled, ProbeEnabled} \subseteq BOOLEAN
    /\ MaxTrouble \in Nat
    /\ Serves \in [Worker -> SUBSET Instance]
    /\ None \notin Job \cup Worker \cup Instance
    /\ None \notin {"content", "failed", "some", "none"}

Stage == {"extraction", "probe"}
Open == {"WAITING_PREFIX", "RUNNING", "RESULT_READY"}
Terminal == {"COMMITTED", "SKIPPED", "FAILED", "OUTCOME_UNKNOWN"}
RunState == {"RUNNING", "COMPLETED", "FAILED", "CANCELLED", "INTERRUPTED"}

VARIABLES
    run, cancelled,         \* query_runs.state, cancel_requested_at
    expired, current,       \* the deadline has passed; scope and config hold
    upgraded,               \* the APIs now run another ConfigVersion
    live,                   \* API instances that are not stopped
    state, owner, leaseLive, leaseInst, fence,             \* m3_jobs
    waiting,                \* its failure_reason is M4_WAITING_RECOVERY
    raw, report, reportBy, published, probeRound,  \* extraction_batches
    callState, callInst, recorded,         \* llm_calls, by worker and stage
    task,         \* what the worker is at, and what it holds
    job,          \* the job it has claimed
    sent          \* the requests that have left the runtime

runRow   == <<run, cancelled>>
world    == <<expired, current, upgraded, live>>
lease    == <<owner, leaseLive, leaseInst>>
jobRow   == <<state, owner, leaseLive, leaseInst, fence, waiting>>
batch    == <<raw, report, reportBy, published, probeRound>>
calls    == <<callState, callInst, recorded>>
work     == <<task, job, sent>>
vars     == <<run, cancelled, expired, current, upgraded, live, state, owner,
              leaseLive, leaseInst, fence, waiting, raw, report, reportBy,
              published, probeRound, callState, callInst, recorded, task,
              job, sent>>

\* A worker that has nothing: token is the fence it was given, ready says that
\* it knows of stored candidates, using names the report it would commit.
Nothing == [pc |-> "idle", token |-> 0, ready |-> FALSE, answer |-> None,
            using |-> None, stage |-> "extraction"]

Init ==
    /\ run = "RUNNING" /\ cancelled = FALSE
    /\ expired = FALSE /\ current = TRUE /\ upgraded = FALSE
    /\ live = Instance
    /\ state      = [j \in Job |-> "NONE"]
    /\ owner      = [j \in Job |-> None]
    /\ leaseLive  = [j \in Job |-> FALSE]
    /\ leaseInst  = [j \in Job |-> None]
    /\ fence      = [j \in Job |-> 0]
    /\ waiting    = [j \in Job |-> FALSE]
    /\ raw        = [j \in Job |-> None]
    /\ report     = [j \in Job |-> None]
    /\ reportBy   = [j \in Job |-> None]
    /\ published  = [j \in Job |-> FALSE]
    /\ probeRound = [j \in Job |-> 0]
    /\ callState  = [w \in Worker |-> [s \in Stage |-> "NONE"]]
    /\ callInst   = [w \in Worker |-> [s \in Stage |-> None]]
    /\ recorded   = [w \in Worker |-> {}]
    /\ task = [w \in Worker |-> Nothing]
    /\ job  = [w \in Worker |-> None]
    /\ sent = [w \in Worker |-> {}]

-----------------------------------------------------------------------------
(* What the handlers read *)

IsOpen(j) == state[j] \in Open
HasCandidates(j) == raw[j] # None

\* The calls made for a job, as <<worker, stage>>.
CallsOf(j) ==
    {c \in Worker \X Stage :
        job[c[1]] = j /\ callState[c[1]][c[2]] # "NONE"}
StageCalls(j, s) == {c \in CallsOf(j) : c[2] = s}
Unresolved(j) ==
    \E c \in CallsOf(j) : callState[c[1]][c[2]] \in {"RESERVED", "UNKNOWN"}

\* The record of a settled call holds the provider's answer.
HasContent(c) ==
    callState[c[1]][c[2]] = "SETTLED" /\ c[2] \in recorded[c[1]]

\* m4RecordedExtraction: exactly one settled extraction, with its content.
RecordedExtraction(j) ==
    \E c \in StageCalls(j, "extraction") :
        /\ HasContent(c)
        /\ \A d \in StageCalls(j, "extraction") :
              d # c => callState[d[1]][d[2]] # "SETTLED"

Holds(w) == owner[job[w]] = w /\ fence[job[w]] = task[w].token

\* Seeded fault: neither owner nor fence is compared.
ValidateJobUnfenced(w) ==
    LET j == job[w] IN
    /\ state[j] \notin {"SKIPPED", "FAILED", "OUTCOME_UNKNOWN"}
    /\ ~ cancelled /\ ~ expired
    /\ leaseLive[j] /\ leaseInst[j] \in live

\* validateM3JobTx
ValidateJob(w) ==
    LET j == job[w] IN
    /\ Holds(w)
    /\ state[j] \notin {"SKIPPED", "FAILED", "OUTCOME_UNKNOWN"}
    /\ ~ cancelled
    /\ \/ run \in {"RUNNING", "COMPLETED"}
       \/ run = "INTERRUPTED" /\ state[j] \in {"RUNNING", "RESULT_READY",
                                               "COMMITTED"}
    /\ ~ expired
    /\ leaseLive[j]
    /\ leaseInst[j] \in live

\* Seeded fault: the job is not validated again.
JobTransactionUnchecked(w) ==
    ~ upgraded /\ current /\ run \in {"RUNNING", "COMPLETED", "INTERRUPTED"}

\* m2Transaction on behalf of a job, with the authorize it starts with.
JobTransaction(w) ==
    /\ ~ upgraded
    /\ run \in {"RUNNING", "COMPLETED", "INTERRUPTED"}
    /\ ValidateJob(w)
    /\ current

Pc(w) == task[w].pc

\* The worker goes on at p; it can only label its job; it is through.
At(w, p) == [task[w] EXCEPT !.pc = p]
Failing(w) ==
    [Nothing EXCEPT !.pc = "finish", !.token = task[w].token,
                    !.ready = task[w].ready]
Done == [Nothing EXCEPT !.pc = "done"]

\* The worker becomes t; or the reply of its RPC is lost, and to the worker
\* the RPC has failed.
Becomes(w, t) == task' = [task EXCEPT ![w] = t]
Reply(w, t) == Becomes(w, t) \/ Becomes(w, Failing(w))

-----------------------------------------------------------------------------
(* The foreground *)

\* Instances that stop, a failed run, a cancellation, a lost scope and an
\* upgrade, all together, are at most MaxTrouble.
Happened(b) == IF b THEN 1 ELSE 0
Quiet ==
    Cardinality(Instance \ live) + Happened(run = "FAILED")
      + Happened(cancelled) + Happened(~ current) + Happened(upgraded)
        < MaxTrouble

\* createM3Job
CreateJob(j) ==
    /\ state[j] = "NONE"
    /\ run = "RUNNING" /\ RunOwner \in live
    /\ ~ expired /\ current /\ ~ upgraded
    /\ state' = [state EXCEPT ![j] = "WAITING_PREFIX"]
    /\ UNCHANGED <<runRow, world, lease, fence, waiting, batch, calls, work>>

EndRun(s) ==
    /\ run = "RUNNING"
    /\ s = "FAILED" => Quiet
    /\ run' = s
    /\ UNCHANGED <<cancelled, world, jobRow, batch, calls, work>>

-----------------------------------------------------------------------------
(* The worker *)

\* Seeded fault: calls whose outcome is open do not keep a job from being
\* claimed.
ClaimableOverUnknown(j) ==
    /\ ~ cancelled /\ ~ expired /\ current /\ ~ upgraded
    /\ IsOpen(j) /\ ~ leaseLive[j]
    /\ ~ HasCandidates(j) /\ CallsOf(j) # {} => RecordedExtraction(j)

\* acquireM3Lease
Claimable(j) ==
    /\ ~ cancelled /\ run \in {"RUNNING", "COMPLETED", "INTERRUPTED"}
    /\ run = "INTERRUPTED" /\ ~ M4RecoveryEnabled
           => state[j] = "RESULT_READY" /\ HasCandidates(j)
    /\ ~ expired /\ current /\ ~ upgraded
    /\ IsOpen(j)
    /\ ~ leaseLive[j]
    /\ ~ Unresolved(j)
    /\ ~ HasCandidates(j) /\ CallsOf(j) # {}
           => M4RecoveryEnabled /\ RecordedExtraction(j)

\* Where a worker goes with the job it has got: it may continue from the
\* report it finds, validates the candidates it finds, or uses the recorded
\* answer it finds.
FirstSteps(j) ==
    CASE HasCandidates(j) -> {"validate"} \cup
                   (IF report[j] = None THEN {} ELSE {"commit", "doubt"})
      [] RecordedExtraction(j) -> {"store"}
      [] OTHER -> {"extract"}

ClaimJob(w, j, i) ==
    /\ Pc(w) = "idle"
    /\ i \in live \cap Serves[w]
    /\ Claimable(j)
    /\ state' = [state EXCEPT ![j] =
           IF HasCandidates(j) THEN "RESULT_READY" ELSE "RUNNING"]
    /\ owner' = [owner EXCEPT ![j] = w]
    /\ leaseLive' = [leaseLive EXCEPT ![j] = TRUE]
    /\ leaseInst' = [leaseInst EXCEPT ![j] = i]
    /\ fence' = [fence EXCEPT ![j] = @ + 1]
    /\ job' = [job EXCEPT ![w] = j]
    /\ \/ \E p \in FirstSteps(j) : Becomes(w,
             [pc |-> p, token |-> fence[j] + 1, ready |-> HasCandidates(j),
              answer |-> IF p = "store" THEN "content" ELSE None,
              using |-> reportBy[j], stage |-> "extraction"])
       \/ Becomes(w, Done)    \* it never learns of its lease
    /\ UNCHANGED <<runRow, world, waiting, batch, calls, sent>>

\* admitM2Stage
StageAdmits(j, s) ==
    IF s = "extraction"
      THEN StageCalls(j, s) = {} /\ ~ HasCandidates(j)
      ELSE probeRound[j] = 1 /\ Cardinality(StageCalls(j, s)) < 2

\* ReserveCall.  i is the instance that serves it.
ReserveCall(w, i) ==
    LET s == task[w].stage IN
    /\ Pc(w) \in {"extract", "probe"}
    /\ i \in live \cap Serves[w]
    /\ ~ upgraded
    /\ \/ run \in {"RUNNING", "COMPLETED"}
       \/ run = "INTERRUPTED" /\ M4RecoveryEnabled
    /\ ValidateJob(w)
    /\ current
    /\ StageAdmits(job[w], s)
    /\ callState' = [callState EXCEPT ![w][s] = "RESERVED"]
    /\ callInst' = [callInst EXCEPT ![w][s] = i]
    /\ Reply(w, At(w, "admitted"))
    /\ UNCHANGED <<runRow, world, jobRow, batch, recorded, job, sent>>

\* The request leaves the runtime.
Dispatch(w) ==
    /\ Pc(w) = "admitted"
    /\ Becomes(w, At(w, "sent"))
    /\ sent' = [sent EXCEPT ![w] = @ \cup {task[w].stage}]
    /\ UNCHANGED <<runRow, world, jobRow, batch, calls, job>>

\* The records Model.ask can build: proof that nothing was dispatched, an
\* answer, a priced failure, or a cost nobody knows.
Outcome(w) ==
    CASE Pc(w) = "admitted" -> {"not_dispatched", "unpriced"}
      [] Pc(w) = "sent"     -> {"content", "priced", "unpriced"}
      [] OTHER              -> {}

\* SettleCall needs no lease.  A call that a sweep has taken over goes through
\* reconciliation, which settles its cost but keeps no answer.
SettledState(s, r) ==
    CASE s = "RESERVED" /\ r # "unpriced" -> "SETTLED"
      [] s = "RESERVED" /\ r = "unpriced" -> "UNKNOWN"
      [] s = "UNKNOWN" /\ r \in {"content", "priced"} -> "SETTLED"
      [] OTHER -> s

\* After an extraction the worker stores the answer, or a failure; after a
\* probe it validates again.  An unknown cost ends its work.
AfterSettle(w, r) ==
    LET got == IF r = "content" THEN "content" ELSE "failed" IN
    {Failing(w)} \cup
    IF task[w].stage = "extraction"
      THEN {[At(w, p) EXCEPT !.answer = got] : p \in
               IF r = "content" THEN {"store", "store_failure"}
                                ELSE {"store_failure"}}
      ELSE IF r = "unpriced" THEN {} ELSE {At(w, "validate")}

SettleCall(w) ==
    LET s == task[w].stage IN
    /\ ~ upgraded
    /\ \E r \in Outcome(w) :
          /\ callState' = [callState EXCEPT ![w][s] = SettledState(@, r)]
          /\ recorded' = IF r = "content" /\ callState[w][s] = "RESERVED"
                           THEN [recorded EXCEPT ![w] = @ \cup {s}]
                           ELSE recorded
          /\ \E t \in AfterSettle(w, r) : Becomes(w, t)
    /\ UNCHANGED <<runRow, world, jobRow, batch, callInst, job, sent>>

\* StoreCandidates.  The first result stays; an equal one is a replay.
StoreCandidates(w) ==
    LET j == job[w]
        t == [task[w] EXCEPT !.answer = None] IN
    /\ Pc(w) \in {"store", "store_failure"}
    /\ JobTransaction(w)
    /\ raw[j] \in {None, task[w].answer}
    /\ raw' = [raw EXCEPT ![j] = task[w].answer]
    /\ state' = [state EXCEPT ![j] =
           IF HasCandidates(j) THEN @ ELSE "RESULT_READY"]
    /\ \/ /\ Pc(w) = "store"
          /\ Reply(w, [t EXCEPT !.pc = "validate", !.ready = TRUE])
       \/ /\ Pc(w) = "store_failure"
          /\ \E b \in BOOLEAN : Becomes(w, [Failing(w) EXCEPT !.ready = b])
    /\ UNCHANGED <<runRow, world, lease, fence, waiting, report, reportBy,
                   published, probeRound, calls, job, sent>>

\* ValidateCandidates.  Only an answer can hold candidates that pass.
Verdicts(j) == IF raw[j] = "content" THEN {"some", "none"} ELSE {"none"}

ValidateCandidates(w) ==
    LET j == job[w]
        t == [task[w] EXCEPT !.using = w] IN
    /\ Pc(w) = "validate"
    /\ JobTransaction(w)
    /\ HasCandidates(j) /\ ~ published[j]
    /\ \E v \in Verdicts(j) : report' = [report EXCEPT ![j] = v]
    /\ reportBy' = [reportBy EXCEPT ![j] = w]
    /\ \/ Reply(w, [t EXCEPT !.pc = "commit"])
       \/ t.stage # "probe" /\ Reply(w, [t EXCEPT !.pc = "doubt"])
    /\ UNCHANGED <<runRow, world, jobRow, raw, published, probeRound, calls,
                   job, sent>>

\* Seeded fault: a failed probe call counts as an answered one.
ProbeAnsweredIfSettled(j) == ~ Unresolved(j)

\* m4ResumeProbe: every call of the round has its answer.
ProbeAnswered(j) ==
    ~ Unresolved(j) /\ \A c \in StageCalls(j, "probe") : HasContent(c)

\* BeginProbe opens the batch's one probe round, or resumes it for a worker
\* that recovers the job.
BeginProbe(w) ==
    LET j == job[w] IN
    /\ Pc(w) = "doubt" /\ ProbeEnabled
    /\ JobTransaction(w)
    /\ report[j] # None /\ ~ published[j]
    /\ probeRound[j] = 0 \/ ProbeAnswered(j)
    /\ probeRound' = [probeRound EXCEPT ![j] = 1]
    /\ Reply(w, [At(w, "probe") EXCEPT !.stage = "probe"])
    /\ UNCHANGED <<runRow, world, jobRow, raw, report, reportBy, published,
                   calls, job, sent>>

\* A probe that is disabled, refused or out of calls leaves the doubts open.
SkipProbe(w) ==
    /\ Pc(w) \in {"doubt", "probe"}
    /\ Becomes(w, [At(w, "validate") EXCEPT !.stage = "probe"])
    /\ UNCHANGED <<runRow, world, jobRow, batch, calls, job, sent>>

\* CommitExtraction: facts, batch and job in one transaction.  Only the latest
\* report can be published.
CommitExtraction(w) ==
    LET j == job[w] IN
    /\ Pc(w) = "commit"
    /\ JobTransaction(w)
    /\ reportBy[j] = task[w].using
    /\ IF report[j] = "some"
         THEN /\ published' = [published EXCEPT ![j] = TRUE]
              /\ state' = [state EXCEPT ![j] = "COMMITTED"]
         ELSE /\ published' = published
              /\ state' = [state EXCEPT ![j] = "SKIPPED"]
    /\ waiting' = [waiting EXCEPT ![j] = FALSE]
    /\ Reply(w, Done)
    /\ UNCHANGED <<runRow, world, lease, fence, raw, report, reportBy,
                   probeRound, calls, job, sent>>

\* An RPC was refused or failed: the worker can only label the job.
GiveUp(w) ==
    /\ Pc(w) \notin {"idle", "finish", "done"}
    /\ Becomes(w, Failing(w))
    /\ UNCHANGED <<runRow, world, jobRow, batch, calls, job, sent>>

\* The labels a worker proposes.
Labels(w) == {"SKIPPED", "OUTCOME_UNKNOWN",
              IF task[w].ready THEN "RESULT_READY" ELSE "FAILED"}

\* FinishJob: the ledger outranks the label.
FinalState(j, label) ==
    CASE Unresolved(j) -> "OUTCOME_UNKNOWN"
      [] ~ Unresolved(j) /\ label \in {"SKIPPED", "FAILED"} /\ expired -> "SKIPPED"
      [] OTHER -> label

FinishJob(w) ==
    LET j == job[w] IN
    /\ Pc(w) = "finish"
    /\ ~ upgraded
    /\ Holds(w)
    /\ IsOpen(j)
    /\ leaseInst[j] \in live
    /\ \E label \in Labels(w) :
         /\ state' = [state EXCEPT ![j] = FinalState(j, label)]
         /\ IF state'[j] = "RESULT_READY"
              THEN /\ HasCandidates(j) /\ ValidateJob(w) /\ current
                   /\ owner' = [owner EXCEPT ![j] = None]
                   /\ leaseLive' = [leaseLive EXCEPT ![j] = FALSE]
                   /\ fence' = [fence EXCEPT ![j] = @ + 1]
              ELSE UNCHANGED <<owner, leaseLive, fence>>
    /\ waiting' = [waiting EXCEPT ![j] = FALSE]
    /\ Becomes(w, Done)
    /\ UNCHANGED <<runRow, world, leaseInst, batch, calls, job, sent>>

\* The worker dies, or its heartbeat fails, or its FinishJob does.
Stop(w) ==
    /\ Pc(w) \notin {"idle", "done"}
    /\ Becomes(w, Done)
    /\ UNCHANGED <<runRow, world, jobRow, batch, calls, job, sent>>

-----------------------------------------------------------------------------
(* Cancellation *)

\* Seeded fault: a cancellation does not look at the ledger.
CancelledStateBlind(j) == "SKIPPED"

CancelledState(j) == IF Unresolved(j) THEN "OUTCOME_UNKNOWN" ELSE "SKIPPED"

CancelOpenJobs ==
    /\ cancelled \/ Quiet
    /\ cancelled' = TRUE
    /\ state' = [j \in Job |-> IF IsOpen(j) THEN CancelledState(j) ELSE state[j]]
    /\ fence' = [j \in Job |-> IF IsOpen(j) THEN fence[j] + 1 ELSE fence[j]]
    /\ waiting' = [j \in Job |-> waiting[j] /\ ~ IsOpen(j)]
    /\ UNCHANGED <<world, leaseInst, batch, calls, work>>

\* cancelQuery: a completed answer stays completed.
CancelQuery ==
    /\ CancelOpenJobs
    /\ run' = IF run = "RUNNING" THEN "CANCELLED" ELSE run
    /\ UNCHANGED <<owner, leaseLive>>

\* CancelJobs
CancelJobs ==
    /\ CancelOpenJobs
    /\ ~ upgraded
    /\ owner' = [j \in Job |-> IF IsOpen(j) THEN None ELSE owner[j]]
    /\ leaseLive' = [j \in Job |-> leaseLive[j] /\ ~ IsOpen(j)]
    /\ UNCHANGED run

-----------------------------------------------------------------------------
(* Sweeps *)

\* The calls in S that are in flight become unknown.
MarkUnknown(S) ==
    callState' = [w \in Worker |-> [s \in Stage |->
        IF <<w, s>> \in S /\ callState[w][s] = "RESERVED"
          THEN "UNKNOWN" ELSE callState[w][s]]]

ClearLease(j) ==
    /\ owner' = [owner EXCEPT ![j] = None]
    /\ leaseLive' = [leaseLive EXCEPT ![j] = FALSE]
    /\ fence' = [fence EXCEPT ![j] = @ + 1]

\* m4AbandonedLeaseSQL, and a job nobody owns in an interrupted run.
Abandoned(j) ==
    \/ owner[j] # None /\ (~ leaseLive[j] \/ leaseInst[j] \notin live)
    \/ owner[j] = None /\ run = "INTERRUPTED" /\ ~ waiting[j]

RecoveredState(j) ==
    CASE Unresolved(j) -> "OUTCOME_UNKNOWN"
      [] ~ Unresolved(j) /\ HasCandidates(j) -> "RESULT_READY"
      [] ~ Unresolved(j) /\ ~ HasCandidates(j) ->
           IF CallsOf(j) # {} /\ ~ RecordedExtraction(j) THEN "OUTCOME_UNKNOWN"
           ELSE IF M4RecoveryEnabled THEN "WAITING_PREFIX" ELSE "SKIPPED"

\* recoverM4JobLeases
RecoverJobLease(j) ==
    /\ IsOpen(j)
    /\ Abandoned(j)
    /\ MarkUnknown(CallsOf(j))
    /\ state' = [state EXCEPT ![j] = RecoveredState(j)]
    /\ waiting' = [waiting EXCEPT ![j] = RecoveredState(j) \in Open]
    /\ ClearLease(j)
    /\ leaseInst' = [leaseInst EXCEPT ![j] = None]
    /\ UNCHANGED <<runRow, world, batch, callInst, recorded, work>>

\* Seeded fault: jobs whose candidates are stored are left alone.
MustEndUnlessReady(j) ==
    /\ state[j] \in {"WAITING_PREFIX", "RUNNING"}
    /\ expired \/ cancelled \/ run \in {"FAILED", "CANCELLED"} \/ ~ current

\* reconcileM3Jobs
MustEnd(j) ==
    /\ IsOpen(j)
    /\ expired \/ cancelled \/ run \in {"FAILED", "CANCELLED"} \/ ~ current

TerminateJob(j) ==
    /\ MustEnd(j)
    /\ MarkUnknown(CallsOf(j))
    /\ state' = [state EXCEPT ![j] = CancelledState(j)]
    /\ waiting' = [waiting EXCEPT ![j] = FALSE]
    /\ ClearLease(j)
    /\ UNCHANGED <<runRow, world, leaseInst, batch, callInst, recorded, work>>

\* handleM4Notification and failM4Recovery, for a run whose ConfigVersion this
\* API no longer serves.  The handler had found the job abandoned; its
\* transaction looks again at the lease, and at the calls to name the end.
FailRecovery(j) ==
    /\ M4RecoveryEnabled /\ upgraded
    /\ IsOpen(j)
    /\ ~ leaseLive[j]
    /\ state' = [state EXCEPT ![j] = IF Unresolved(j) THEN "OUTCOME_UNKNOWN" ELSE "FAILED"]
    /\ waiting' = [waiting EXCEPT ![j] = FALSE]
    /\ ClearLease(j)
    /\ leaseInst' = [leaseInst EXCEPT ![j] = None]
    /\ UNCHANGED <<runRow, world, batch, calls, work>>

InFlight ==
    {c \in Worker \X Stage : callState[c[1]][c[2]] = "RESERVED"}

\* Seeded fault: calls of jobs that were already known to be uncertain are
\* forgotten.
TerminalCallsButUnknown ==
    {c \in InFlight : state[job[c[1]]] \in Terminal \ {"OUTCOME_UNKNOWN"}}

\* recoverM4TerminalCalls
TerminalCalls == {c \in InFlight : state[job[c[1]]] \in Terminal}

RecoverTerminalCalls ==
    /\ TerminalCalls # {}
    /\ MarkUnknown(TerminalCalls)
    /\ UNCHANGED <<runRow, world, jobRow, batch, callInst, recorded, work>>

\* recoverM4OwnedWork
RecoverOwnedWork ==
    LET orphans == {c \in InFlight : callInst[c[1]][c[2]] \notin live}
        lost == run = "RUNNING" /\ RunOwner \notin live IN
    /\ lost \/ orphans # {}
    /\ run' = IF lost THEN "INTERRUPTED" ELSE run
    /\ MarkUnknown(orphans)
    /\ UNCHANGED <<cancelled, world, jobRow, batch, callInst, recorded, work>>

\* A reconciliation settles the cost of a request that was sent; see CallLedger.
ReconcileCall(w, s) ==
    /\ callState[w][s] = "UNKNOWN"
    /\ s \in sent[w]
    /\ callState' = [callState EXCEPT ![w][s] = "SETTLED"]
    /\ UNCHANGED <<runRow, world, jobRow, batch, callInst, recorded, work>>

-----------------------------------------------------------------------------
(* The world *)

StopInstance(i) ==
    /\ i \in live /\ live # {i}    \* one instance survives
    /\ Quiet
    /\ live' = live \ {i}
    /\ UNCHANGED <<expired, current, upgraded, runRow, jobRow, batch, calls,
                   work>>

ExpireLease(j) ==
    /\ leaseLive[j]
    /\ leaseLive' = [leaseLive EXCEPT ![j] = FALSE]
    /\ UNCHANGED <<runRow, world, state, owner, leaseInst, fence, waiting,
                   batch, calls, work>>

\* A lease never outlives the deadline of its job.
PassDeadline ==
    /\ ~ expired
    /\ expired' = TRUE
    /\ leaseLive' = [j \in Job |-> FALSE]
    /\ UNCHANGED <<current, upgraded, live, runRow, state, owner, leaseInst,
                   fence, waiting, batch, calls, work>>

\* A document gets a new version or is revoked.
LoseScope ==
    /\ Quiet
    /\ current /\ current' = FALSE
    /\ UNCHANGED <<expired, upgraded, live, runRow, jobRow, batch, calls, work>>

Upgrade ==
    /\ Quiet
    /\ ~ upgraded /\ upgraded' = TRUE
    /\ UNCHANGED <<expired, current, live, runRow, jobRow, batch, calls, work>>

-----------------------------------------------------------------------------
WorkerStep(w) ==
    \/ \E j \in Job, i \in Instance : ClaimJob(w, j, i)
    \/ \E i \in Instance : ReserveCall(w, i)
    \/ Dispatch(w)
    \/ SettleCall(w)
    \/ StoreCandidates(w)
    \/ ValidateCandidates(w)
    \/ BeginProbe(w)
    \/ SkipProbe(w)
    \/ CommitExtraction(w)
    \/ GiveUp(w)
    \/ FinishJob(w)
    \/ Stop(w)

Sweep ==
    \/ \E j \in Job : RecoverJobLease(j)
    \/ \E j \in Job : TerminateJob(j)
    \/ \E j \in Job : FailRecovery(j)
    \/ RecoverTerminalCalls
    \/ RecoverOwnedWork

Next ==
    \/ \E j \in Job : CreateJob(j)
    \/ \E s \in {"COMPLETED", "FAILED"} : EndRun(s)
    \/ \E w \in Worker : WorkerStep(w)
    \/ CancelQuery
    \/ CancelJobs
    \/ Sweep
    \/ \E w \in Worker, s \in Stage : ReconcileCall(w, s)
    \/ \E i \in Instance : StopInstance(i)
    \/ \E j \in Job : ExpireLease(j)
    \/ PassDeadline
    \/ LoseScope
    \/ Upgrade

Spec == Init /\ [][Next]_vars

\* The maintenance loop of a live instance runs every sweep again and again,
\* and time passes.  Workers, replies and clients owe nothing.
Fairness ==
    /\ WF_vars(PassDeadline)
    /\ WF_vars(RecoverTerminalCalls)
    /\ WF_vars(RecoverOwnedWork)
    /\ \A j \in Job : WF_vars(TerminateJob(j))

FairSpec == Spec /\ Fairness

-----------------------------------------------------------------------------
(* Properties *)

CallState == {"NONE", "RESERVED", "SETTLED", "UNKNOWN"}
Result == {None, "content", "failed"}

Step == {"idle", "extract", "admitted", "sent", "store", "store_failure",
         "validate", "doubt", "probe", "commit", "finish", "done"}
Task == [pc : Step, token : Nat, ready : BOOLEAN, answer : Result,
         using : Worker \cup {None}, stage : Stage]

TypeOK ==
    /\ run \in RunState
    /\ cancelled \in BOOLEAN /\ expired \in BOOLEAN
    /\ current \in BOOLEAN /\ upgraded \in BOOLEAN
    /\ live \subseteq Instance
    /\ state \in [Job -> Open \cup Terminal \cup {"NONE"}]
    /\ owner \in [Job -> Worker \cup {None}]
    /\ leaseLive \in [Job -> BOOLEAN]
    /\ leaseInst \in [Job -> Instance \cup {None}]
    /\ fence \in [Job -> Nat]
    /\ waiting \in [Job -> BOOLEAN]
    /\ raw \in [Job -> Result]
    /\ report \in [Job -> {None, "some", "none"}]
    /\ reportBy \in [Job -> Worker \cup {None}]
    /\ published \in [Job -> BOOLEAN]
    /\ probeRound \in [Job -> {0, 1}]
    /\ callState \in [Worker -> [Stage -> CallState]]
    /\ callInst \in [Worker -> [Stage -> Instance \cup {None}]]
    /\ recorded \in [Worker -> SUBSET Stage]
    /\ task \in [Worker -> Task]
    /\ job \in [Worker -> Job \cup {None}]
    /\ sent \in [Worker -> SUBSET Stage]

\* A worker never works on a job while the outcome of a call that another
\* worker made for it is open.
NoOpenCallInherited ==
    \A w, v \in Worker, s \in Stage :
        /\ job[w] # None /\ owner[job[w]] = w /\ IsOpen(job[w])
        /\ v # w /\ job[v] = job[w]
        => callState[v][s] \notin {"RESERVED", "UNKNOWN"}

\* A probe call that failed, or whose outcome is open, is never repeated by
\* the worker that recovers the job.
FailedProbeStays ==
    \A j \in Job :
        Cardinality({c \in StageCalls(j, "probe") : ~ HasContent(c)}) <= 1

\* A job is not written off as skipped or failed while one of its calls is
\* open; the exception is a published empty result.
EndTellsLedger ==
    \A j \in Job :
        /\ Unresolved(j)
        /\ state[j] \in {"SKIPPED", "FAILED"}
        => state[j] = "SKIPPED" /\ report[j] = "none"

\* A worker that has lost its job, to a sweep, to a cancellation or to another
\* worker, never holds it again, and from then on neither reserves a call for
\* it nor reports on it.
Superseded(w) == task[w].token # 0 /\ ~ Holds(w)

SupersededStaysOut ==
    [][\A w \in Worker : Superseded(w) =>
          /\ Superseded(w)' \/ Pc(w)' = "done"
          /\ CallsOf(job[w])' \cap ({w} \X Stage) \subseteq CallsOf(job[w])
          /\ reportBy'[job[w]] = w => reportBy[job[w]] = w]_vars

Phase(j) ==
    CASE state[j] = "NONE"      -> "absent"
      [] state[j] \in Open      -> "open"
      [] state[j] = "COMMITTED" -> "published"
      [] OTHER                  -> "ended"

Requests(j) ==
    Cardinality({w \in Worker : job[w] = j /\ "extraction" \in sent[w]})

Abstract == INSTANCE DurableJob WITH
    phase    <- [j \in Job |-> Phase(j)],
    requests <- [j \in Job |-> Requests(j)],
    result   <- raw

\* Whatever dies, is lost or is swept: one extraction request per job, one
\* result that is never replaced, one ending, and only answers are published.
ImplementsDurableJob == Abstract!Spec

\* Every job ends, whatever its workers do: the deadline passes and the sweep
\* of reconcileM3Jobs finds it in any of its open states.
JobEnds == \A j \in Job : IsOpen(j) ~> ~ IsOpen(j)

\* No call stays in flight for ever: it is settled, or some sweep finds it with
\* its job ended or its instance stopped.
NoCallHangs ==
    \A w \in Worker, s \in Stage :
        callState[w][s] = "RESERVED" ~> callState[w][s] # "RESERVED"
=============================================================================
