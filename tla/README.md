# A formal model of CrackRAG's control plane

CrackRAG answers questions about financial documents. A Go control plane keeps
everything that matters in PostgreSQL; a Python runtime does the work that talks
to a language model, and talks back to Go by gRPC. Whatever crashes, is
cancelled or is lost: money is never spent without a reservation and never
written off, a background extraction is made once and finished, a run ends once
and its client is told, a revoked document is gone, and only what was validated
is published. This directory models those parts in TLA+, model-checks them with
TLC and proves their main properties with TLAPS.

Paths below are relative to `src/api/internal/app/` unless they start with
another directory; `py/` stands for `src/ai-runtime/src/crackrag_m1/`.

## Inventory

| Component | State | Operations | What is hard | What makes it correct | Module |
|---|---|---|---|---|---|
| Paid-call ledger (`tools.go`, `m3_budget.go`, `m2_accounting.go`, `m4_reconciliation.go`, `m2_reconciliation.go`, `m4_call_recovery.go`) | `llm_calls`, `experiment_budgets`, `m4_cost_reconciliations` | ReserveCall, SettleCall, both reconciliations, sweeps | settlement in two transactions, lost replies, sweeps racing a late record, several halts | budgets equal the calls; a sent request stays covered until its charge is known; halts outlive their cause's owner | `CallLedger` |
| Prices and usage (`m3_settlement.go`, `m3_policy.go`, `py/model.py`, `py/m0_snapshot/`) | none: functions of instants and counts | estimate, verification, upper bound | a tariff that changes while a call is under way, two copies of it in two languages | a settled amount is right at every instant of the call | `Pricing` |
| Background jobs (`m3_jobs*.go`, `m3_lifecycle.go`, `m4_job_recovery.go`, `m4_lease.go`, `m4_validation.go`, `m2_extraction.go`, `m2_commit.go`, `py/m3.py`, `py/m4_*.py`) | `m3_jobs`, `extraction_batches`, the worker's memory | CreateJob, ClaimJob, RenewJob, StoreCandidates, ValidateCandidates, BeginProbe, CommitExtraction, FinishJob, CancelJobs, sweeps | stale workers, lost replies, leases that expire, resumption in the middle | fencing, one extraction, one result, one ending, no job for ever open | `JobLifecycle` |
| Prefix cache evidence (`m3_cache_v2.go`, `m3_jobs_rpc.go`, `py/m3.py`, `py/m3_prefix.py`, `py/model.py`) | observations, `m3_cache_decisions` | seed, decision, admission of a hot call, dispatch | a window that closes between admission and dispatch, two clocks | a hot request goes out inside the window, from the holder of the job | `CacheWindow` |
| Notification delivery (`src/api/internal/recovery`, `m4_recovery.go`, `py/m3_coordinator.py`) | `m3_outbox`, a Redis stream, receipts, dead letters, the runtime's registry | RelayOnce, ConsumeOnce, handleM4Notification | duplicates, loss, a crash between send and marker | an orphaned job reaches a runtime again; nothing is acknowledged without a verdict | `Delivery` |
| Foreground runs (`server.go`, `query.go`) | `query_runs`, `run_events`, a goroutine, a client's stream | createQuery, launch, appendEvent, finishRun, cancelQuery, streamEvents | answer, cancellation, deadline and takeover race | one final state, one DONE event, no answer after the deadline, every reader is told | `RunLifecycle` |
| API instances (`m4_ownership.go`) | `m4_api_instances` | heartbeat, stop, recoverM4OwnedWork | a process that lost its lease goes on | what was taken over stays taken over | part of each module whose rows it touches |
| Facts and publication (`m2_validator.go`, `m2_commit.go`, `m2_derivation.go`, `m2_reads.go`) | facts, evidence, reports | store, validate, commit, derive, read, reuse | reads of several statements under concurrent invalidation, revalidation | an answer rests on facts that stand; publication follows the latest report | `Publication` |
| Document versions (`server.go`, `tools.go`, `query.go`) | documents, versions, regions | upload, parse, index, revoke, authorize, read | a scope that changes under a parse or a run | a revoked document is gone; READY is whole and stays | `DocumentVersions` |
| Transactions (all of `app`) | row and advisory locks | every handler | two handlers that lock the same rows in different orders | no circle of waiting transactions | `LockOrder` |
| Release sessions, admission policy, manifests | configuration, sessions, opening balance | checks at admission | | no admission outside the frozen policy | not modelled |
| Runtime processes (`py/server.py`, `py/agent.py`, `py/parser.py`) | tasks in memory | run, cancel, shut down | tasks cut off anywhere | nothing durable depends on them | as faults of the other modules |

### How they meet

The runtime calls Go by RPC, with a capability (run, scope token, lease owner and
fencing token) that Go checks on each call. Go starts runtime work by RPC (a
query, ResumeJob). Everything durable is shared through PostgreSQL under row
locks and one advisory lock for paid admission (`lockModelAdmission`). A
maintenance loop in every API instance (`server.go:107-136`) runs the sweeps
every half second, and two more loops (`src/api/internal/recovery`) relay and
consume notifications.

The modules cut the system along these tables. Where one module's tables are
changed by another's steps, it allows every such change:

* `CallLedger` reduces the owner of a call's work to membership in `open`;
  `JobLifecycle` reduces a call's money to its state. `EndWork` and `RevokeWork`
  of the ledger allow every ending that `JobLifecycle` and `RunLifecycle`
  perform; `ReconcileCall` of the jobs allows every settlement that the ledger's
  reconciliations perform. `Pricing` refines the amounts, which the ledger
  chooses freely.
* `Delivery` sees of a job only whether it has ended and whether somebody works
  on it. `JobLifecycle`'s `ClaimJob` may be called at any time, which is all a
  delivered notification does.
* `RunLifecycle` and `DocumentVersions` each model the part of
  `recoverM4OwnedWork` that takes over their rows; whether a run's documents are
  current is an event of the first and a consequence of the second.
* `RunLifecycle` lets the ledger reserve a call for a run and write its events into
  the run's log whenever the code may (`ReserveCall`, `LedgerEvent`), also after
  the run has ended or was taken over.
* `Publication` sees of document versions only which are live.

## The modules

| Module | What it is | Checked by | Proved in |
|---|---|---|---|
| `PaidCall` | the promise about money: hold, spend, close | | |
| `CallLedger` | the ledger and the runtime's part in a call; implements `PaidCall` | `Books`, `Manual`, `Unknown` | `CallLedger_proofs` |
| `DurableJob` | the promise about a background job | | |
| `JobLifecycle` | jobs, leases, workers, cancellation and sweeps; implements `DurableJob` | `JobRecovery`, `JobLegacy` | `JobLifecycle_proofs` |
| `Delivery` | outbox, stream, consumers, registry | `Delivery` | `Delivery_proofs` |
| `RunOutcome` | the promise about a run: it ends once, with DONE | | |
| `RunLifecycle` | runs, events, instances, readers; implements `RunOutcome` | `RunRace` | `RunLifecycle_proofs` |
| `DocumentVersions` | upload, parse, revoke, read | `DocumentRace` | `DocumentVersions_proofs` |
| `Publication` | batches, reports, facts, reads | `Publication` | `Transactions_proofs` |
| `CacheWindow` | decisions, admission and dispatch of a hot call | `Cache` | `CacheWindow_proofs` |
| `Pricing` | tariff, usage, estimate, verification | `Price` | `Pricing_proofs` |
| `LockOrder` | the order in which handlers lock rows | `LockHot` | `Transactions_proofs` |

`MC...` modules hold the values of constants and the symmetry sets that the
`.cfg` files name. Each of the modules above has at most one of them.

### CallLedger

The columns of `llm_calls` are functions from attempts (`callState`, `amount`,
`callJson`, `owner`), those of `experiment_budgets` functions from experiments
(`known`, `reserved`, `attempted`, `halted`). `wire`, `record`, `sent` and
`charge` are the runtime's and the provider's side.

* `ReserveCall` is the whole handler: authorisation, stage, run, experiment,
  sub-experiment and lane checks in one transaction under the advisory lock. The
  two branches (M3 and the older experiments) are `BudgetAdmits`.
* `Dispatch` is the moment of `mark_dispatch` in `py/model.py`; from then on the
  request may cost money whatever the runtime learns. `BuildRecord` makes one of
  the records that `Model.ask` can build, `Abandon` is a death or a lost RPC.
* `SettleCall` reads the state of the call, outside a transaction, to choose a
  path (`SettleRoute`), and is then `SettleDirect` or `SettleLate`.
* `OperatorReconcile` and `ReconcileM2Attempt` are the two operator commands.
* `EndWork`, `RevokeWork`, `RecoverTerminalCalls`, `StopInstance` and
  `RecoverOwnedWork` are the ways in which a call loses its owner.

What a record says is abstracted to six kinds, an amount to an integer. It is
assumed, and only assumed, that usage which passes the code's verification
states what the provider charges, and that the evidence an operator supplies is
true. `Pricing` is about that verification.

### JobLifecycle

`state`, `owner`, `leaseLive`, `leaseInst`, `fence` and `waiting` are columns of
`m3_jobs`; `raw`, `report`, `reportBy`, `published` and `probeRound` are the
batch; `callState`, `callInst` and `recorded` the calls. `task[w]` is what worker
`w` has in memory: where it is, its token, the report it would commit.

* Each RPC is one action, guarded by `ValidateJob` (`validateM3JobTx`) and
  `JobTransaction` (`m2Transaction`). `Reply` lets the answer of any RPC be lost
  after it has committed; the worker then believes that it failed.
* A worker goes from claim to commit as `py/m3.py` and `py/m4_resume.py` do:
  `FirstSteps` is where a resumed job starts, `AfterSettle` what follows a call,
  `Labels` what it may tell `FinishJob`. `GiveUp` and `Stop` may happen anywhere.
* `CancelQuery`, `CancelJobs` and five sweeps take jobs away.
* Time is two events, `ExpireLease` and `PassDeadline`. `RenewJob` postpones the
  first and has no action of its own.

### Delivery

`mark` is `notified_at` as an age, `order` the order in which the relay takes
the rows. `fresh` and `pending` are the two halves of a consumer group's stream.
`relay` is the relay's transaction: its row, what Redis answered, the marker.
`hand[c]` is the message a consumer is processing and the step it is at; the
steps are those of `process`: look for a receipt, run the handler, record a
failure, resume the job, look again whether it ended, write the receipt or the
dead letter, acknowledge. `cursor` is the claim cursor of `ConsumeOnce`:
where in the pending list the next claim starts; `turn` alternates claims and
reads. `BatchSize` is 1, where the cursor matters most. `active` and
`closing` are the runtime's `TaskRegistry`.

PostgreSQL is the authority. Redis may lose everything, a consumer, a relay or a
runtime may die between any two steps, the answer to a statement may be lost.
What other workers do to a job is `Work`: it may become busy, idle or ended.

### RunLifecycle

A run is its idempotency key. `log` is the run's `run_events` in the order of
their sequence numbers, `g[r]` what the goroutine of `launch` holds between two
transactions, `reader[r]` a client of the event stream: the last number it was
given, and what `visibleRun` said of the run before. `ReadBreaks` is a read that
fails, noticed by the handler or not; `Reopen` is the browser
(`src/web/src/use-query-watch.ts`), which reads the run when its stream has
closed and opens another one while the run is open. `paid` and `costs` are what
the ledger does to the run: `LedgerEvent` is the USAGE event of `SettleCall` and
the COST_RECONCILED event of a reconciliation. `finishRun` is one action
(`FinishRun`) that decides by `FinalState`; `FinishFails` is its statement that
fails; `orphan` marks runs for which PostgreSQL's answer was lost. The lease of
an instance and its process are different things (`lease`, `up`): an instance
whose lease ran out goes on until it notices (`StopWork`), or for ever.

### DocumentVersions

A transaction that decides something locks the document's row and is one action:
`Upload`, `StartParse`, `Index`, `FailParse`, `Revoke`. Reading is not: `Authorize`
and `OpenDocument` are two statements and two actions, between which anything may
happen. `LockScope` is the second look when the answer is stored.
`IndexUnanswered` and `FailParseLost` are transactions that committed, or did
not, without the goroutine being told. A historical query may name several
versions of one document: `createQuery` only counts rows.

### Publication

A batch belongs to the run that made it; a run whose contract names it
(`Revalidate`, the code's `revalidate_batch_id`) may store, validate and publish
it as well (`Mine`). Only the latest report publishes, and only by the run that
made it (`CurrentReport`).

A transaction first locks its run and the documents of its scope (`Enter`), then
the row of the batch it works on (`LoadBatch`), then reads facts through
`readFactsTx` statement by statement: select by id, lock the graph, count again,
and the same by requirement. `Invalidate` takes no document lock, only the
fact's row; a lock that is not free is an action that waits. A fact is what its
fingerprint hashes, so the unique index is membership in a set. `Earlier` holds
the sets of facts that earlier runs may have left. `Judge` is the validator's
verdict on a candidate given what is published, `Confirmed` the second
validation inside the commit. `BeginDerive` reads two facts and `DeriveFacts`
makes a batch for what follows from them; storing, validating and publishing it
are transactions of their own.

What it means that a fact *stands* (`Stands`) follows `validFactsSQL`: it counts,
with all its inputs, and no other fact that counts gives its requirement another
value. A margin whose revenue has been invalidated does not count, though it is
neither invalidated itself nor out of scope, so it contradicts nothing. An
earlier form of the property overlooked this; two batches that start without
facts cannot show it, and the attempt to prove the property did. The code is
right.

### CacheWindow

One job, the calls on its prefix, and the clock. A decision is a soft deadline
(`deadline`), made once for a settled call and a fencing token. `Admit` repeats
Go's checks; the runtime counts its own deadline from before it asked, because it
does not know how long the reply was under way. `dispatched` records what a hot
request relied on when it left.

### Pricing

Instants are half hours: the boundaries of the tariff and a moment between any
two. Money is counted in 10^-8 CNY, exactly. The runtime's arithmetic
(`select_rates`, `normalize_usage`, `estimate_cost`) and Go's (`m3PriceWindow`,
`m3ReadUsage`, `m3VerifiedCostAtLimit`) are separate definitions, because they
are separate code; how far they agree is a property. Usage has the five counts and
the two details that `normalize_usage` looks at; a field is a count, absent, or
malformed.

### LockOrder

A handler is the sequence of its locking statements, in the order of the code. A
transaction executes them one by one, keeps what it locked and waits for what
others hold in a conflicting mode (except under `SKIP LOCKED`). There is no data.

### Seeded faults

Next to some definitions stands a second one, marked *seeded fault*: the same
operator with a mistake that a change of the code could make (a check that is
dropped, a state that is forgotten). No specification uses them. Put in the
place of the definition they precede or follow, each makes one property fail,
which shows that the property sees that code.

## What is checked

| Run | Instance | Properties | What it shows |
|---|---|---|---|
| `Books` | an answer and an extraction of one M3 run, a call of an older experiment, two instances | `LedgerBalanced`, `UnknownHalts`, `OverrunHalts`, `LanesExclusive`, `HoldsUntilPaid`, `ReservedResolves` | the books balance, halts stay while their cause lasts, the lanes are exclusive in both branches of admission, no request is written off, none is in flight for ever |
| `Manual` | one call | `ManualHaltStays` | fails, see below |
| `Unknown` | an M3 call and one of an older experiment | `UnknownBlocksAllSpending` | fails, see below |
| `JobRecovery` | one job, two workers, two instances, recovery and probes on | `NoOpenCallInherited`, `EndTellsLedger`, `FailedProbeStays`, `SupersededStaysOut`, `ImplementsDurableJob` | fencing and the single extraction under lost replies, expiry and a larger mishap |
| `JobLegacy` | two jobs, one worker, recovery off | `JobEnds`, `NoCallHangs` | every job ends and every call is resolved by the sweeps alone |
| `Delivery` | one job, one consumer, two messages | `VerdictMeansEnded`, `OnlySettledLeaves`, `OrphanResumed`, `PendingDrains` | no verdict before the end, nothing unsettled leaves, an orphaned job reaches a runtime, the stream drains |
| `RunRace` | one run with a paid call, two instances, a reader | `StreamEndsWithDone`, `ImplementsRunOutcome`, `TakenOverIsFinal`, `AnswerInTime`, `RunEnds`, `ReaderServed` | one ending with one DONE, an answer only while it was due, nothing but the ledger's events after a takeover, and every reader is told |
| `DocumentRace` | two documents, two versions, a query, two instances | `RevokedIsGone`, `ReadyIsWhole`, `ReadyStays`, `GivenUpStays`, `ReadInScope`, `BrokenScopeStays`, `VersionSettles` | uploads, parses, revocations, takeovers and reads overlap without a half document, or one that was given up |
| `Publication` | two runs, two batches, one document, two revenues and a cost | `TypeOK`, `AnswerStands`, `DerivedFromValid`, `LatestReportDecides` | reads of several statements see facts that stand; the latest report of whichever run decides, for its maker |
| `Cache` | three calls, two workers, a window of 2 | `DispatchInWindow`, `HotHoldsLease`, `AdmittedOnNewest` | a hot request leaves inside its window, from the holder of the job, on the newest knowledge |
| `Price` | calls around each boundary of the tariff | `OverrunMeansInput`, `SettledAtAnyInstant`, `CopiesAgree` | what is settled is right at each instant of the call; both copies agree unless the provider's details contradict its counts |
| `LockHot` | two transactions under `HOT_ONLY` | `NoWaitCycle` | fails, see below |

The other type invariants are proved rather than listed in the runs.

### The bounds, and why they are enough

* `Books`: a lane conflict, a halt with a second cause and a takeover during a
  settlement each need two calls; `Together` lets a behaviour reserve the two M3
  calls, or one call of each experiment. `Charge` is what the provider takes: 2
  for the M3 calls, above the answer's reservation of 1 and below the
  extraction's of 3, so one overruns and one does not; the older experiment's
  rejected request is free, which is what makes `ReconcileM2Attempt` applicable.
  `Serves` sends each attempt through one instance. `Manual` and `Unknown` allow
  any charge of 0 and 2.
* Jobs: fencing concerns an old holder and a new one, so two workers. A worker is
  one incarnation (`lease_owner` is a fresh UUID) and makes one call of each
  stage. With three, a job could be passed on once more; the second claim starts
  from states that the first can also reach. `MaxTrouble` bounds how many of
  these happen: an instance stops, the run fails, it is cancelled, the scope is
  lost, the APIs are upgraded. Lost replies, worker deaths, lease expiries and
  the deadline are not bounded by it. It is 1.
* `Delivery`: `MaxCopies` 2 copies of a job's notification, two message ids,
  `MaxTrouble` 2 faults. A duplicate needs two copies; a fault during the
  treatment of another needs two faults. An id is used again once nobody refers
  to the old message, which only makes confusions possible that Redis excludes.
  With more jobs and consumers only the safety properties are established, by
  proof.
* `RunRace`: `MaxTrouble` 2 faults, for instance a lost lease and a lost answer
  of PostgreSQL, or a lost lease and a read that breaks; cancellation, deadline
  and takeover are not counted. `MaxTool` 1 event of the runtime and `MaxCosts`
  1 of the ledger, which may come before, between and after the others.
  `PageLimit` 6 holds any log of the run, as the code's 1000 rows
  (`server.go:838`) hold the events of at most 8 tool calls (`query.go:268`),
  their costs and the ending; with a page that cuts a log short
  `StreamEndsWithDone` would fail.
* `DocumentRace`: a version that is overtaken needs a second upload of the same
  document; a query over two documents, one of which breaks, needs two of them.
  `MaxTrouble` is 2.
* `Publication`: two runs over one document, of which the second revalidates the
  first batch; a batch replaced under a run needs both. An earlier run has left a
  revenue and the cost (`FromEarlierRun`); candidates are a revenue that
  contradicts it and the margin of the two (`OppositeAndMargin`), so facts conflict
  and derived facts lose their inputs. `MaxCandidates` 1 in a batch, `MaxReports` 2
  validations of the first batch and 1 of the second, `MaxInvalid` 1 fact
  invalidated.
* `Cache`: `Window`, `Lease` 2, `Deadline` and `MaxTime` 3, `MaxFence` 2: a window
  and a lease each end before the behaviour does, in either order; a second
  holder follows a first. Three calls: the seed, a later call that contradicts
  it, and the job's own.
* `Price`: calls start in the half hours around each boundary of a weekday, on
  Friday and at the weekend, and take up to `MaxSpan` 9 half hours, longer than
  either window of the tariff. The tariff repeats weekly. Token counts lie at
  zero, at the output limit and at the reserved input. Reported is each of four
  full reports, and whatever differs from one of them in two of its seven fields,
  by another count, by nothing or by something malformed (`NearlyFull`): a
  contradiction is between two fields.
* Symmetry (`Cache`: calls and workers; `LockHot`: transactions) is used only in
  runs without liveness properties.
* `CHECK_DEADLOCK` is off where the system really stops: jobs, runs and versions
  that have ended, a last instant, a priced call.

### Fairness

What is assumed is what the code ensures by itself.

* `CallLedger`, `JobLifecycle`: the maintenance loop of a live instance runs each
  sweep again and again, and time passes: each run and job has a deadline.
  Nothing is assumed of workers, replies, clients or operators.
* `Delivery`: both loops of a process run and each of their steps has a timeout;
  markers age; a message that nobody works on becomes idle. Nothing is assumed of
  runtimes, workers or Redis; the number of faults is finite.
* `RunLifecycle`: a goroutine goes on while its process lives, and its stream ends
  at the latest with its deadline (a context with a timeout); time passes, also
  for the lease of a dead process; the survivor's sweep runs; a client polls.
* `DocumentVersions`: the same for a parse, which has a timeout.

One instance (`Survivor`) is assumed to live. The sweeps take their rows with
`FOR UPDATE ... SKIP LOCKED` and in batches; that the locks are released in the
end is assumed too.

### Where the code does something else than its comments say

* `m4_reconciliation.go:248` says that manual halts are never cleared by a
  cost-only resolution. `SettleCall` replaces any halt by `COST_UNKNOWN`
  (`tools.go:584`). If an operator halts an experiment while a call is in flight
  and that call settles without a cost, the manual halt is gone, and resolving
  the call's cost reopens the experiment. Run `Manual` shows it.
* `m3_budget.go:24` says that unknown outcomes block new paid work globally. The
  branch for the older experiments looks only at its own halt (`tools.go:391`).
  Run `Unknown` shows an older experiment's call admitted while an M3 call's cost
  is unknown.
* `m2_extraction.go:26` says that the strongest document lock is acquired up
  front in one stable order. Under `HOT_ONLY`, `ReserveCall` locks the document
  `FOR SHARE` (`tools.go:328`), then the admission lock, and then
  `m3CacheDecisionForReserve` locks the same document `FOR UPDATE`
  (`m3_cache_v2.go:380`). Two runs over one document wait for each other until
  PostgreSQL aborts one. Run `LockHot` shows it; without `HOT_ONLY` it cannot
  happen, which is proved.

Three more observations, which no comment contradicts:

* A commit that publishes nothing marks the job SKIPPED although a probe call may
  still be open (`m3_jobs.go:397`). `EndTellsLedger` states this exception.
* The event stream never asks `rows.Err()` (`server.go:842-857`). When a read of
  events breaks off and the run was found ended before it, the stream closes
  as if the page had been complete, and DONE is not among what it has sent.
  `StreamEndsWithDone` excludes a stream whose last read broke; `ReaderServed`
  shows that the browser learns the end all the same, since it reads the run when
  a stream has closed.
* The runtime refuses to estimate usage whose `cached_tokens` differ from the
  hits or whose `reasoning_tokens` exceed the output
  (`py/m0_snapshot/accounting.py:38-58`); Go does not read these fields
  (`m3_settlement.go:35-53`). A call that all five counts agree on is then left
  UNKNOWN and halts the experiment. `CopiesAgree` states this exception
  (`DetailsAgree`), and that it is the only one.

## What is proved

Each theorem holds for every value of the constants that its module's ASSUME
admits: any sets of calls, jobs, runs, documents, instances, workers, any
contracts, limits, windows and prices. The bounds remain parameters.

* `CallLedger_proofs`. `TypeCorrect`, one step per action. `HoldsUntilPaid` is not
  inductive: that a settlement closes a hold at the charge needs that a record
  proving non-dispatch belongs to an attempt that was not sent and can no longer
  be, that a stored record says the same of its call, and that nothing has been
  charged for an attempt that was not sent. `Custody` is these facts for one
  call (`CustodyHolds`); `SettlementExact` and `LedgerImplementsPaidCall` follow:
  each step is `Hold`, `Spend` or `Close` of `PaidCall`, or a stutter.
  `LanesStayExclusive`: only `ReserveCall` puts a call in flight
  (`InFlightShrinks`), and both its branches look at all calls in flight.
  `UnknownStaysHalted`: an unknown cost and a cleared halt never meet, because
  every action that makes a cost unknown halts (`SweepHalts`) and both
  reconciliations look for other unknown costs before they clear.
  `OverrunStaysHalted`: only a charge above its hold lifts an experiment over its
  cap; an older experiment admits one call at a time, so none is left that a
  reconciliation could clear beside the overrun, and that of M4 looks at all costs.
  `BooksBalance`: each action opens, settles or leaves alone the calls of one
  experiment, and changes its columns by what leaves the one sum and enters the
  other. `ReservedNeverNegative` and `SpendingWithinCap` (what an experiment that
  is not halted has spent) follow. A sum over a finite set does not depend on the
  order of adding (`SumsAgree`): a smallest set with two sums would have a smaller
  one, which is induction without an operator parameter.
* `JobLifecycle_proofs`. `TypeCorrect`: `TypeOK` is inductive as it stands.
  `StaysOut`: a token never exceeds the fence of its job and fences only grow
  (`Tokens`), so a token that has been passed, or a lease that names somebody
  else, stays so; only holders reserve and report (`OnlyHolders`).
  `NothingInherited` drops the job's state from the property, which makes it
  inductive: a claim waits for the calls of others. `EndingsTell` needs that a
  worker about to commit has seen a report (`CommitReady`). `OneFailedProbe`
  (`ProbeInv`): between its `BeginProbe`, which looks at every call of the round,
  and its reservation, nobody else probes for the holder's job. `Durable`
  (`Extraction`): an answer in a worker's memory or record comes from a request
  that left, an extraction is admitted to a job that has none, and a COMMITTED
  batch holds the report `some` of a stored answer; each step then creates,
  requests, records, publishes or ends as `DurableJob` does, or stutters.
* `Delivery_proofs`. `TypeCorrect` (no claim cursor points past the delivered
  messages), `VerdictsSound`, `MarkersSound`, `NothingUnsettledLeaves`. The
  invariant says what a consumer knows of the message in its hand at each step:
  before a receipt its job has ended, before an acknowledgement a verdict is
  stored. Two consumers may hold the same message, and an id is free only if
  nobody holds it.
* `RunLifecycle_proofs`. `TypeCorrect`. `ImplementsOutcome`: a step of any action
  adds progress to one log, submits one run, or ends some runs in one and the
  same way; counting the events of a log before and after gives the step of
  `RunOutcome`. `TakeoverFinal`: a lost lease never revives, so a run that was
  taken over belongs to an instance whose goroutines fail every check; only the
  ledger, which checks neither state nor owner, still writes to its log.
  `AnswersInTime`. `StreamsEndWithDone`: a log is never longer than submission,
  start, the runtime's and the ledger's events and the ending together, so one
  page holds it, and a reader that saw the run ended before it read, and whose
  read did not break, has been given DONE, in this stream or in an earlier one.
* `DocumentVersions_proofs`. `TypeCorrect`, `RevocationComplete`,
  `ReadyComplete`, `ReadyIsStable`, `GivenUpIsStable` (only a READY version has
  regions, and only a version that is being parsed becomes READY),
  `TwoLooksSuffice`: the row lock on the document puts every index before or
  after a revocation, and a scope that was broken never heals, so that looking
  at it when a query is made and when it is answered is enough. `ReadsInScope`:
  a version being opened was authorized, hence in scope then, and leaves it only
  by revocation or by a newer upload; no other reason denies a read.
* `CacheWindow_proofs`. `TypeCorrect`, `WindowKept`, `LeaseKept`, `NewestDecides`.
  Every part of the runtime's deadline can only be too early: its clock starts
  before the request, a decision lies within the lease it was made under, a
  lease only grows while its fence is current, and a settled call keeps the
  instant of its receipt.
* `Pricing_proofs`. `TypeCorrect`, `SettledRight`, `OverrunOnlyByInput`,
  `EstimateSettles`. The core is that Go's next transition is the first change of
  the tariff after the start, whatever the hour and the day; of full usage the
  runtime's checks leave exactly those of the details (`ConsistentIsAgreed`).
* `Transactions_proofs`, about `Publication`. `PublicationTypes`.
  `AnswersStand`, `DerivedOnStanding` and `LatestReportPublishes` need an
  invariant that says of every open transaction what it knows after each
  statement of `readFactsTx`: its documents are in scope and no other open
  transaction has locked them (`LockedScope`); what it asked for by id counts,
  and its rows and its inputs' rows are held; what it selected by requirement
  holds every reported fact in scope, and after the count it counts (`Reading`);
  the batch it works on is as it found it (`BatchTx`), because nobody else has
  its row, whichever runs may work on it (`RowsLocked`). The document locks keep
  other runs from publishing into the scope, the row locks keep an operator from
  invalidating what has been found, so none of it can be undone
  (`HeldStayValid`). Margins need not be locked against each other: two that
  count are computed from equal inputs (`MarginsAgree`). `BatchesWhole`: of a
  COMMITTED batch every candidate that the latest report has validated is a
  fact.
* `Transactions_proofs`, about `LockOrder`. `NeverCircular`: without `HOT_ONLY` no
  group of transactions waits in a circle. In one global order (sweepers, keys,
  runs, jobs, documents, admission, versions, calls, budgets; within a table by
  id) every transaction holds only locks below the one it waits for; the member
  of a group that waits for the highest lock waits for none of the group.

Every safety and action property of a passing run is stated by one of these
theorems. Only model-checked are the eight liveness properties
(`ReservedResolves`, `JobEnds`, `NoCallHangs`, `OrphanResumed`, `PendingDrains`,
`RunEnds`, `ReaderServed`, `VersionSettles`): fairness and ENABLED are out of the
prover's reach. The three runs that fail refute their properties on an instance,
which needs no proof.

## What is not modelled

* The matching of a candidate's text against its source (`semanticSource`, the
  table reader) and the resolution of a question to requirements: functions on
  texts. `Publication` leaves their verdict free.
* The bytes of prefix manifests and profiles, calibration files, the parsing of
  policies: configuration, compared for equality. Their limits are constants.
* Release sessions: one more set of caps and an opening balance at admission, and
  the validation of a finished answer's text.
* The parser, the ranking of search, the agent's tool loop: they keep nothing that
  outlives a call, and where they are cut off is a fault of the other modules.
* The web UI, the evaluation scripts, deployment and generated stubs hold no
  state of the system's own. The mock provider spends nothing.

## What remains

1. The limits of release sessions as one more experiment of `CallLedger`.
2. The probe's two phases and the HOT_ONLY policy inside `JobLifecycle`.
3. Safety lemmas that the liveness arguments rest on: that each open call, job,
   run and version has a sweep whose guard it will meet.
