---------------------------- MODULE RunLifecycle ----------------------------
(***************************************************************************)
(* A foreground run from POST /queries to its DONE event: the row of       *)
(* query_runs, its run_events, the goroutine that drives the runtime, the  *)
(* user's cancellation, the API instances that own runs and lose them, and *)
(* the event stream a browser follows.  The ledger of paid calls writes to *)
(* the same log, also long after the run has ended.                        *)
(*                                                                         *)
(* Each transaction locks the run's row and is one action.  Between two    *)
(* transactions a goroutine holds only what is in g[r].                    *)
(*                                                                         *)
(* A run stands for its idempotency key: createQuery takes an advisory     *)
(* lock on the key, and a repeated request finds the row and changes       *)
(* nothing.  The contents of events and answers are abstracted to their    *)
(* kinds.  Bounds: MaxTool events of the runtime and MaxCosts events of the  *)
(* ledger in a run, MaxTrouble faults.                                     *)
(***************************************************************************)
EXTENDS Naturals, Sequences, FiniteSets

CONSTANTS
    Run, Instance,
    Survivor,      \* an instance that is assumed not to die
    PageLimit,     \* LIMIT of the query behind the event stream
    MaxTool,       \* bound: events sent by the runtime
    MaxCosts,      \* bound: events written by the ledger
    MaxTrouble,    \* bound: faults in one behaviour
    None

ASSUME RunAssumption ==
    /\ Survivor \in Instance
    /\ {PageLimit, MaxTool, MaxCosts, MaxTrouble} \subseteq Nat
    /\ MaxTool + MaxCosts + 4 <= PageLimit   \* a page, 1000 rows, holds every log
    /\ None \notin Instance

VARIABLES
    state, owner, cancelled, answered,   \* query_runs
    log,              \* run_events, in the order of their sequence numbers
    deadline,         \* runs whose deadline_at has passed
    current, revoked, \* runs whose documents are current; are revoked
    up, lease,        \* instances: the process; its row in m4_api_instances
    g,                \* the goroutine that launch starts
    tools,            \* events the runtime has sent
    paid,             \* runs for which a paid call has been reserved
    costs,            \* the events the ledger has written about such calls
    reader,           \* a client that follows the run's event stream
    orphan,           \* history: an answer of PostgreSQL about it was lost
    trouble

row      == <<state, owner, cancelled, answered>>
scope    == <<current, revoked>>
inst     == <<up, lease>>
ledger   == <<paid, costs>>
vars     == <<state, owner, cancelled, answered, log, deadline, current, revoked,
              up, lease, g, tools, paid, costs, reader, orphan, trouble>>

Open == {"QUEUED", "RUNNING"}
Ending == {"COMPLETED", "FAILED", "TIMED_OUT", "CANCELLED", "INTERRUPTED"}
\* COST stands for USAGE, which SettleCall writes, and for COST_RECONCILED.
Event == {"STATUS", "TOOL", "ANSWER_DELTA", "ERROR", "DONE", "COST"}
Step == {"none", "start", "announce", "plan", "stream", "finish", "gone"}

\* A goroutine: has it an answer, has it a reason to fail, is its context
\* cancelled.
NoGoroutine == [pc |-> "none", answer |-> FALSE, failed |-> FALSE, stopped |-> FALSE]
\* A reader: the last sequence number it was given, what visibleRun told the
\* stream, and whether the stream closed because a read broke off.
NewReader == [pc |-> "run", after |-> 0, ended |-> FALSE, broken |-> FALSE]
Reader == [pc : {"run", "rows", "closed", "told", "denied"}, after : Nat,
           ended : BOOLEAN, broken : BOOLEAN]

Count(r, e) == Cardinality({k \in DOMAIN log[r] : log[r][k] = e})

TypeOK ==
    /\ state \in [Run -> {"NONE"} \cup Open \cup Ending]
    /\ owner \in [Run -> Instance \cup {None}]
    /\ \A r \in Run : state[r] = "NONE" <=> owner[r] = None
    /\ cancelled \subseteq Run /\ answered \subseteq Run
    /\ log \in [Run -> Seq(Event)]
    /\ deadline \subseteq Run /\ current \subseteq Run /\ revoked \subseteq Run
    /\ up \in [Instance -> BOOLEAN]
    /\ lease \in [Instance -> {"live", "expired", "stopped"}]
    /\ g \in [Run -> [pc : Step, answer : BOOLEAN, failed : BOOLEAN, stopped : BOOLEAN]]
    /\ tools \in [Run -> 0..MaxTool]
    /\ paid \subseteq Run
    /\ costs \in [Run -> 0..MaxCosts]
    /\ reader \in [Run -> Reader]
    /\ \A r \in Run : reader[r].after <= Len(log[r])
    /\ orphan \subseteq Run
    /\ trouble \in 0..MaxTrouble

Init ==
    /\ state = [r \in Run |-> "NONE"]
    /\ owner = [r \in Run |-> None]
    /\ cancelled = {} /\ answered = {}
    /\ log = [r \in Run |-> <<>>]
    /\ deadline = {} /\ current = Run /\ revoked = {}
    /\ up = [i \in Instance |-> TRUE]
    /\ lease = [i \in Instance |-> "live"]
    /\ g = [r \in Run |-> NoGoroutine]
    /\ tools = [r \in Run |-> 0]
    /\ paid = {} /\ costs = [r \in Run |-> 0]
    /\ reader = [r \in Run |-> NewReader]
    /\ orphan = {} /\ trouble = 0

-----------------------------------------------------------------------------
(* What the transactions check *)

OwnerLive(r) == lease[owner[r]] = "live"

\* Seeded fault: the row's owner is compared, its lease is not looked at.
OwnerRecorded(r) == owner[r] # None

\* checkM4OwnedRowTx and checkM4InstanceTx in a goroutine of the owner: a row
\* never changes its owner, so only the owner's lease can fail the check.
OwnedRow(r) == OwnerLive(r)

Visible(r) == r \notin revoked /\ (r \in current \/ state[r] \notin Open)

Append2(r, e) == Append(log[r], e)
Goroutine(r, pc) == g[r].pc = pc /\ up[owner[r]]
Working(r) == g[r].pc \notin {"none", "gone"}
To(r, pc) == [g EXCEPT ![r].pc = pc]
\* A goroutine that has returned holds nothing any more.
Returned == [NoGoroutine EXCEPT !.pc = "gone"]
Gone(r) == [g EXCEPT ![r] = Returned]
Failed(r) == [g EXCEPT ![r].pc = "finish", ![r].failed = TRUE]

-----------------------------------------------------------------------------
(* createQuery and launch *)

\* The documents are locked and must be current and READY.  If the answer of
\* COMMIT is lost the handler reports an error and launches nothing.
CreateQuery(i, r) ==
    /\ state[r] = "NONE"
    /\ up[i] /\ lease[i] = "live"
    /\ r \in current /\ r \notin revoked
    /\ state' = [state EXCEPT ![r] = "QUEUED"]
    /\ owner' = [owner EXCEPT ![r] = i]
    /\ log' = [log EXCEPT ![r] = <<"STATUS">>]
    /\ \/ g' = To(r, "start") /\ UNCHANGED <<orphan, trouble>>
       \/ /\ trouble < MaxTrouble
          /\ trouble' = trouble + 1
          /\ orphan' = orphan \cup {r}
          /\ UNCHANGED g
    /\ UNCHANGED <<cancelled, answered, deadline, scope, inst, tools, ledger, reader>>

Launchable(r) == state[r] = "QUEUED" /\ r \notin cancelled /\ OwnerLive(r)

\* UPDATE ... SET state='RUNNING'; it fails if the context has been cancelled.
Start(r) ==
    /\ Goroutine(r, "start")
    /\ \/ /\ g[r].stopped \/ r \in deadline
          /\ g' = Failed(r)
          /\ UNCHANGED state
       \/ /\ ~g[r].stopped
          /\ IF Launchable(r)
               THEN g' = To(r, "announce") /\ state' = [state EXCEPT ![r] = "RUNNING"]
               ELSE g' = Gone(r) /\ UNCHANGED state
    /\ UNCHANGED <<owner, cancelled, answered, log, deadline, scope, inst, tools,
                   ledger, reader, orphan, trouble>>

\* appendEvent uses a context of its own, and its error is ignored here.
Announce(r) ==
    /\ Goroutine(r, "announce")
    /\ log' = [log EXCEPT ![r] = IF OwnedRow(r) THEN Append2(r, "STATUS") ELSE @]
    /\ g' = To(r, "plan")
    /\ UNCHANGED <<row, deadline, scope, inst, tools, ledger, reader, orphan, trouble>>

\* m3PlanningSnapshot checks the run, its scope and its instance.
Plan(r) ==
    /\ Goroutine(r, "plan")
    /\ \/ /\ state[r] = "RUNNING" /\ ~g[r].stopped /\ OwnerLive(r)
          /\ g' = To(r, "stream")
       \/ g' = Failed(r)
    /\ UNCHANGED <<row, log, deadline, scope, inst, tools, ledger, reader, orphan, trouble>>

\* An event of the runtime that is stored as it comes.  An ERROR gives a reason
\* as well; the stream may go on after it.
RuntimeEvent(r) ==
    /\ Goroutine(r, "stream")
    /\ tools[r] < MaxTool
    /\ tools' = [tools EXCEPT ![r] = @ + 1]
    /\ IF OwnedRow(r)
         THEN \E e \in {"TOOL", "ERROR"} :
                 /\ log' = [log EXCEPT ![r] = Append2(r, e)]
                 /\ g' = [g EXCEPT ![r].failed = @ \/ e = "ERROR"]
         ELSE g' = Failed(r) /\ UNCHANGED log
    /\ UNCHANGED <<row, deadline, scope, inst, ledger, reader, orphan, trouble>>

\* ANSWER is kept for finishRun and is not stored here; a second one would
\* replace the first.
AnswerEvent(r) ==
    /\ Goroutine(r, "stream")
    /\ ~g[r].answer
    /\ g' = [g EXCEPT ![r].answer = TRUE]
    /\ UNCHANGED <<row, log, deadline, scope, inst, tools, ledger, reader, orphan, trouble>>

\* The end of the stream, or its failure.  The context of the stream ends with
\* the deadline.
StreamEnds(r) ==
    /\ Goroutine(r, "stream")
    /\ \/ g' = Failed(r)
       \/ r \notin deadline /\ g' = To(r, "finish")
    /\ UNCHANGED <<row, log, deadline, scope, inst, tools, ledger, reader, orphan, trouble>>

-----------------------------------------------------------------------------
(* finishRun *)

\* The answer survives if the scope still holds and it is valid; the validation
\* of an answer is Publication's subject.  DEADLINE_EXCEEDED from the goroutine
\* says no more than the clock, which is read again here.
Accepts(r, valid) ==
    g[r].answer /\ ~g[r].failed /\ r \in current /\ r \notin revoked /\ valid

Verdict(r, valid) ==
    CASE r \in cancelled -> "CANCELLED"
      [] r \notin cancelled /\ r \in deadline -> "TIMED_OUT"
      [] r \notin cancelled \cup deadline ->
            IF Accepts(r, valid) THEN "COMPLETED" ELSE "FAILED"

\* Seeded fault: the clock is read once.
FinalStateEarly(r, valid, late) == Verdict(r, valid)

\* A COMPLETED run is written and the clock is read once more; late says that
\* the deadline passed since the first look.
FinalState(r, valid, late) ==
    IF late /\ Verdict(r, valid) = "COMPLETED" THEN "TIMED_OUT" ELSE Verdict(r, valid)

FinalEvents(verdict) ==
    IF verdict = "COMPLETED" THEN <<"ANSWER_DELTA", "DONE">> ELSE <<"ERROR", "DONE">>

\* Seeded fault: what was written before the last look at the clock is kept.
FinalBatchKept(r, valid, late) ==
    IF FinalState(r, valid, late) = Verdict(r, valid)
      THEN FinalEvents(Verdict(r, valid))
      ELSE FinalEvents(Verdict(r, valid)) \o FinalEvents(FinalState(r, valid, late))

\* The savepoint is rolled back before the events of the final state.
FinalBatch(r, valid, late) == FinalEvents(FinalState(r, valid, late))

\* Under the row's lock; otherwise finishRun returns and leaves the row alone.
Finishable(r) == state[r] \in Open /\ OwnedRow(r)

\* late: the deadline passes between the two checks of one transaction.
FinishRun(r) ==
    /\ Goroutine(r, "finish")
    /\ g' = Gone(r)
    /\ IF ~Finishable(r)
         THEN UNCHANGED <<state, answered, log, deadline>>
         ELSE \E valid, late \in BOOLEAN :
                /\ late => r \notin deadline
                /\ deadline' = IF late THEN deadline \cup {r} ELSE deadline
                /\ state' = [state EXCEPT ![r] = FinalState(r, valid, late)]
                /\ answered' = IF FinalState(r, valid, late) = "COMPLETED"
                                 THEN answered \cup {r} ELSE answered
                /\ log' = [log EXCEPT ![r] = @ \o FinalBatch(r, valid, late)]
    /\ UNCHANGED <<owner, cancelled, scope, inst, tools, ledger, reader, orphan, trouble>>

\* Any statement of finishRun, or its commit, may fail: the row stays open.
FinishFails(r) ==
    /\ trouble < MaxTrouble
    /\ Goroutine(r, "finish")
    /\ g' = Gone(r)
    /\ orphan' = orphan \cup {r}
    /\ trouble' = trouble + 1
    /\ UNCHANGED <<row, log, deadline, scope, inst, tools, ledger, reader>>

-----------------------------------------------------------------------------
(* cancelQuery, served by any instance *)

\* Only the process that runs the goroutine can cancel its context; the
\* runtime is told as well, which ends the stream if it is reached.
CancelQuery(i, r) ==
    /\ up[i]
    /\ state[r] # "NONE" /\ Visible(r) /\ r \notin cancelled
    /\ cancelled' = cancelled \cup {r}
    /\ IF state[r] \in Open
         THEN /\ state' = [state EXCEPT ![r] = "CANCELLED"]
              /\ log' = [log EXCEPT ![r] = Append2(r, "DONE")]
         ELSE UNCHANGED <<state, log>>
    /\ g' = [g EXCEPT ![r].stopped = @ \/ (i = owner[r] /\ Working(r))]
    /\ UNCHANGED <<owner, answered, deadline, scope, inst, tools, ledger, reader, orphan, trouble>>

-----------------------------------------------------------------------------
(* Instances *)

\* A process dies with its goroutines.
Crash(i) ==
    /\ trouble < MaxTrouble
    /\ i # Survivor /\ up[i]
    /\ up' = [up EXCEPT ![i] = FALSE]
    /\ g' = [r \in Run |-> IF owner[r] = i THEN Returned ELSE g[r]]
    /\ trouble' = trouble + 1
    /\ UNCHANGED <<row, log, deadline, scope, lease, tools, ledger, reader, orphan>>

\* The heartbeats of a process that is alive may be late once; those of a dead
\* one are.
Expire(i) ==
    /\ i # Survivor /\ lease[i] = "live"
    /\ \/ ~up[i] /\ UNCHANGED trouble
       \/ up[i] /\ trouble < MaxTrouble /\ trouble' = trouble + 1
    /\ lease' = [lease EXCEPT ![i] = "expired"]
    /\ UNCHANGED <<row, log, deadline, scope, up, g, tools, ledger, reader, orphan>>

\* Close: contexts are cancelled, goroutines are waited for, the lease is given
\* up; maintainM4Ownership cancels the contexts when the lease is lost.
StopWork(i) ==
    /\ trouble < MaxTrouble \/ lease[i] # "live"
    /\ i # Survivor /\ up[i]
    /\ \E r \in Run : owner[r] = i /\ Working(r) /\ ~g[r].stopped
    /\ g' = [r \in Run |-> IF owner[r] = i /\ Working(r)
                              THEN [g[r] EXCEPT !.stopped = TRUE] ELSE g[r]]
    /\ trouble' = IF lease[i] = "live" THEN trouble + 1 ELSE trouble
    /\ UNCHANGED <<row, log, deadline, scope, inst, tools, ledger, reader, orphan>>

Stop(i) ==
    /\ trouble < MaxTrouble
    /\ i # Survivor /\ up[i] /\ lease[i] = "live"
    /\ \A r \in Run : owner[r] = i => ~Working(r)
    /\ trouble' = trouble + 1
    /\ up' = [up EXCEPT ![i] = FALSE]
    /\ lease' = [lease EXCEPT ![i] = "stopped"]
    /\ UNCHANGED <<row, log, deadline, scope, g, tools, ledger, reader, orphan>>

\* Seeded fault: only what the sweep itself has found expired is taken over.
LostNow(i) == lease[i] = "expired"

\* A lease that has run out counts, because the sweep has just stopped it.
Lost(i) == lease[i] # "live"

\* recoverM4OwnedWork: expired leases are stopped, then their open runs are
\* interrupted, in one transaction.
RecoverOwnedWork(i) ==
    LET lost == {r \in Run : state[r] \in Open /\ Lost(owner[r])} IN
    /\ up[i]
    /\ lost # {} \/ \E j \in Instance : lease[j] = "expired"
    /\ lease' = [j \in Instance |-> IF lease[j] = "expired" THEN "stopped" ELSE lease[j]]
    /\ state' = [r \in Run |-> IF r \in lost THEN "INTERRUPTED" ELSE state[r]]
    /\ log' = [r \in Run |-> IF r \in lost THEN log[r] \o <<"ERROR", "DONE">> ELSE log[r]]
    /\ UNCHANGED <<owner, cancelled, answered, deadline, scope, up, g, tools, ledger, reader,
                   orphan, trouble>>

-----------------------------------------------------------------------------
(* Time and documents *)

PassDeadline(r) ==
    /\ state[r] # "NONE" /\ r \notin deadline
    /\ deadline' = deadline \cup {r}
    /\ UNCHANGED <<row, log, scope, inst, g, tools, ledger, reader, orphan, trouble>>

\* A new version of a document of the run, or its revocation.
LoseScope(r) ==
    /\ trouble < MaxTrouble
    /\ r \in current
    /\ current' = current \ {r}
    /\ revoked' \in {revoked, revoked \cup {r}}
    /\ trouble' = trouble + 1
    /\ UNCHANGED <<row, log, deadline, inst, g, tools, ledger, reader, orphan>>

-----------------------------------------------------------------------------
(* The ledger of paid calls *)

\* ReserveCall: the run's row says whether a call may begin, which a job may
\* still do after the answer or after a takeover.  The first call counts.
ReserveCall(r) ==
    /\ r \notin paid
    /\ state[r] \in {"RUNNING", "COMPLETED", "INTERRUPTED"}
    /\ r \notin cancelled /\ r \notin deadline
    /\ r \in current /\ r \notin revoked
    /\ paid' = paid \cup {r}
    /\ UNCHANGED <<row, log, deadline, scope, inst, g, tools, costs, reader, orphan,
                   trouble>>

\* SettleCall, and the reconciliation of a call that was left UNKNOWN, write an
\* event each.  They lock the run's row but look neither at its state nor at
\* its owner.
LedgerEvent(r) ==
    /\ r \in paid /\ costs[r] < MaxCosts
    /\ costs' = [costs EXCEPT ![r] = @ + 1]
    /\ log' = [log EXCEPT ![r] = Append2(r, "COST")]
    /\ UNCHANGED <<row, deadline, scope, inst, g, tools, paid, reader, orphan, trouble>>

-----------------------------------------------------------------------------
(* The event stream and its client *)

SetReader(r, f) == reader' = [reader EXCEPT ![r] = f]

\* visibleRun: the state of the run is read before its events are.
ReadRun(r) ==
    /\ reader[r].pc = "run" /\ state[r] # "NONE"
    /\ SetReader(r, IF Visible(r)
                      THEN [reader[r] EXCEPT !.pc = "rows", !.ended = state[r] \notin Open]
                      ELSE [reader[r] EXCEPT !.pc = "closed", !.broken = TRUE])
    /\ UNCHANGED <<row, log, deadline, scope, inst, g, tools, ledger, orphan, trouble>>

\* Seeded fault: a page of one row.
PageOfOne(r) ==
    IF Len(log[r]) > reader[r].after THEN reader[r].after + 1 ELSE Len(log[r])

\* The last row of the next page.
NextPage(r) ==
    IF Len(log[r]) - reader[r].after > PageLimit
      THEN reader[r].after + PageLimit ELSE Len(log[r])

\* Seeded fault: a stream closes only after an answer.
EndedAnswered(r) == reader[r].ended /\ r \in answered

\* What visibleRun told it before it read the rows.
EndedWhenRead(r) == reader[r].ended

\* The stream goes on or closes after the rows up to n.
AfterPage(r, n, broken) ==
    [NewReader EXCEPT !.pc = IF EndedWhenRead(r) THEN "closed" ELSE "run",
                      !.after = n, !.broken = broken /\ EndedWhenRead(r)]

ReadRows(r) ==
    /\ reader[r].pc = "rows"
    /\ SetReader(r, AfterPage(r, NextPage(r), FALSE))
    /\ UNCHANGED <<row, log, deadline, scope, inst, g, tools, ledger, orphan, trouble>>

\* visibleRun, the query or a Scan fails, and the handler returns; or the rows
\* just stop, which nobody notices because rows.Err() is not asked: the stream
\* goes on, or closes, as after a page that was complete.
ReadBreaks(r) ==
    /\ trouble < MaxTrouble
    /\ reader[r].pc \in {"run", "rows"} /\ state[r] # "NONE"
    /\ \E n \in reader[r].after..NextPage(r) :
          /\ reader[r].pc = "run" => n = reader[r].after
          /\ \/ SetReader(r, [NewReader EXCEPT !.pc = "closed", !.after = n, !.broken = TRUE])
             \/ reader[r].pc = "rows" /\ SetReader(r, AfterPage(r, n, TRUE))
    /\ trouble' = trouble + 1
    /\ UNCHANGED <<row, log, deadline, scope, inst, g, tools, ledger, orphan>>

\* When a stream has closed the browser reads the run; if it has not ended it
\* opens the stream again, after the last event it was given.
Reopen(r) ==
    /\ reader[r].pc = "closed"
    /\ SetReader(r, IF Visible(r) /\ state[r] \in Open
                      THEN [NewReader EXCEPT !.after = reader[r].after]
                      ELSE [NewReader EXCEPT !.pc = IF Visible(r) THEN "told" ELSE "denied"])
    /\ UNCHANGED <<row, log, deadline, scope, inst, g, tools, ledger, orphan, trouble>>

-----------------------------------------------------------------------------

Drive(r) == Start(r) \/ Announce(r) \/ Plan(r) \/ FinishRun(r)

Next ==
    \/ \E r \in Run : Drive(r) \/ RuntimeEvent(r) \/ AnswerEvent(r) \/ StreamEnds(r)
    \/ \E r \in Run : FinishFails(r) \/ PassDeadline(r) \/ LoseScope(r)
    \/ \E r \in Run : ReserveCall(r) \/ LedgerEvent(r)
    \/ \E r \in Run : ReadRun(r) \/ ReadRows(r) \/ ReadBreaks(r) \/ Reopen(r)
    \/ \E i \in Instance, r \in Run : CreateQuery(i, r) \/ CancelQuery(i, r)
    \/ \E i \in Instance :
          Crash(i) \/ Expire(i) \/ StopWork(i) \/ Stop(i) \/ RecoverOwnedWork(i)

Spec == Init /\ [][Next]_vars

\* The goroutine goes on while its process lives; a stream ends at the latest
\* with its deadline; time passes, also for the lease of a dead process; the
\* maintenance loop of the survivor runs.  A client goes on reading.
Fairness ==
    /\ \A r \in Run : /\ WF_vars(Drive(r))
                      /\ WF_vars(r \in deadline /\ StreamEnds(r))
                      /\ WF_vars(PassDeadline(r))
                      /\ WF_vars(ReadRun(r) \/ ReadRows(r) \/ Reopen(r))
    /\ \A i \in Instance : WF_vars(~up[i] /\ Expire(i))
    /\ WF_vars(RecoverOwnedWork(Survivor))
FairSpec == Spec /\ Fairness

-----------------------------------------------------------------------------
(* Properties *)

\* A run ends once, with one DONE event in the same transaction, and an answer
\* is among its events exactly if it ended COMPLETED, whoever ends it.
Outcome == INSTANCE RunOutcome WITH
    phase   <- [r \in Run |-> IF state[r] = "NONE" THEN "absent"
                              ELSE IF state[r] \in Open THEN "open" ELSE state[r]],
    dones   <- [r \in Run |-> Count(r, "DONE")],
    answers <- [r \in Run |-> Count(r, "ANSWER_DELTA")]
ImplementsRunOutcome == Outcome!Spec

\* After a takeover the lost process changes nothing of the run, whatever its
\* goroutine still does: what is added to an INTERRUPTED run is what the ledger
\* learns about calls that were paid for.
TakenOverIsFinal ==
    [][\A r \in Run : state[r] = "INTERRUPTED" =>
          /\ state'[r] = "INTERRUPTED" /\ (r \in answered' <=> r \in answered)
          /\ log'[r] = log[r] \/ log'[r] = Append(log[r], "COST")]_vars

\* An answer is given only before the deadline, from documents that are still
\* current, by a process whose lease is live, and to a client that has not
\* cancelled, although all of these may change while the run is computed.
AnswerInTime ==
    [][\A r \in answered' \ answered :
          /\ r \notin deadline' /\ r \in current /\ r \notin cancelled
          /\ lease[owner[r]] = "live"]_vars

\* An event stream that closes without an error of its last read has delivered
\* DONE, however the ending, late events of the ledger, earlier broken reads and
\* reconnections interleave with its two statements.
StreamEndsWithDone ==
    \A r \in Run : reader[r].pc = "closed" /\ ~reader[r].broken =>
        \E k \in 1..reader[r].after : log[r][k] = "DONE"

\* Every run ends.  Only a lost answer of PostgreSQL can keep one open, and
\* only as long as the instance that owns it keeps its lease.
RunEnds ==
    \A r \in Run :
        []<>(state[r] \notin Open \/ (r \in orphan /\ lease[owner[r]] = "live"))

\* A client that goes on reading is told the end, also if streams break under
\* it, unless the documents are taken from it or the run stays open as above.
ReaderServed ==
    \A r \in Run :
        []<>(\/ state[r] = "NONE" \/ reader[r].pc \in {"told", "denied"}
             \/ (r \in orphan /\ lease[owner[r]] = "live"))
=============================================================================
