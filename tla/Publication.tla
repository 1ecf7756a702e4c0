----------------------------- MODULE Publication -----------------------------
(***************************************************************************)
(* Verified facts: batches of candidates are stored, validated into a      *)
(* report and published; facts are derived from facts, read, and reused in *)
(* answers.                                                                *)
(*                                                                         *)
(* Every one of these transactions first locks the documents of its run's  *)
(* scope (m2Transaction, lockM2Scope).  The ones that read facts then go   *)
(* through readFactsTx, statement by statement: each statement sees what   *)
(* has been committed before it.  An operator who invalidates a fact takes *)
(* no document lock, only the fact's row.  Whoever works on a batch locks  *)
(* its row (loadBatch).  A lock that is not free is an action that waits.  *)
(*                                                                         *)
(* A batch belongs to the run that made it.  Another run whose contract    *)
(* names it (revalidate_batch_id) may validate and publish it as well: a   *)
(* batch then has reports of several runs.                                 *)
(*                                                                         *)
(* One entity, one period: a requirement is one of three concepts.  A fact *)
(* is what its fingerprint hashes, so the unique index is set membership.  *)
(* What semanticSource says of a reported candidate is part of the         *)
(* candidate: regions are immutable.  Bounds: MaxCandidates in a batch, at *)
(* most one of them derived; MaxReports validations of a batch; MaxInvalid *)
(* invalidated facts.                                                      *)
(***************************************************************************)
EXTENDS Integers, FiniteSets, Sequences

CONSTANTS
    Run, Batch, Version,
    Scope,          \* query_runs.version_ids of each run
    Revalidate,     \* revalidate_batch_id in the contract of each run, or None
    Amount,         \* the values that documents report for a concept
    SourceVerdict,  \* what semanticSource may say of a reported candidate
    Earlier,        \* the facts that earlier runs may have left
    Extracted,      \* the candidates that results may hold
    MaxCandidates,  \* bound: candidates of a batch, 1 or 2
    MaxReports,     \* bound: validations of each batch
    MaxInvalid,     \* bound: facts that operators invalidate
    None

ASSUME PublicationAssumption ==
    /\ Scope \in [Run -> SUBSET Version]
    /\ Revalidate \in [Run -> Batch \cup {None}]
    /\ Amount \in [{"revenue", "cost"} -> SUBSET Nat]
    /\ SourceVerdict \subseteq {"VALIDATED", "INCONCLUSIVE", "REJECTED"}
    /\ MaxCandidates \in 1..2 /\ MaxReports \in [Batch -> Nat] /\ MaxInvalid \in Nat
    /\ None \notin Run \cup Batch

VARIABLES
    facts,       \* published facts
    invalid,     \* those with invalidated_at
    live,        \* versions that are current, READY and not revoked
    batch,       \* extraction_batches, with their validation_reports
    tx,          \* the open transaction of a run (its row is locked)
    done         \* runs that have ended

vars == <<facts, invalid, live, batch, tx, done>>

-----------------------------------------------------------------------------
(* Facts *)

Reported ==
    UNION {[req : {q}, value : Amount[q], version : Version, inputs : {{}}] :
              q \in {"revenue", "cost"}}

\* Gross margin, rounded.
Margin(rev, cost) == (100 * (rev.value - cost.value)) \div rev.value

Derived(rev, cost) ==
    [req |-> "margin", value |-> Margin(rev, cost), version |-> rev.version,
     inputs |-> {rev, cost}]

Derivable == {p \in Reported \X Reported :
                 p[1].req = "revenue" /\ p[2].req = "cost" /\ p[1].value # 0}
DerivedFacts == {Derived(p[1], p[2]) : p \in Derivable}
Fact == Reported \cup DerivedFacts

Verdict == {"VALIDATED", "INCONCLUSIVE", "REJECTED"}

\* A candidate of a batch; the verdict of a derived one is found by reading.
Candidate == [fact : Reported, verdict : SourceVerdict] \cup [fact : DerivedFacts, verdict : {None}]

ASSUME ExtractedAssumption == Extracted \subseteq Candidate

InScope(f, r) == f.version \in Scope[r] \cap live /\ f \notin invalid
Peers(f, r) == {g \in facts : InScope(g, r) /\ g.req = f.req /\ g.value # f.value}

Unopposed(f, r) == InScope(f, r) /\ Peers(f, r) = {}

\* validFactsSQL: a fact counts while every input counts and has no peer with
\* another value.
Valid(r) == {f \in facts : InScope(f, r) /\ \A x \in f.inputs : Unopposed(x, r)}

Graph(S) == S \cup UNION {f.inputs : f \in S}

\* A fact is published after its inputs, and none is ever deleted.
ASSUME EarlierAssumption == \A S \in Earlier : S \subseteq Fact /\ Graph(S) = S

\* coverageOf, for the requirements of S: each is matched by one value.
Covered(S, found) ==
    \A f \in S : \E x \in found : x.req = f.req
                               /\ \A y \in found : y.req = f.req => y.value = x.value

-----------------------------------------------------------------------------
(* Batches *)

NoBatch == [run |-> None, state |-> "NONE", cands |-> {}, reports |-> <<>>, expired |-> FALSE]

Latest(b) == batch[b].reports[Len(batch[b].reports)]

\* Verdicts of the latest report.
Items(b, v) == {c \in batch[b].cands : batch[b].reports # <<>> /\ Latest(b).items[c] = v}

\* How a transaction reads facts: what it asks for, by id and then by
\* requirement; what a statement has selected; which rows it holds FOR SHARE;
\* what came out.
NoTx == [kind |-> "none", batch |-> None, report |-> 0, want |-> {}, pc |-> "idle",
         sel |-> {}, held |-> {}, result |-> "none"]

TxKind == {"none", "validate", "commit", "derive", "read", "answer"}
TxPc == {"idle", "ids", "idsLock", "idsCount", "reqs", "reqsLock", "reqsCount", "end"}

TxResult == {"none", "ok", "found", "invalid", "conflict"}

TypeOK ==
    /\ facts \subseteq Fact /\ invalid \subseteq facts
    /\ \A f \in facts : f.inputs \subseteq facts
    /\ live \subseteq Version
    /\ \A b \in Batch :
          /\ batch[b].run \in Run \cup {None}
          /\ batch[b].state \in {"NONE", "CREATED", "RESULT_READY", "COMMITTED"} \cup Verdict
          /\ (batch[b].run = None) = (batch[b].state = "NONE")
          /\ batch[b].cands \subseteq Candidate
          /\ \A n \in DOMAIN batch[b].reports :
                batch[b].reports[n] \in [by : Run, items : [batch[b].cands -> Verdict]]
          /\ batch[b].expired \in BOOLEAN
    /\ \A r \in Run :
          /\ tx[r].kind \in TxKind /\ tx[r].pc \in TxPc
          /\ tx[r].batch \in Batch \cup {None} /\ tx[r].report \in Nat
          /\ tx[r].want \subseteq Fact /\ tx[r].sel \subseteq facts /\ tx[r].held \subseteq facts
          /\ tx[r].result \in TxResult
    /\ done \subseteq Run

Init ==
    /\ facts \in Earlier
    /\ invalid = {} /\ live = Version
    /\ batch = [b \in Batch |-> NoBatch]
    /\ tx = [r \in Run |-> NoTx]
    /\ done = {}

-----------------------------------------------------------------------------
(* Transactions and their locks *)

DocumentLocked(v) == \E r \in Run : tx[r].kind # "none" /\ v \in Scope[r]
FactLocked(f) == \E r \in Run : f \in tx[r].held
BatchLocked(b) == \E r \in Run : tx[r].batch = b

SameScope(r, b) == batch[b].run # None /\ Scope[batch[b].run] = Scope[r]

\* createQuery refuses to revalidate a batch that is not there, or one of other
\* documents.
Created(r) == Revalidate[r] # None => SameScope(r, Revalidate[r])

\* m2Transaction: the run is active, its documents are locked, all in scope.
Enter(r) ==
    /\ Created(r)
    /\ r \notin done /\ tx[r].kind = "none"
    /\ \A v \in Scope[r] : ~DocumentLocked(v)
    /\ Scope[r] \subseteq live

\* checkBatch: the run's own batch, or the one that its contract names.
Mine(r, b) == SameScope(r, b) /\ (batch[b].run = r \/ Revalidate[r] = b)

\* loadBatch FOR UPDATE, then checkBatch.
LoadBatch(r, b) == ~BatchLocked(b) /\ Mine(r, b)

Open(r, kind, b, n, want, pc) ==
    tx' = [tx EXCEPT ![r] = [NoTx EXCEPT !.kind = kind, !.batch = b, !.report = n,
                                         !.want = want, !.pc = pc]]
Close(r) == tx' = [tx EXCEPT ![r] = NoTx]

\* A deadline, a lost connection or a lost lease rolls the transaction back.
Rollback(r) ==
    /\ tx[r].kind # "none"
    /\ Close(r)
    /\ UNCHANGED <<facts, invalid, live, batch, done>>

-----------------------------------------------------------------------------
(* readFactsTx *)

At(r, pc) == tx[r].pc = pc

Selected(r) ==
    IF At(r, "ids") THEN Valid(r) \cap tx[r].want
    ELSE {f \in Valid(r) : \E w \in tx[r].want : w.req = f.req}

\* SELECT ... FOR SHARE OF f: by id first, then everything of the same
\* requirements.
SelectFacts(r) ==
    /\ At(r, "ids") \/ At(r, "reqs")
    /\ tx' = [tx EXCEPT ![r].sel = Selected(r),
                        ![r].held = @ \cup Selected(r),
                        ![r].pc = IF @ = "ids" THEN "idsLock" ELSE "reqsLock"]
    /\ UNCHANGED <<facts, invalid, live, batch, done>>

\* The inputs, all the way down, FOR SHARE.
LockGraph(r) ==
    /\ At(r, "idsLock") \/ At(r, "reqsLock")
    /\ tx' = [tx EXCEPT ![r].held = @ \cup Graph(tx[r].sel),
                        ![r].pc = IF @ = "idsLock" THEN "idsCount" ELSE "reqsCount"]
    /\ UNCHANGED <<facts, invalid, live, batch, done>>

\* Seeded fault: what was selected before the rows were locked is trusted.
UnchangedTrusted(r) == tx[r].sel \subseteq facts

\* FACTS_CHANGED_DURING_READ otherwise.
StillValid(r) == tx[r].sel \subseteq Valid(r)

Result(r, x) == tx' = [tx EXCEPT ![r].result = x, ![r].pc = "end"]

\* DeriveFacts reads by id only.
CountIds(r) ==
    /\ At(r, "idsCount")
    /\ IF ~StillValid(r) \/ tx[r].sel # tx[r].want THEN Result(r, "invalid")
       ELSE IF tx[r].kind = "derive" THEN Result(r, "found")
       ELSE tx' = [tx EXCEPT ![r].pc = "reqs"]
    /\ UNCHANGED <<facts, invalid, live, batch, done>>

CountReqs(r) ==
    /\ At(r, "reqsCount")
    /\ Result(r, IF StillValid(r) /\ Covered(tx[r].want, tx[r].sel) THEN "ok" ELSE "conflict")
    /\ UNCHANGED <<facts, invalid, live, batch, done>>

-----------------------------------------------------------------------------
(* Extraction *)

BeginExtraction(r, b) ==
    /\ Enter(r)
    /\ batch[b].state = "NONE"
    /\ batch' = [batch EXCEPT ![b] = [NoBatch EXCEPT !.run = r, !.state = "CREATED"]]
    /\ UNCHANGED <<facts, invalid, live, tx, done>>

\* What a model may return, or DeriveFacts has computed: sets of candidates of
\* documents in scope.
Results(r) ==
    LET mine == {c \in Extracted : \A x \in Graph({c.fact}) : x.version \in Scope[r]} IN
    {{p[1], p[2]} : p \in {p \in mine \X mine :
        p[1] # p[2] => MaxCandidates = 2 /\ p[1].fact.inputs = {} /\ p[1].fact # p[2].fact}}

\* Seeded fault: a second result replaces the first.
StorableAgain(b) == TRUE

\* A repeated submission changes nothing, a different one is a conflict.
Storable(b) == batch[b].cands = {}

StoreCandidates(r, b, C) ==
    /\ Enter(r) /\ LoadBatch(r, b) /\ Storable(b)
    /\ batch' = [batch EXCEPT ![b].cands = C, ![b].state = "RESULT_READY"]
    /\ UNCHANGED <<facts, invalid, live, tx, done>>

Inputs(C) == UNION {c.fact.inputs : c \in C}
ReadFirst(C) == IF Inputs(C) = {} THEN "end" ELSE "ids"

Revalidatable(b) == batch[b].cands # {} /\ batch[b].state # "COMMITTED"

BeginValidate(r, b) ==
    /\ Enter(r) /\ LoadBatch(r, b)
    /\ Revalidatable(b) /\ Len(batch[b].reports) < MaxReports[b]
    /\ Open(r, "validate", b, 0, Inputs(batch[b].cands), ReadFirst(batch[b].cands))
    /\ UNCHANGED <<facts, invalid, live, batch, done>>

\* validateDerived, and what semanticSource says.
Judge(r, c) ==
    IF c.fact.inputs = {} THEN c.verdict
    ELSE CASE tx[r].result = "ok"       -> "VALIDATED"
           [] tx[r].result = "conflict" -> "INCONCLUSIVE"
           [] OTHER                     -> "REJECTED"

Overall(V) == IF "VALIDATED" \in V THEN "VALIDATED"
              ELSE IF "INCONCLUSIVE" \in V THEN "INCONCLUSIVE" ELSE "REJECTED"

ValidateCandidates(r) ==
    LET b == tx[r].batch
        items == [c \in batch[b].cands |-> Judge(r, c)] IN
    /\ tx[r].kind = "validate" /\ At(r, "end")
    /\ batch' = [batch EXCEPT ![b].reports = Append(@, [by |-> r, items |-> items]),
                              ![b].expired = FALSE,
                              ![b].state = Overall({items[c] : c \in batch[b].cands})]
    /\ Close(r)
    /\ UNCHANGED <<facts, invalid, live, done>>

\* 120 seconds, or the deadline of the batch.
ReportExpires(b) ==
    /\ batch[b].reports # <<>> /\ ~batch[b].expired
    /\ batch' = [batch EXCEPT ![b].expired = TRUE]
    /\ UNCHANGED <<facts, invalid, live, tx, done>>

-----------------------------------------------------------------------------
(* Publication *)

\* Seeded fault: any report of the batch is good enough.
CurrentReportAny(r, b, n) == n \in DOMAIN batch[b].reports

\* The latest one, and made by the run that publishes.
CurrentReport(r, b, n) ==
    n = Len(batch[b].reports) /\ n # 0 /\ batch[b].reports[n].by = r

Passed(b, n) == {c \in batch[b].cands : batch[b].reports[n].items[c] = "VALIDATED"}

\* The caller names the report that it has been given.
BeginCommit(r, b, n) ==
    /\ Enter(r) /\ LoadBatch(r, b)
    /\ CurrentReport(r, b, n) /\ ~batch[b].expired
    /\ Open(r, "commit", b, n, Inputs(Passed(b, n)), ReadFirst(Passed(b, n)))
    /\ UNCHANGED <<facts, invalid, live, batch, done>>

\* Seeded fault: the verdict in the report is not confirmed.
ConfirmedByReport(r, C) == C # {}

\* Each candidate is validated again, in this transaction.
Confirmed(r, C) == \A c \in C : Judge(r, c) = "VALIDATED"

\* All the validated candidates, or none: an item that has changed, or whose
\* fact has been invalidated, fails the transaction.
CommitExtraction(r) ==
    LET b == tx[r].batch
        good == Passed(b, tx[r].report)
        new == {c.fact : c \in good} IN
    /\ tx[r].kind = "commit" /\ At(r, "end")
    /\ IF Confirmed(r, good) /\ new \cap invalid = {} /\ ~batch[b].expired
       THEN /\ facts' = facts \cup new
            /\ batch' = [batch EXCEPT ![b].state = IF good = {} THEN @ ELSE "COMMITTED"]
       ELSE UNCHANGED <<facts, batch>>
    /\ Close(r)
    /\ UNCHANGED <<invalid, live, done>>

\* DeriveFacts names two facts and reads them.
BeginDerive(r, S) ==
    /\ Enter(r)
    /\ Cardinality(S) = 2
    /\ Open(r, "derive", None, 0, S, "ids")
    /\ UNCHANGED <<facts, invalid, live, batch, done>>

\* If a margin follows from them, a batch is made for it; storing the margin,
\* validating and publishing it are transactions of their own.
DeriveFacts(r, b) ==
    /\ tx[r].kind = "derive" /\ At(r, "end") /\ tx[r].result = "found"
    /\ batch[b].state = "NONE"
    /\ \E rev, cost \in tx[r].want : <<rev, cost>> \in Derivable
    /\ batch' = [batch EXCEPT ![b] = [NoBatch EXCEPT !.run = r, !.state = "CREATED"]]
    /\ Close(r)
    /\ UNCHANGED <<facts, invalid, live, done>>

-----------------------------------------------------------------------------
(* Reading and answering *)

\* m2Read: the facts of a requirement, and whether they cover it.
BeginRead(r, w) ==
    /\ Enter(r)
    /\ Open(r, "read", None, 0, {w}, "reqs")
    /\ UNCHANGED <<facts, invalid, live, batch, done>>

ReadFacts(r) ==
    /\ tx[r].kind = "read" /\ At(r, "end")
    /\ Close(r)
    /\ UNCHANGED <<facts, invalid, live, batch, done>>

\* finishRun with an answer that reuses what earlier reads have returned:
\* any published facts, as facts are never deleted.
BeginAnswer(r, S) ==
    /\ Enter(r)
    /\ S # {}
    /\ Open(r, "answer", None, 0, S, "ids")
    /\ UNCHANGED <<facts, invalid, live, batch, done>>

\* validateAnswerReuse has accepted the facts and the answer is committed, or
\* it has not and the run fails.
FinishRun(r) ==
    /\ tx[r].kind = "answer" /\ At(r, "end")
    /\ done' = done \cup {r}
    /\ Close(r)
    /\ UNCHANGED <<facts, invalid, live, batch>>

-----------------------------------------------------------------------------
(* What others do *)

\* An operator sets invalidated_at: the row must not be held FOR SHARE.
Invalidate(f) ==
    /\ f \in facts \ invalid /\ Cardinality(invalid) < MaxInvalid
    /\ ~FactLocked(f)
    /\ invalid' = invalid \cup {f}
    /\ UNCHANGED <<facts, live, batch, tx, done>>

\* An upload or a revocation: the document must not be locked.
LeaveScope(v) ==
    /\ v \in live /\ ~DocumentLocked(v)
    /\ live' = live \ {v}
    /\ UNCHANGED <<facts, invalid, batch, tx, done>>

-----------------------------------------------------------------------------

Step(r) ==
    \/ SelectFacts(r) \/ LockGraph(r) \/ CountIds(r) \/ CountReqs(r)
    \/ ValidateCandidates(r) \/ CommitExtraction(r) \/ ReadFacts(r) \/ FinishRun(r)
    \/ Rollback(r)
    \/ \E b \in Batch : DeriveFacts(r, b)

\* A request begins a transaction, so only a run outside one makes any.
Request(r) ==
    /\ Enter(r)
    /\ \/ \E b \in Batch :
             \/ BeginExtraction(r, b) \/ BeginValidate(r, b)
             \/ \E C \in Results(r) : StoreCandidates(r, b, C)
             \/ \E n \in 1..MaxReports[b] : BeginCommit(r, b, n)
       \/ \E w \in facts : BeginRead(r, w)
       \/ \E S \in {{f, g} : f, g \in facts} : BeginAnswer(r, S) \/ BeginDerive(r, S)

Next ==
    \/ \E r \in Run : Request(r) \/ Step(r)
    \/ \E b \in Batch : ReportExpires(b)
    \/ \E f \in facts : Invalidate(f)
    \/ \E v \in Version : LeaveScope(v)

Spec == Init /\ [][Next]_vars

-----------------------------------------------------------------------------
(* Properties *)

\* A fact that stands: it counts, and no other fact that counts contradicts it.
\* (A margin whose revenue has been invalidated does not count, though it is in
\* scope: it contradicts nothing.)
Stands(f, r) == f \in Valid(r) /\ \A g \in Valid(r) : g.req = f.req => g.value = f.value

\* When a run is told that its requirement is covered, or its answer is
\* committed, every fact concerned stands at that moment, although others
\* publish, invalidate and replace documents between the statements.
AnswerStands ==
    [][\A r \in Run :
          /\ FinishRun(r) /\ tx[r].result = "ok" => \A f \in tx[r].want : Stands(f, r)
          /\ ReadFacts(r) /\ tx[r].result = "ok" => \A f \in tx[r].sel : Stands(f, r)]_vars

\* At the moment a derived fact is published, its inputs stand in the scope of
\* the run that publishes it.
DerivedFromValid ==
    [][\A f \in facts' \ facts : f.inputs # {} =>
          \E r \in Run : tx[r].kind = "commit" /\ \A x \in f.inputs : Stands(x, r)]_vars

\* What is published has been validated in the latest report of its batch, and
\* by the run that publishes it, although several runs may validate the batch,
\* each may hold the number of an older report, and what another run has called
\* doubtful since is doubtful for all.
LatestReportDecides ==
    [][\A f \in facts' \ facts : \E r \in Run : \E b \in Batch :
          /\ tx[r].kind = "commit" /\ tx[r].batch = b
          /\ \E c \in Items(b, "VALIDATED") : c.fact = f
          /\ Latest(b).by = r]_vars
=============================================================================
