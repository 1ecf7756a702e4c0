------------------------------ MODULE LockOrder ------------------------------
(***************************************************************************)
(* The locks that the API's transactions take, in the order in which their *)
(* statements take them.  Every handler is one PostgreSQL transaction that *)
(* keeps what it locked until it commits or rolls back; a lock that another*)
(* transaction holds in a conflicting mode makes it wait, except under     *)
(* SKIP LOCKED.  Transactions that wait for each other in a circle are     *)
(* aborted by the database: the ledger's callers see BUDGET_UNAVAILABLE.   *)
(*                                                                         *)
(* A lock is a table (or an advisory lock) and a row.  Left out: locks that*)
(* never conflict (the configuration row is only read, FOR SHARE; foreign  *)
(* keys take KEY SHARE), rows that only holders of the admission lock touch*)
(* (calls and budgets of M3; the calls and budgets here are those of M2,   *)
(* which the M2 reconciliation locks without it), and the outbox, whose    *)
(* relay takes one row and no other lock.  The rows that an UPDATE without *)
(* ORDER BY touches are one row here, as are a document's versions.        *)
(***************************************************************************)
EXTENDS Naturals, Sequences, FiniteSets, FiniteSetsExt

CONSTANTS
    Tx,         \* transactions that may be open at once
    Run, Doc,   \* rows, in the order of their ids
    HotOnly     \* whether background extraction runs under HOT_ONLY

\* What the theorem assumes.
LockAssumption ==
    /\ Run \subseteq Nat \ {0} /\ Doc \subseteq Nat \ {0}
    /\ IsFiniteSet(Run) /\ IsFiniteSet(Doc) /\ IsFiniteSet(Tx)
    /\ HotOnly \in BOOLEAN

VARIABLES
    todo,       \* statements a transaction has yet to execute; <<>> at its end
    shared,     \* locks it holds FOR SHARE
    exclusive   \* locks it holds FOR UPDATE

vars == <<todo, shared, exclusive>>

-----------------------------------------------------------------------------
(* Statements *)

\* Locks the rows one after the other, in the order of their ids.
Rows(table, rows, mode) == [table |-> table, rows |-> rows, mode |-> mode, skip |-> FALSE]
Row(table, row) == Rows(table, {row}, "X")

\* FOR UPDATE SKIP LOCKED.
Skip(table, rows) == [table |-> table, rows |-> rows, mode |-> "X", skip |-> TRUE]

\* The advisory locks of the sweepers (74004001) and of admission (73003001),
\* and the one that serializes requests with the same idempotency key.
Sweepers == Row("sweepers", 0)
Admission == Row("admission", 0)
Budget == Row("budgets", 0)
Key(r) == Row("keys", r)

Scope(D) == Rows("documents", D, "S")               \* lockScope
StrongScope(D) == Rows("documents", D, "X")         \* lockM2Scope

-----------------------------------------------------------------------------
(* Handlers: the statements of each, in order *)

CreateQuery(r, D) == <<Key(r), Scope(D)>>
CancelQuery(r) == <<Row("runs", r)>>

\* An M2 run locks strongly; both mark the calls that are still open.
FinishRun(r, D) == {<<Row("runs", r), scope, Admission, Row("calls", r), Budget>>
                       : scope \in {Scope(D), StrongScope(D)}}

\* The operations on facts; with a job the caller's lease is locked as well.
M2Transaction(r, D) == {<<Row("runs", r), StrongScope(D)>>,
                        <<Row("runs", r), Row("jobs", r), StrongScope(D)>>}
ForegroundSnapshot(r, D) == <<Row("runs", r), Scope(D), Admission>>
BackgroundSnapshot(r, D) == <<Row("runs", r), Row("jobs", r), StrongScope(D), Admission>>
ObservePrefix(r) == <<Row("runs", r), Row("jobs", r)>>
FinishJob(r, D) == <<Row("runs", r), Row("jobs", r), StrongScope(D)>>

\* Under HOT_ONLY the evidence is checked after the budget is admitted, and
\* the check locks the scope again (m3CacheDecisionForReserve).
ReserveForeground(r, D) == <<Row("runs", r), Scope(D), Admission, Budget>>
ReserveBackground(r, D) ==
    IF HotOnly
    THEN <<Row("runs", r), Row("jobs", r), Scope(D), Admission, Budget, StrongScope(D)>>
    ELSE <<Row("runs", r), Row("jobs", r), Scope(D), Admission, Budget>>
SettleCall(r) == <<Row("runs", r), Admission, Row("calls", r), Budget>>

ReconcileJobs(R) == <<Skip("runs", R), Skip("jobs", R), Admission>>
RecoverLeases(q, r) == <<Skip("runs", {q, r}), Skip("jobs", {q}), Admission, Skip("jobs", {r}), Admission>>
RecoverCalls(R) == <<Skip("runs", R), Admission, Rows("calls", R, "X"), Budget>>
FailRecovery(r) == <<Row("runs", r), Row("jobs", r)>>
RecoverOwnedWork(R, D) ==
    <<Sweepers, Rows("runs", R, "X"), Admission, Rows("versions", D, "X"), Rows("calls", R, "X"), Budget>>

ReconcileM2(r) == <<Row("runs", r), Row("calls", r), Budget>>
ReconcileM4(r) == <<Row("runs", r), Admission>>

ChangeDocument(d) == <<Row("documents", d), Row("versions", d)>>   \* upload, index, revoke
ParseVersion(d) == <<Row("versions", d)>>

RunHandler(r) ==
    {CancelQuery(r), ObservePrefix(r), SettleCall(r), FailRecovery(r), ReconcileM2(r), ReconcileM4(r)}
ScopeHandler(r, D) ==
    {CreateQuery(r, D), ForegroundSnapshot(r, D), BackgroundSnapshot(r, D), FinishJob(r, D),
     ReserveForeground(r, D), ReserveBackground(r, D)} \cup FinishRun(r, D) \cup M2Transaction(r, D)
Sweep ==
    (UNION {{ReconcileJobs(R), RecoverCalls(R)} : R \in (SUBSET Run) \ {{}}})
        \cup {RecoverLeases(q, r) : q \in Run, r \in Run}
        \cup {RecoverOwnedWork(R, D) : R \in SUBSET Run, D \in SUBSET Doc}

Handler ==
    (UNION {RunHandler(r) : r \in Run})
        \cup (UNION {ScopeHandler(r, D) : r \in Run, D \in (SUBSET Doc) \ {{}}})
        \cup Sweep
        \cup (UNION {{ChangeDocument(d), ParseVersion(d)} : d \in Doc})

-----------------------------------------------------------------------------
(* The lock manager *)

Holds(t, l, mode) == l \in exclusive[t] \/ (mode = "S" /\ l \in shared[t])
Blocks(u, l, mode) == l \in exclusive[u] \/ (mode = "X" /\ l \in shared[u])
Free(t, l, mode) == \A u \in Tx \ {t} : ~Blocks(u, l, mode)

Statement(t) == Head(todo[t])

\* The rows that the statement has yet to lock.
Missing(t) == {r \in Statement(t).rows : ~Holds(t, <<Statement(t).table, r>>, Statement(t).mode)}

Waiting(t) == todo[t] # <<>> /\ ~Statement(t).skip /\ Missing(t) # {}

Wanted(t) == <<Statement(t).table, Min(Missing(t))>>

WaitsFor(t, u) == Waiting(t) /\ u # t /\ Blocks(u, Wanted(t), Statement(t).mode)

Lock(t, locks, mode) ==
    IF mode = "X"
    THEN /\ exclusive' = [exclusive EXCEPT ![t] = @ \cup locks]
         /\ UNCHANGED shared
    ELSE /\ shared' = [shared EXCEPT ![t] = @ \cup locks]
         /\ UNCHANGED exclusive

Init ==
    /\ todo = [t \in Tx |-> <<>>]
    /\ shared = [t \in Tx |-> {}]
    /\ exclusive = [t \in Tx |-> {}]

Begin(t) ==
    /\ todo[t] = <<>> /\ shared[t] = {} /\ exclusive[t] = {}
    /\ \E h \in Handler : todo' = [todo EXCEPT ![t] = h]
    /\ UNCHANGED <<shared, exclusive>>

Acquire(t) ==
    /\ Waiting(t)
    /\ Free(t, Wanted(t), Statement(t).mode)
    /\ Lock(t, {Wanted(t)}, Statement(t).mode)
    /\ UNCHANGED todo

\* Jobs are looked for in the runs that were locked.
AcquireFree(t) ==
    /\ todo[t] # <<>> /\ Statement(t).skip
    /\ LET s == Statement(t)
           looked == IF s.table = "jobs" THEN {r \in s.rows : <<"runs", r>> \in exclusive[t]} ELSE s.rows
       IN  Lock(t, {l \in {<<s.table, r>> : r \in looked} : Free(t, l, "X")}, "X")
    /\ todo' = [todo EXCEPT ![t] = Tail(@)]

Advance(t) ==
    /\ todo[t] # <<>> /\ ~Statement(t).skip /\ Missing(t) = {}
    /\ todo' = [todo EXCEPT ![t] = Tail(@)]
    /\ UNCHANGED <<shared, exclusive>>

\* Commit, or the rollback of a handler that returns early.
End(t) ==
    /\ exclusive[t] \cup shared[t] # {}
    /\ todo' = [todo EXCEPT ![t] = <<>>]
    /\ shared' = [shared EXCEPT ![t] = {}]
    /\ exclusive' = [exclusive EXCEPT ![t] = {}]

Next == \E t \in Tx : Begin(t) \/ Acquire(t) \/ AcquireFree(t) \/ Advance(t) \/ End(t)

Spec == Init /\ [][Next]_vars

-----------------------------------------------------------------------------
(* Properties *)

\* Locks are taken in one stable order, the strongest document lock first
\* (m2_extraction.go:26): however the handlers of several runs interleave, in
\* any group of open transactions at least one waits for no other of the group.
NoWaitCycle ==
    \A S \in (SUBSET Tx) \ {{}} : \E t \in S : \A u \in S : ~WaitsFor(t, u)

=============================================================================
