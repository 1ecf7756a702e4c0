------------------------ MODULE JobLifecycle_proofs ------------------------
(***************************************************************************)
(* Proofs about JobLifecycle, for any jobs, workers and instances, with    *)
(* and without recovery and probes, whatever MaxTrouble is: types, fencing,*)
(* open calls, endings, probes, and the refinement of DurableJob.          *)
(***************************************************************************)
EXTENDS JobLifecycle, FiniteSetTheorems, TLAPS

USE JobAssumption

-----------------------------------------------------------------------------
(* Types *)

\* A worker that goes on, that only labels its job, or that is through is in
\* one of the states the type invariant lists.
LEMMA TaskTypes ==
    ASSUME TypeOK, NEW w \in Worker
    PROVE  /\ \A p \in Step : At(w, p) \in Task
           /\ Failing(w) \in Task
           /\ \A b \in BOOLEAN : [Failing(w) EXCEPT !.ready = b] \in Task
           /\ Done \in Task
<1>1. task[w] \in Task
  BY DEF TypeOK
<1>2. \A p \in Step : At(w, p) \in Task
  BY <1>1 DEF At, Task
<1>3. Nothing \in Task
  BY DEF Nothing, Task, Step, Stage, Result
<1>4. Failing(w) \in Task
  BY <1>1, <1>3 DEF Failing, Task, Step
<1>5. \A b \in BOOLEAN : [Failing(w) EXCEPT !.ready = b] \in Task
  BY <1>4 DEF Task
<1>6. Done \in Task
  BY <1>3 DEF Done, Task, Step
<1> QED BY <1>2, <1>4, <1>5, <1>6

\* Whether or not a reply arrives, the worker's memory keeps its type.
LEMMA ReplyType ==
    ASSUME TypeOK, NEW w \in Worker, NEW t \in Task, Reply(w, t) \/ Becomes(w, t)
    PROVE  task' \in [Worker -> Task]
<1>1. Failing(w) \in Task
  BY TaskTypes
<1> QED BY <1>1 DEF Reply, Becomes, TypeOK

\* A sweep keeps the types of the calls.
LEMMA MarkUnknownType ==
    ASSUME TypeOK, NEW S, MarkUnknown(S)
    PROVE  callState' \in [Worker -> [Stage -> CallState]]
BY DEF MarkUnknown, TypeOK, CallState

\* Losing a lease keeps the types of its columns.
LEMMA ClearLeaseType ==
    ASSUME TypeOK, NEW j \in Job, ClearLease(j)
    PROVE  /\ owner' \in [Job -> Worker \cup {None}]
           /\ leaseLive' \in [Job -> BOOLEAN]
           /\ fence' \in [Job -> Nat]
BY DEF ClearLease, TypeOK

\* The states in which cancellations and sweeps leave a job are states of the
\* table's CHECK constraint.
LEMMA StateTypes ==
    ASSUME NEW j \in Job
    PROVE  /\ CancelledState(j) \in Terminal
           /\ RecoveredState(j) \in Open \cup Terminal
BY DEF CancelledState, RecoveredState, Open, Terminal

\* Every column, and what a worker has in memory, keeps its type.
THEOREM TypeCorrect == Spec => []TypeOK
<1>1. Init => TypeOK
  <2>1. Nothing \in Task
    BY DEF Nothing, Task, Step, Stage, Result
  <2>2. Init => task \in [Worker -> Task]
    BY <2>1 DEF Init
  <2>3. Init =>
          /\ run \in RunState
          /\ cancelled \in BOOLEAN /\ expired \in BOOLEAN
          /\ current \in BOOLEAN /\ upgraded \in BOOLEAN
          /\ live \subseteq Instance
    BY DEF Init, RunState
  <2>4. Init =>
          /\ state \in [Job -> Open \cup Terminal \cup {"NONE"}]
          /\ owner \in [Job -> Worker \cup {None}]
          /\ leaseLive \in [Job -> BOOLEAN]
          /\ leaseInst \in [Job -> Instance \cup {None}]
          /\ fence \in [Job -> Nat]
          /\ waiting \in [Job -> BOOLEAN]
    BY DEF Init
  <2>5. Init =>
          /\ raw \in [Job -> Result]
          /\ report \in [Job -> {None, "some", "none"}]
          /\ reportBy \in [Job -> Worker \cup {None}]
          /\ published \in [Job -> BOOLEAN]
          /\ probeRound \in [Job -> {0, 1}]
    BY DEF Init, Result
  <2>6. Init =>
          /\ callState \in [Worker -> [Stage -> CallState]]
          /\ callInst \in [Worker -> [Stage -> Instance \cup {None}]]
          /\ recorded \in [Worker -> SUBSET Stage]
          /\ job \in [Worker -> Job \cup {None}]
          /\ sent \in [Worker -> SUBSET Stage]
    BY DEF Init, CallState
  <2> QED BY <2>2, <2>3, <2>4, <2>5, <2>6 DEF TypeOK
<1>2. TypeOK /\ [Next]_vars => TypeOK'
  <2> SUFFICES ASSUME TypeOK, [Next]_vars PROVE TypeOK'
    OBVIOUS
  <2> USE DEF runRow, world, lease, jobRow, batch, calls, work
  <2>1. ASSUME NEW j \in Job, CreateJob(j) PROVE TypeOK'
    BY <2>1 DEF CreateJob, TypeOK, Open
  <2>2. ASSUME NEW s \in {"COMPLETED", "FAILED"}, EndRun(s) PROVE TypeOK'
    BY <2>2 DEF EndRun, TypeOK, RunState
  <2>3. ASSUME NEW w \in Worker, NEW j \in Job, NEW i \in Instance,
               ClaimJob(w, j, i)
        PROVE  TypeOK'
    <3>1. fence[j] + 1 \in Nat /\ reportBy[j] \in Worker \cup {None}
          /\ HasCandidates(j) \in BOOLEAN
      BY DEF TypeOK, HasCandidates
    <3>2. \A p \in FirstSteps(j) : p \in Step
      BY DEF FirstSteps, Step
    <3>3. \A p \in FirstSteps(j) :
             [pc |-> p, token |-> fence[j] + 1, ready |-> HasCandidates(j),
              answer |-> IF p = "store" THEN "content" ELSE None,
              using |-> reportBy[j], stage |-> "extraction"] \in Task
      BY <3>1, <3>2 DEF Task, Result, Stage
    <3>4. task' \in [Worker -> Task]
      <4>1. \E t \in Task : Becomes(w, t)
        BY <2>3, <3>3, TaskTypes DEF ClaimJob
      <4> QED BY <4>1, ReplyType
    <3> QED BY <2>3, <3>1, <3>4 DEF ClaimJob, TypeOK, Open
  <2>4. ASSUME NEW w \in Worker, NEW i \in Instance, ReserveCall(w, i)
        PROVE  TypeOK'
    <3>1. task' \in [Worker -> Task]
      BY <2>4, TaskTypes, ReplyType DEF ReserveCall, Step
    <3>2. task[w].stage \in Stage
      BY DEF TypeOK, Task
    <3> QED BY <2>4, <3>1, <3>2 DEF ReserveCall, TypeOK, CallState
  <2>5. ASSUME NEW w \in Worker, Dispatch(w) PROVE TypeOK'
    <3>1. task' \in [Worker -> Task] /\ task[w].stage \in Stage
      BY <2>5, TaskTypes, ReplyType DEF Dispatch, Step, TypeOK, Task
    <3> QED BY <2>5, <3>1 DEF Dispatch, TypeOK
  <2>6. ASSUME NEW w \in Worker, SettleCall(w) PROVE TypeOK'
    <3>1. PICK r \in Outcome(w) :
             /\ callState' = [callState EXCEPT ![w][task[w].stage] =
                                 SettledState(@, r)]
             /\ recorded' = IF r = "content"
                                 /\ callState[w][task[w].stage] = "RESERVED"
                              THEN [recorded EXCEPT ![w] = @ \cup {task[w].stage}]
                              ELSE recorded
             /\ \E t \in AfterSettle(w, r) : Becomes(w, t)
      BY <2>6 DEF SettleCall
    <3>2. task[w].stage \in Stage /\ task[w] \in Task
      BY DEF TypeOK, Task
    <3>3. callState' \in [Worker -> [Stage -> CallState]]
      BY <3>1, <3>2 DEF SettledState, TypeOK, CallState
    <3>4. recorded' \in [Worker -> SUBSET Stage]
      BY <3>1, <3>2 DEF TypeOK
    <3>5. AfterSettle(w, r) \subseteq Task
      <4>1. \A p \in Step, a \in Result : [At(w, p) EXCEPT !.answer = a] \in Task
        BY <3>2 DEF At, Task
      <4> QED BY <4>1, TaskTypes DEF AfterSettle, Step, Result
    <3>6. task' \in [Worker -> Task]
      BY <3>1, <3>5 DEF Becomes, TypeOK
    <3> QED BY <2>6, <3>3, <3>4, <3>6 DEF SettleCall, TypeOK
  <2>7. ASSUME NEW w \in Worker, StoreCandidates(w) PROVE TypeOK'
    <3> DEFINE t == [task[w] EXCEPT !.answer = None]
    <3>1. task[w] \in Task
      BY DEF TypeOK
    <3>2. t \in Task
      BY <3>1 DEF Task, Result
    <3>3. [t EXCEPT !.pc = "validate", !.ready = TRUE] \in Task
      BY <3>2 DEF Task, Step
    <3>4. task' \in [Worker -> Task]
      BY <2>7, <3>3, TaskTypes, ReplyType DEF StoreCandidates
    <3>5. task[w].answer \in Result
      BY <3>1 DEF Task
    <3> QED BY <2>7, <3>4, <3>5 DEF StoreCandidates, TypeOK, Open
  <2>8. ASSUME NEW w \in Worker, ValidateCandidates(w) PROVE TypeOK'
    <3> DEFINE t == [task[w] EXCEPT !.using = w]
    <3>1. t \in Task
      <4>1. task[w] \in Task
        BY DEF TypeOK
      <4> QED BY <4>1 DEF Task
    <3>2. [t EXCEPT !.pc = "commit"] \in Task /\ [t EXCEPT !.pc = "doubt"] \in Task
      BY <3>1 DEF Task, Step
    <3>3. task' \in [Worker -> Task]
      BY <2>8, <3>2, ReplyType DEF ValidateCandidates
    <3>4. report' \in [Job -> {None, "some", "none"}]
      BY <2>8 DEF ValidateCandidates, Verdicts, TypeOK
    <3> QED BY <2>8, <3>3, <3>4 DEF ValidateCandidates, TypeOK
  <2>9. \A w \in Worker, p \in Step :
           [At(w, p) EXCEPT !.stage = "probe"] \in Task
    BY TaskTypes DEF Task, Stage
  <2>10. ASSUME NEW w \in Worker, BeginProbe(w) PROVE TypeOK'
    <3>1. task' \in [Worker -> Task]
      BY <2>9, <2>10, ReplyType DEF BeginProbe, Step
    <3> QED BY <2>10, <3>1 DEF BeginProbe, TypeOK
  <2>11. ASSUME NEW w \in Worker, SkipProbe(w) PROVE TypeOK'
    <3>1. task' \in [Worker -> Task]
      BY <2>9, <2>11, ReplyType DEF SkipProbe, Step
    <3> QED BY <2>11, <3>1 DEF SkipProbe, TypeOK
  <2>12. ASSUME NEW w \in Worker, CommitExtraction(w) PROVE TypeOK'
    <3>1. task' \in [Worker -> Task]
      BY <2>12, TaskTypes, ReplyType DEF CommitExtraction
    <3>2. /\ published' \in [Job -> BOOLEAN]
          /\ state' \in [Job -> Open \cup Terminal \cup {"NONE"}]
      BY <2>12 DEF CommitExtraction, TypeOK, Terminal
    <3> QED BY <2>12, <3>1, <3>2 DEF CommitExtraction, TypeOK
  <2>13. ASSUME NEW w \in Worker, GiveUp(w) PROVE TypeOK'
    <3>1. task' \in [Worker -> Task]
      BY <2>13, TaskTypes, ReplyType DEF GiveUp
    <3> QED BY <2>13, <3>1 DEF GiveUp, TypeOK
  <2>14. ASSUME NEW w \in Worker, FinishJob(w) PROVE TypeOK'
    <3>1. task' \in [Worker -> Task]
      BY <2>14, TaskTypes, ReplyType DEF FinishJob
    <3>2. PICK label \in Labels(w) :
             /\ state' = [state EXCEPT ![job[w]] = FinalState(job[w], label)]
             /\ \/ owner' = [owner EXCEPT ![job[w]] = None]
                   /\ leaseLive' = [leaseLive EXCEPT ![job[w]] = FALSE]
                   /\ fence' = [fence EXCEPT ![job[w]] = @ + 1]
                \/ UNCHANGED <<owner, leaseLive, fence>>
      BY <2>14 DEF FinishJob
    <3>3. FinalState(job[w], label) \in Open \cup Terminal
      BY DEF FinalState, Labels, Open, Terminal
    <3>4. state' \in [Job -> Open \cup Terminal \cup {"NONE"}]
      BY <3>2, <3>3 DEF TypeOK
    <3>5. /\ owner' \in [Job -> Worker \cup {None}]
          /\ leaseLive' \in [Job -> BOOLEAN]
          /\ fence' \in [Job -> Nat]
      <4>1. /\ owner \in [Job -> Worker \cup {None}]
            /\ leaseLive \in [Job -> BOOLEAN]
            /\ fence \in [Job -> Nat]
        BY DEF TypeOK
      <4>2. CASE /\ owner' = [owner EXCEPT ![job[w]] = None]
                 /\ leaseLive' = [leaseLive EXCEPT ![job[w]] = FALSE]
                 /\ fence' = [fence EXCEPT ![job[w]] = @ + 1]
        <5>1. \A k : \A f \in [Job -> Nat] :
                 [f EXCEPT ![k] = @ + 1] \in [Job -> Nat]
          <6> SUFFICES ASSUME NEW k, NEW f \in [Job -> Nat]
                       PROVE  [f EXCEPT ![k] = @ + 1] \in [Job -> Nat]
            OBVIOUS
          <6>1. CASE k \in Job
            <7>1. f[k] + 1 \in Nat
              BY <6>1
            <7> QED BY <7>1
          <6>2. CASE k \notin Job
            <7>1. [f EXCEPT ![k] = @ + 1] = f
              BY <6>2
            <7> QED BY <7>1
          <6> QED BY <6>1, <6>2
        <5>2. fence' \in [Job -> Nat]
          BY <4>1, <4>2, <5>1
        <5>3. owner' \in [Job -> Worker \cup {None}]
          BY <4>1, <4>2
        <5>4. leaseLive' \in [Job -> BOOLEAN]
          BY <4>1, <4>2
        <5> QED BY <5>2, <5>3, <5>4
      <4>3. CASE UNCHANGED <<owner, leaseLive, fence>>
        BY <4>1, <4>3
      <4> QED BY <3>2, <4>2, <4>3
    <3> QED BY <2>14, <3>1, <3>4, <3>5 DEF FinishJob, TypeOK
  <2>15. ASSUME NEW w \in Worker, Stop(w) PROVE TypeOK'
    <3>1. task' \in [Worker -> Task]
      BY <2>15, TaskTypes, ReplyType DEF Stop
    <3> QED BY <2>15, <3>1 DEF Stop, TypeOK
  <2>16. ASSUME CancelOpenJobs
         PROVE  /\ state' \in [Job -> Open \cup Terminal \cup {"NONE"}]
                /\ fence' \in [Job -> Nat]
                /\ waiting' \in [Job -> BOOLEAN]
                /\ cancelled' \in BOOLEAN
    BY <2>16, StateTypes DEF CancelOpenJobs, TypeOK
  <2>17. ASSUME CancelQuery PROVE TypeOK'
    BY <2>16, <2>17 DEF CancelQuery, CancelOpenJobs, TypeOK, RunState
  <2>18. ASSUME CancelJobs PROVE TypeOK'
    <3>1. /\ owner' \in [Job -> Worker \cup {None}]
          /\ leaseLive' \in [Job -> BOOLEAN]
      BY <2>18 DEF CancelJobs, TypeOK
    <3> QED BY <2>16, <2>18, <3>1 DEF CancelJobs, CancelOpenJobs, TypeOK
  <2>19. ASSUME NEW j \in Job, RecoverJobLease(j) PROVE TypeOK'
    <3>1. callState' \in [Worker -> [Stage -> CallState]]
      BY <2>19, MarkUnknownType DEF RecoverJobLease
    <3>2. ClearLease(j)
      BY <2>19 DEF RecoverJobLease
    <3>3. /\ state' \in [Job -> Open \cup Terminal \cup {"NONE"}]
          /\ waiting' \in [Job -> BOOLEAN]
          /\ leaseInst' \in [Job -> Instance \cup {None}]
      BY <2>19, StateTypes DEF RecoverJobLease, TypeOK
    <3> QED BY <2>19, <3>1, <3>2, <3>3, ClearLeaseType DEF RecoverJobLease, TypeOK
  <2>20. ASSUME NEW j \in Job, TerminateJob(j) PROVE TypeOK'
    <3>1. callState' \in [Worker -> [Stage -> CallState]]
      BY <2>20, MarkUnknownType DEF TerminateJob
    <3>2. ClearLease(j)
      BY <2>20 DEF TerminateJob
    <3>3. /\ state' \in [Job -> Open \cup Terminal \cup {"NONE"}]
          /\ waiting' \in [Job -> BOOLEAN]
      BY <2>20, StateTypes DEF TerminateJob, TypeOK
    <3> QED BY <2>20, <3>1, <3>2, <3>3, ClearLeaseType DEF TerminateJob, TypeOK
  <2>21. ASSUME NEW j \in Job, FailRecovery(j) PROVE TypeOK'
    <3>1. ClearLease(j)
      BY <2>21 DEF FailRecovery
    <3>2. /\ state' \in [Job -> Open \cup Terminal \cup {"NONE"}]
          /\ waiting' \in [Job -> BOOLEAN]
          /\ leaseInst' \in [Job -> Instance \cup {None}]
      BY <2>21 DEF FailRecovery, TypeOK, Terminal
    <3> QED BY <2>21, <3>1, <3>2, ClearLeaseType DEF FailRecovery, TypeOK
  <2>22. ASSUME RecoverTerminalCalls PROVE TypeOK'
    <3>1. callState' \in [Worker -> [Stage -> CallState]]
      BY <2>22, MarkUnknownType DEF RecoverTerminalCalls
    <3> QED BY <2>22, <3>1 DEF RecoverTerminalCalls, TypeOK
  <2>23. ASSUME RecoverOwnedWork PROVE TypeOK'
    <3>1. callState' \in [Worker -> [Stage -> CallState]]
      BY <2>23, MarkUnknownType DEF RecoverOwnedWork
    <3>2. run' \in RunState
      BY <2>23 DEF RecoverOwnedWork, TypeOK, RunState
    <3> QED BY <2>23, <3>1, <3>2 DEF RecoverOwnedWork, TypeOK
  <2>24. ASSUME NEW w \in Worker, NEW s \in Stage, ReconcileCall(w, s)
         PROVE  TypeOK'
    BY <2>24 DEF ReconcileCall, TypeOK, CallState
  <2>25. ASSUME NEW i \in Instance, StopInstance(i) PROVE TypeOK'
    BY <2>25 DEF StopInstance, TypeOK
  <2>26. ASSUME NEW j \in Job, ExpireLease(j) PROVE TypeOK'
    BY <2>26 DEF ExpireLease, TypeOK
  <2>27. CASE PassDeadline
    BY <2>27 DEF PassDeadline, TypeOK
  <2>28. CASE LoseScope
    BY <2>28 DEF LoseScope, TypeOK
  <2>29. CASE Upgrade
    BY <2>29 DEF Upgrade, TypeOK
  <2>30. CASE UNCHANGED vars
    BY <2>30 DEF vars, TypeOK
  <2>31. ASSUME NEW w \in Worker, WorkerStep(w) PROVE TypeOK'
    BY <2>3, <2>4, <2>5, <2>6, <2>7, <2>8, <2>10, <2>11, <2>12, <2>13,
       <2>14, <2>15, <2>31 DEF WorkerStep
  <2>32. CASE Sweep
    BY <2>19, <2>20, <2>21, <2>22, <2>23, <2>32 DEF Sweep
  <2> QED BY <2>1, <2>2, <2>17, <2>18, <2>24, <2>25, <2>26, <2>27, <2>28,
             <2>29, <2>30, <2>31, <2>32 DEF Next
<1> QED BY <1>1, <1>2, PTL DEF Spec
-----------------------------------------------------------------------------
(* Fencing *)

Claims == \E w \in Worker, j \in Job, i \in Instance : ClaimJob(w, j, i)

\* What a step may do to the memory of a worker other than giving it a job.
Continues(w) ==
    /\ Pc(w) \notin {"idle", "done"}
    /\ \/ task'[w] = Done
       \/ /\ task'[w].token = task[w].token
          /\ task'[w].pc \notin {"idle", "extract"}
          /\ task'[w].pc = "commit" => ValidateCandidates(w)
          /\ task'[w].pc = "probe" => BeginProbe(w)

Keeps == \A w \in Worker : task'[w] = task[w] \/ Continues(w)

\* What a step that is no claim may do to the leases.
Fences ==
    \A j \in Job : /\ owner'[j] \in {owner[j], None}
                   /\ fence'[j] \in {fence[j], fence[j] + 1}

LEMMA Fields ==
    ASSUME TypeOK, NEW w \in Worker
    PROVE  /\ task[w] \in Task
           /\ \A p \in Step : At(w, p).pc = p /\ At(w, p).token = task[w].token
           /\ Failing(w).pc = "finish" /\ Failing(w).token = task[w].token
           /\ Done.pc = "done" /\ Done.token = 0
<1>1. task[w] \in Task
  BY DEF TypeOK
<1>2. \A p \in Step : At(w, p).pc = p /\ At(w, p).token = task[w].token
  BY <1>1 DEF At, Task
<1> QED BY <1>1, <1>2 DEF Failing, Done, Nothing

\* One worker that has a job goes on, gives up or stops; the others wait.
LEMMA BecomesKeeps ==
    ASSUME TypeOK, NEW w \in Worker, Pc(w) \notin {"idle", "done"},
           NEW t, t.token = task[w].token,
           t.pc \notin {"idle", "extract"},
           t.pc = "commit" => ValidateCandidates(w),
           t.pc = "probe" => BeginProbe(w),
           Becomes(w, t) \/ Reply(w, t)
    PROVE  Keeps
<1>1. Failing(w).token = task[w].token /\ Failing(w).pc \notin {"idle", "extract", "probe", "commit"}
  BY Fields
<1>2. /\ task'[w] = t \/ task'[w] = Failing(w)
      /\ \A v \in Worker : v # w => task'[v] = task[v]
  BY DEF Becomes, Reply, TypeOK
<1> QED BY <1>1, <1>2 DEF Keeps, Continues

LEMMA DoneKeeps ==
    ASSUME TypeOK, NEW w \in Worker, Pc(w) \notin {"idle", "done"},
           Becomes(w, Done) \/ Reply(w, Done)
    PROVE  Keeps
<1>1. Failing(w).token = task[w].token /\ Failing(w).pc \notin {"idle", "extract", "probe", "commit"}
  BY Fields
<1>2. /\ task'[w] = Done \/ task'[w] = Failing(w)
      /\ \A v \in Worker : v # w => task'[v] = task[v]
  BY DEF Becomes, Reply, TypeOK
<1> QED BY <1>1, <1>2 DEF Keeps, Continues

LEMMA StillKeeps == task' = task => Keeps
BY DEF Keeps

\* A worker's own step continues from the token it was given.
LEMMA WorkerKeeps ==
    ASSUME TypeOK, NEW w \in Worker, WorkerStep(w), ~ Claims
    PROVE  Keeps
<1> USE DEF Pc
<1>0. task[w] \in Task
  BY Fields
<1>1. ASSUME NEW i \in Instance, ReserveCall(w, i) PROVE Keeps
  <2>1. Pc(w) \notin {"idle", "done"} /\ Reply(w, At(w, "admitted"))
    BY <1>1 DEF ReserveCall
  <2>2. At(w, "admitted").token = task[w].token /\ At(w, "admitted").pc \notin {"idle", "extract", "probe", "commit"}
    BY Fields DEF Step
  <2> QED BY <2>1, <2>2, BecomesKeeps
<1>2. CASE Dispatch(w)
  <2>1. Pc(w) \notin {"idle", "done"} /\ Becomes(w, At(w, "sent"))
    BY <1>2 DEF Dispatch
  <2>2. At(w, "sent").token = task[w].token /\ At(w, "sent").pc \notin {"idle", "extract", "probe", "commit"}
    BY Fields DEF Step
  <2> QED BY <2>1, <2>2, BecomesKeeps
<1>3. CASE SettleCall(w)
  <2>1. PICK r \in Outcome(w) : \E t \in AfterSettle(w, r) : Becomes(w, t)
    BY <1>3 DEF SettleCall
  <2>2. PICK t \in AfterSettle(w, r) : Becomes(w, t)
    BY <2>1
  <2>3. Pc(w) \notin {"idle", "done"}
    BY DEF Outcome
  <2>4. \A p \in Step \ {"idle", "extract", "probe", "commit"}, a \in Result :
           /\ [At(w, p) EXCEPT !.answer = a].token = task[w].token
           /\ [At(w, p) EXCEPT !.answer = a].pc \notin {"idle", "extract", "probe", "commit"}
    BY <1>0 DEF At, Task
  <2>5. \A p \in Step \ {"idle", "extract", "probe", "commit"} : At(w, p).token = task[w].token /\ At(w, p).pc \notin {"idle", "extract", "probe", "commit"}
    BY Fields
  <2>6. \/ t = Failing(w) \/ t = At(w, "validate")
        \/ \E p \in Step \ {"idle", "extract", "probe", "commit"}, a \in Result : t = [At(w, p) EXCEPT !.answer = a]
    <3>1. \A p \in {"store", "store_failure"} : p \in Step \ {"idle", "extract", "probe", "commit"}
      BY DEF Step
    <3>2. "content" \in Result /\ "failed" \in Result
      BY DEF Result
    <3> QED BY <2>2, <3>1, <3>2 DEF AfterSettle
  <2>7. "validate" \in Step \ {"idle", "extract", "probe", "commit"}
    BY DEF Step
  <2>8. t.token = task[w].token /\ t.pc \notin {"idle", "extract", "probe", "commit"}
    <3>1. CASE t = Failing(w)
      BY <3>1, Fields
    <3>2. CASE t = At(w, "validate")
      BY <3>2, <2>5, <2>7
    <3>3. ASSUME NEW p \in Step \ {"idle", "extract", "probe", "commit"}, NEW a \in Result,
                 t = [At(w, p) EXCEPT !.answer = a]
          PROVE  t.token = task[w].token /\ t.pc \notin {"idle", "extract", "probe", "commit"}
      BY <2>4, <3>3, Zenon
    <3> QED BY <2>6, <3>1, <3>2, <3>3
  <2> QED BY <2>2, <2>3, <2>8, BecomesKeeps
<1>4. CASE StoreCandidates(w)
  <2> DEFINE t == [task[w] EXCEPT !.answer = None]
             u == [t EXCEPT !.pc = "validate", !.ready = TRUE]
  <2>1. Pc(w) \notin {"idle", "done"}
    BY <1>4 DEF StoreCandidates
  <2>2. CASE Reply(w, u)
    <3>1. u.token = task[w].token /\ u.pc \notin {"idle", "extract", "probe", "commit"}
      BY <1>0 DEF Task
    <3> HIDE DEF u
    <3> QED BY <2>1, <2>2, <3>1, BecomesKeeps
  <2>3. CASE \E b \in BOOLEAN : Becomes(w, [Failing(w) EXCEPT !.ready = b])
    <3>1. PICK b \in BOOLEAN : Becomes(w, [Failing(w) EXCEPT !.ready = b])
      BY <2>3
    <3>2. /\ [Failing(w) EXCEPT !.ready = b].token = task[w].token
          /\ [Failing(w) EXCEPT !.ready = b].pc \notin {"idle", "extract", "probe", "commit"}
      BY DEF Failing, Nothing
    <3> QED BY <2>1, <3>1, <3>2, BecomesKeeps
  <2> QED BY <1>4, <2>2, <2>3 DEF StoreCandidates
<1>5. CASE ValidateCandidates(w)
  <2> DEFINE t(p) == [[task[w] EXCEPT !.using = w] EXCEPT !.pc = p]
  <2>1. Pc(w) \notin {"idle", "done"}
    BY <1>5 DEF ValidateCandidates
  <2>2. \A p : t(p).token = task[w].token /\ t(p).pc = p
    BY <1>0 DEF Task
  <2>3. Reply(w, t("commit")) \/ Reply(w, t("doubt"))
    BY <1>5 DEF ValidateCandidates
  <2> HIDE DEF t
  <2> QED BY <1>5, <2>1, <2>2, <2>3, BecomesKeeps
<1>6. \A p \in Step : /\ [At(w, p) EXCEPT !.stage = "probe"].token = task[w].token
                      /\ [At(w, p) EXCEPT !.stage = "probe"].pc = p
  BY <1>0 DEF At, Task
<1>7. CASE BeginProbe(w)
  <2>1. Pc(w) \notin {"idle", "done"} /\ Reply(w, [At(w, "probe") EXCEPT !.stage = "probe"])
    BY <1>7 DEF BeginProbe
  <2>2. "probe" \in Step
    BY DEF Step
  <2> QED BY <1>6, <1>7, <2>1, <2>2, BecomesKeeps
<1>8. CASE SkipProbe(w)
  <2>1. Pc(w) \notin {"idle", "done"} /\ Becomes(w, [At(w, "validate") EXCEPT !.stage = "probe"])
    BY <1>8 DEF SkipProbe
  <2>2. "validate" \in Step
    BY DEF Step
  <2> QED BY <1>6, <2>1, <2>2, BecomesKeeps
<1>9. CASE CommitExtraction(w)
  <2>1. Pc(w) \notin {"idle", "done"} /\ Reply(w, Done)
    BY <1>9 DEF CommitExtraction
  <2> QED BY <2>1, DoneKeeps
<1>10. CASE GiveUp(w)
  <2>1. Pc(w) \notin {"idle", "done"} /\ Becomes(w, Failing(w))
    BY <1>10 DEF GiveUp
  <2>2. Failing(w).token = task[w].token /\ Failing(w).pc \notin {"idle", "extract", "probe", "commit"}
    BY Fields
  <2> QED BY <2>1, <2>2, BecomesKeeps
<1>11. CASE FinishJob(w)
  <2>1. Pc(w) \notin {"idle", "done"} /\ Becomes(w, Done)
    BY <1>11 DEF FinishJob
  <2> QED BY <2>1, DoneKeeps
<1>12. CASE Stop(w)
  <2>1. Pc(w) \notin {"idle", "done"} /\ Becomes(w, Done)
    BY <1>12 DEF Stop
  <2> QED BY <2>1, DoneKeeps
<1> QED
  BY <1>1, <1>2, <1>3, <1>4, <1>5, <1>7, <1>8, <1>9, <1>10, <1>11, <1>12
     DEF WorkerStep, Claims

\* A step that is no claim gives nobody a job, lets workers continue with the
\* tokens they have, and only takes leases away.
LEMMA NoClaim ==
    ASSUME TypeOK, [Next]_vars, ~ Claims
    PROVE  Keeps /\ Fences /\ job' = job
<1> USE DEF runRow, world, lease, jobRow, batch, calls, work
<1>1. ASSUME NEW w \in Worker, WorkerStep(w) PROVE Keeps /\ Fences /\ job' = job
  <2>1. Keeps
    BY <1>1, WorkerKeeps
  <2>2. job' = job
    BY <1>1 DEF WorkerStep, Claims, ReserveCall, Dispatch, SettleCall,
         StoreCandidates, ValidateCandidates, BeginProbe, SkipProbe,
         CommitExtraction, GiveUp, FinishJob, Stop
  <2>3. CASE FinishJob(w)
    <3>1. \/ UNCHANGED <<owner, fence>>
          \/ /\ owner' = [owner EXCEPT ![job[w]] = None]
             /\ fence' = [fence EXCEPT ![job[w]] = @ + 1]
      BY <2>3 DEF FinishJob
    <3>2. Fences
      BY <3>1 DEF Fences, TypeOK
    <3> QED BY <2>1, <2>2, <3>2
  <2>4. CASE ~ FinishJob(w)
    <3>1. owner' = owner /\ fence' = fence
      BY <1>1, <2>4 DEF WorkerStep, Claims, ReserveCall, Dispatch, SettleCall,
           StoreCandidates, ValidateCandidates, BeginProbe, SkipProbe,
           CommitExtraction, GiveUp, Stop
    <3> QED BY <2>1, <2>2, <3>1 DEF Fences
  <2> QED BY <2>3, <2>4
<1>2. ASSUME NEW j \in Job, ClearLease(j) PROVE Fences
  BY <1>2 DEF ClearLease, Fences, TypeOK
<1>3. CASE Sweep
  <2>1. task' = task /\ job' = job
    BY <1>3 DEF Sweep, RecoverJobLease, TerminateJob, FailRecovery,
         RecoverTerminalCalls, RecoverOwnedWork
  <2>2. (\E j \in Job : ClearLease(j)) \/ (owner' = owner /\ fence' = fence)
    BY <1>3 DEF Sweep, RecoverJobLease, TerminateJob, FailRecovery,
         RecoverTerminalCalls, RecoverOwnedWork
  <2>3. owner' = owner /\ fence' = fence => Fences
    BY DEF Fences
  <2> QED BY <1>2, <2>1, <2>2, <2>3, StillKeeps
<1>4. CASE CancelQuery \/ CancelJobs
  <2>1. task' = task /\ job' = job
    BY <1>4 DEF CancelQuery, CancelJobs, CancelOpenJobs
  <2>2. \/ owner' = owner
        \/ owner' = [j \in Job |-> IF IsOpen(j) THEN None ELSE owner[j]]
    BY <1>4 DEF CancelQuery, CancelJobs
  <2>3. fence' = [j \in Job |-> IF IsOpen(j) THEN fence[j] + 1 ELSE fence[j]]
    BY <1>4 DEF CancelQuery, CancelJobs, CancelOpenJobs
  <2> QED BY <2>1, <2>2, <2>3, StillKeeps DEF Fences
<1>5. CASE \/ \E j \in Job : CreateJob(j)
           \/ \E s \in {"COMPLETED", "FAILED"} : EndRun(s)
           \/ \E w \in Worker, s \in Stage : ReconcileCall(w, s)
           \/ \E i \in Instance : StopInstance(i)
           \/ \E j \in Job : ExpireLease(j)
           \/ PassDeadline \/ LoseScope \/ Upgrade
           \/ UNCHANGED vars
  <2>1. task' = task /\ job' = job /\ owner' = owner /\ fence' = fence
    BY <1>5 DEF CreateJob, EndRun, ReconcileCall, StopInstance, ExpireLease,
         PassDeadline, LoseScope, Upgrade, vars
  <2> QED BY <2>1, StillKeeps DEF Fences
<1> QED BY <1>1, <1>3, <1>4, <1>5 DEF Next

\* A claim gives one idle worker one job, with a token nobody had before.
LEMMA AClaim ==
    ASSUME TypeOK, NEW w \in Worker, NEW j \in Job, NEW i \in Instance,
           ClaimJob(w, j, i)
    PROVE  /\ Pc(w) = "idle" /\ task'[w].pc \notin {"idle", "probe"}
           /\ task'[w].token \in {0, fence[j] + 1}
           /\ task'[w].pc = "done" \/ task'[w].token # 0
           /\ task'[w].stage = "extraction"
           /\ \A v \in Worker : v # w => task'[v] = task[v] /\ job'[v] = job[v]
           /\ job'[w] = j
           /\ owner' = [owner EXCEPT ![j] = w]
           /\ fence' = [fence EXCEPT ![j] = @ + 1]
<1>1. ASSUME NEW p \in FirstSteps(j),
             Becomes(w, [pc |-> p, token |-> fence[j] + 1, ready |-> HasCandidates(j),
              answer |-> IF p = "store" THEN "content" ELSE None,
              using |-> reportBy[j], stage |-> "extraction"])
      PROVE  /\ task'[w].pc \notin {"idle", "probe"} /\ task'[w].token = fence[j] + 1
             /\ task'[w].stage = "extraction"
             /\ \A v \in Worker : v # w => task'[v] = task[v]
  BY <1>1 DEF Becomes, TypeOK, FirstSteps
<1>2. ASSUME Becomes(w, Done)
      PROVE  /\ task'[w].pc = "done" /\ task'[w].token = 0
             /\ task'[w].stage = "extraction"
             /\ \A v \in Worker : v # w => task'[v] = task[v]
  BY <1>2, Fields DEF Becomes, TypeOK, Done, Nothing
<1>0. fence[j] \in Nat
  BY DEF TypeOK
<1>3. /\ task'[w].pc \notin {"idle", "probe"}
      /\ task'[w].token \in {0, fence[j] + 1}
      /\ task'[w].pc = "done" \/ task'[w].token # 0
      /\ task'[w].stage = "extraction"
      /\ \A v \in Worker : v # w => task'[v] = task[v]
  <2>1. CASE Becomes(w, Done)
    BY <1>2, <2>1
  <2>2. CASE ~ Becomes(w, Done)
    <3>1. PICK p \in FirstSteps(j) :
            Becomes(w, [pc |-> p, token |-> fence[j] + 1, ready |-> HasCandidates(j),
              answer |-> IF p = "store" THEN "content" ELSE None,
              using |-> reportBy[j], stage |-> "extraction"])
      BY <2>2 DEF ClaimJob
    <3>2. fence[j] + 1 # 0
      BY <1>0
    <3> QED BY <1>1, <3>1, <3>2
  <2> QED BY <2>1, <2>2
<1> QED BY <1>3 DEF ClaimJob, TypeOK

\* An idle worker holds nothing, and no token is ahead of its job's fence.
Tokens ==
    \A w \in Worker :
        /\ Pc(w) = "idle" => job[w] = None /\ task[w].token = 0
        /\ Pc(w) # "idle" => job[w] \in Job /\ task[w].token <= fence[job[w]]
        /\ Pc(w) \notin {"idle", "done"} => task[w].token # 0

LEMMA TokensInit == Init => Tokens
BY DEF Init, Tokens, Pc, Nothing

LEMMA TokensStep ==
    ASSUME TypeOK, Tokens, [Next]_vars
    PROVE  Tokens'
<1>1. ASSUME NEW w \in Worker
      PROVE  /\ task[w].token \in Nat
             /\ job[w] \in Job => fence[job[w]] \in Nat
  BY Fields DEF TypeOK, Task
<1>2. CASE ~ Claims
  <2>1. Keeps /\ Fences /\ job' = job
    BY <1>2, NoClaim
  <2>2. ASSUME NEW w \in Worker
        PROVE  /\ Pc(w)' = "idle" => job'[w] = None /\ task'[w].token = 0
               /\ Pc(w)' # "idle" =>
                    job'[w] \in Job /\ task'[w].token <= fence'[job'[w]]
               /\ Pc(w)' \notin {"idle", "done"} => task'[w].token # 0
    <3>1. \/ task'[w] = Done /\ task[w].pc # "idle"
          \/ task'[w] = task[w]
          \/ /\ task'[w].token = task[w].token /\ task'[w].pc # "idle"
             /\ task[w].pc \notin {"idle", "done"}
      BY <2>1 DEF Keeps, Continues, Pc
    <3>2. job[w] \in Job => fence'[job[w]] \in {fence[job[w]], fence[job[w]] + 1}
      BY <2>1 DEF Fences
    <3>3. /\ task[w].pc = "idle" => job[w] = None /\ task[w].token = 0
          /\ task[w].pc # "idle" => job[w] \in Job /\ task[w].token <= fence[job[w]]
          /\ task[w].pc \notin {"idle", "done"} => task[w].token # 0
      BY DEF Tokens, Pc
    <3> QED BY <1>1, <2>1, <3>1, <3>2, <3>3, Fields DEF Pc
  <2> QED BY <2>2 DEF Tokens
<1>3. CASE Claims
  <2>1. PICK w \in Worker, j \in Job, i \in Instance : ClaimJob(w, j, i)
    BY <1>3 DEF Claims
  <2>2. /\ task'[w].pc # "idle" /\ task'[w].token \in {0, fence[j] + 1}
        /\ task'[w].pc = "done" \/ task'[w].token # 0
        /\ \A v \in Worker : v # w => task'[v] = task[v] /\ job'[v] = job[v]
        /\ job'[w] = j /\ fence' = [fence EXCEPT ![j] = @ + 1]
    BY <2>1, AClaim
  <2>3. \A k \in Job : fence'[k] \in {fence[k], fence[k] + 1} /\ fence'[j] = fence[j] + 1
    BY <2>2 DEF TypeOK
  <2>4. fence[j] \in Nat
    BY DEF TypeOK
  <2>5. /\ Pc(w)' = "idle" => job'[w] = None /\ task'[w].token = 0
        /\ Pc(w)' # "idle" =>
             job'[w] \in Job /\ task'[w].token <= fence'[job'[w]]
        /\ Pc(w)' \notin {"idle", "done"} => task'[w].token # 0
    BY <2>2, <2>3, <2>4 DEF Pc
  <2>6. ASSUME NEW v \in Worker, v # w
        PROVE  /\ Pc(v)' = "idle" => job'[v] = None /\ task'[v].token = 0
               /\ Pc(v)' # "idle" =>
                    job'[v] \in Job /\ task'[v].token <= fence'[job'[v]]
               /\ Pc(v)' \notin {"idle", "done"} => task'[v].token # 0
    <3>1. /\ task[v].pc = "idle" => job[v] = None /\ task[v].token = 0
          /\ task[v].pc # "idle" => job[v] \in Job /\ task[v].token <= fence[job[v]]
          /\ task[v].pc \notin {"idle", "done"} => task[v].token # 0
      BY DEF Tokens, Pc
    <3>2. task'[v] = task[v] /\ job'[v] = job[v]
      BY <2>2, <2>6
    <3>3. job[v] \in Job => fence'[job[v]] \in {fence[job[v]], fence[job[v]] + 1}
      BY <2>3
    <3> QED BY <1>1, <3>1, <3>2, <3>3 DEF Pc
  <2> QED BY <2>5, <2>6 DEF Tokens
<1> QED BY <1>2, <1>3

\* Who has lost a job never holds it again.
LEMMA LostForGood ==
    ASSUME TypeOK, Tokens, [Next]_vars, NEW w \in Worker, Superseded(w)
    PROVE  /\ Superseded(w)' \/ Pc(w)' = "done"
           /\ job'[w] = job[w] /\ job[w] \in Job
<1>1. /\ task[w].token \in Nat /\ task[w].token # 0 /\ task[w].pc # "idle"
      /\ job[w] \in Job /\ task[w].token <= fence[job[w]] /\ fence[job[w]] \in Nat
  BY Fields DEF Superseded, Tokens, Pc, TypeOK, Task
<1>2. owner[job[w]] # w \/ task[w].token < fence[job[w]]
  BY <1>1 DEF Superseded, Holds
<1>3. CASE ~ Claims
  <2>1. Keeps /\ Fences /\ job' = job
    BY <1>3, NoClaim
  <2>2. /\ owner'[job[w]] \in {owner[job[w]], None}
        /\ fence'[job[w]] \in {fence[job[w]], fence[job[w]] + 1}
    BY <1>1, <2>1 DEF Fences
  <2>3. w # None
    BY JobAssumption
  <2>4. owner'[job[w]] # w \/ task[w].token # fence'[job[w]]
    BY <1>1, <1>2, <2>2, <2>3
  <2>5. task'[w] = Done \/ task'[w].token = task[w].token
    BY <2>1 DEF Keeps, Continues
  <2>6. CASE task'[w] = Done
    BY <1>1, <2>1, <2>6, Fields DEF Pc
  <2>7. CASE task'[w].token = task[w].token
    BY <1>1, <2>1, <2>4, <2>7 DEF Superseded, Holds
  <2> QED BY <2>5, <2>6, <2>7
<1>4. CASE Claims
  <2>1. PICK v \in Worker, j \in Job, i \in Instance : ClaimJob(v, j, i)
    BY <1>4 DEF Claims
  <2>2. /\ Pc(v) = "idle"
        /\ \A u \in Worker : u # v => task'[u] = task[u] /\ job'[u] = job[u]
        /\ owner' = [owner EXCEPT ![j] = v]
        /\ fence' = [fence EXCEPT ![j] = @ + 1]
    BY <2>1, AClaim
  <2>3. v # w /\ task'[w] = task[w] /\ job'[w] = job[w]
    BY <1>1, <2>2 DEF Pc
  <2>4. /\ owner'[job[w]] \in {owner[job[w]], v}
        /\ fence'[job[w]] \in {fence[job[w]], fence[job[w]] + 1}
    BY <1>1, <2>2 DEF TypeOK
  <2>5. owner'[job[w]] # w \/ task[w].token # fence'[job[w]]
    BY <1>1, <1>2, <2>3, <2>4
  <2> QED BY <1>1, <2>3, <2>5 DEF Superseded, Holds
<1> QED BY <1>3, <1>4

\* Only a worker that holds its job reserves a call or reports.
LEMMA OnlyHolders ==
    ASSUME TypeOK, [Next]_vars, NEW w \in Worker
    PROVE  /\ \A s \in Stage :
                 /\ callState[w][s] = "NONE" /\ callState'[w][s] # "NONE" => Holds(w)
                 /\ /\ callState'[w][s] \in {"RESERVED", "UNKNOWN"}
                    /\ callState[w][s] \notin {"RESERVED", "UNKNOWN"}
                    => Holds(w) /\ state[job[w]] \notin {"SKIPPED", "FAILED"}
           /\ \A j \in Job : reportBy'[j] = w /\ reportBy[j] # w => Holds(w)
<1> USE DEF runRow, world, lease, jobRow, batch, calls, work
<1> DEFINE Kept == callState' = callState
           Swept == \E S : MarkUnknown(S)
           Reported == reportBy' = reportBy
<1>0. /\ Kept \/ Swept => \A s \in Stage :
                /\ callState[w][s] = "NONE" => callState'[w][s] = "NONE"
                /\ callState'[w][s] \in {"RESERVED", "UNKNOWN"} =>
                      callState[w][s] \in {"RESERVED", "UNKNOWN"}
      /\ Reported => \A j \in Job : reportBy'[j] = w => reportBy[j] = w
  <2>1. ASSUME NEW S, MarkUnknown(S), NEW s \in Stage
        PROVE  \/ callState'[w][s] = callState[w][s]
               \/ callState[w][s] = "RESERVED" /\ callState'[w][s] = "UNKNOWN"
    BY <2>1 DEF MarkUnknown
  <2>2. CASE Kept
    BY <2>2
  <2>3. CASE Swept
    BY <2>1, <2>3
  <2> QED BY <2>2, <2>3
<1>1. ASSUME NEW v \in Worker, NEW i \in Instance, ReserveCall(v, i)
      PROVE  /\ Reported
             /\ Holds(v) /\ state[job[v]] \notin {"SKIPPED", "FAILED"}
             /\ v # w => \A s \in Stage : callState'[w][s] = callState[w][s]
  BY <1>1 DEF ReserveCall, ValidateJob, TypeOK
<1>2. ASSUME NEW v \in Worker, SettleCall(v)
      PROVE  /\ Reported
             /\ \A s \in Stage :
                /\ callState[w][s] = "NONE" => callState'[w][s] = "NONE"
                /\ callState'[w][s] \in {"RESERVED", "UNKNOWN"} =>
                      callState[w][s] \in {"RESERVED", "UNKNOWN"}
  <2>1. PICK r \in Outcome(v) :
          callState' = [callState EXCEPT ![v][task[v].stage] = SettledState(@, r)]
    BY <1>2 DEF SettleCall
  <2>2. Reported
    BY <1>2 DEF SettleCall
  <2>3. \A x \in CallState :
           /\ x = "NONE" => SettledState(x, r) = "NONE"
           /\ SettledState(x, r) \in {"RESERVED", "UNKNOWN"} => x \in {"RESERVED", "UNKNOWN"}
    BY DEF SettledState, CallState
  <2>4. \A s \in Stage : callState[w][s] \in CallState /\ callState[v] \in [Stage -> CallState]
    BY DEF TypeOK
  <2>5. \A s \in Stage : callState'[w][s] \in {callState[w][s], SettledState(callState[w][s], r)}
    BY <2>1, <2>4 DEF TypeOK
  <2> QED BY <2>2, <2>3, <2>4, <2>5
<1>3. ASSUME NEW v \in Worker, ValidateCandidates(v)
      PROVE  /\ Kept /\ Holds(v)
             /\ v # w => \A j \in Job : reportBy'[j] = w => reportBy[j] = w
  BY <1>3 DEF ValidateCandidates, JobTransaction, ValidateJob, TypeOK
<1>4. ASSUME NEW v \in Worker,
             \/ Dispatch(v) \/ StoreCandidates(v) \/ BeginProbe(v) \/ SkipProbe(v)
             \/ CommitExtraction(v) \/ GiveUp(v) \/ FinishJob(v) \/ Stop(v)
             \/ \E j \in Job, i \in Instance : ClaimJob(v, j, i)
      PROVE  Kept /\ Reported
  BY <1>4 DEF Dispatch, StoreCandidates, BeginProbe, SkipProbe, CommitExtraction,
       GiveUp, FinishJob, Stop, ClaimJob
<1>5. CASE Sweep
  <2>1. Kept \/ Swept
    BY <1>5 DEF Sweep, RecoverJobLease, TerminateJob, FailRecovery,
         RecoverTerminalCalls, RecoverOwnedWork
  <2>2. Reported
    BY <1>5 DEF Sweep, RecoverJobLease, TerminateJob, FailRecovery,
         RecoverTerminalCalls, RecoverOwnedWork
  <2> HIDE DEF Kept, Swept, Reported
  <2> QED BY <1>0, <2>1, <2>2
<1>6. ASSUME NEW v \in Worker, NEW s \in Stage, ReconcileCall(v, s)
      PROVE  /\ Reported
             /\ \A t \in Stage : callState'[w][t] # callState[w][t] =>
                    callState[w][t] = "UNKNOWN" /\ callState'[w][t] = "SETTLED"
  BY <1>6 DEF ReconcileCall, TypeOK
<1>7. CASE \/ \E j \in Job : CreateJob(j)
           \/ \E s \in {"COMPLETED", "FAILED"} : EndRun(s)
           \/ CancelQuery \/ CancelJobs
           \/ \E i \in Instance : StopInstance(i)
           \/ \E j \in Job : ExpireLease(j)
           \/ PassDeadline \/ LoseScope \/ Upgrade
           \/ UNCHANGED vars
  <2>1. Kept /\ Reported
    BY <1>7 DEF CreateJob, EndRun, CancelQuery, CancelJobs, CancelOpenJobs,
         StopInstance, ExpireLease, PassDeadline, LoseScope, Upgrade, vars
  <2> HIDE DEF Kept, Swept, Reported
  <2> QED BY <1>0, <2>1
<1> HIDE DEF Kept, Swept, Reported
<1>8. CASE \E v \in Worker : WorkerStep(v)
  <2>1. PICK v \in Worker : WorkerStep(v)
    BY <1>8
  <2>2. CASE \E i \in Instance : ReserveCall(v, i)
    BY <1>0, <1>1, <2>2
  <2>3. CASE SettleCall(v)
    BY <1>0, <1>2, <2>3
  <2>4. CASE ValidateCandidates(v)
    BY <1>0, <1>3, <2>4
  <2>5. CASE ~ ((\E i \in Instance : ReserveCall(v, i)) \/ SettleCall(v) \/ ValidateCandidates(v))
    <3>1. Kept /\ Reported
      BY <1>4, <2>1, <2>5 DEF WorkerStep
    <3> QED BY <1>0, <3>1
  <2> QED BY <2>2, <2>3, <2>4, <2>5
<1>9. CASE \E v \in Worker, s \in Stage : ReconcileCall(v, s)
  BY <1>0, <1>6, <1>9
<1> QED BY <1>5, <1>7, <1>8, <1>9 DEF Next

\* A worker that has lost its job stays out of it: the fence has moved past
\* its token, or the lease names somebody else, and neither ever comes back.
THEOREM StaysOut == Spec => SupersededStaysOut
<1>1. Init => Tokens
  BY TokensInit
<1>2. TypeOK /\ Tokens /\ [Next]_vars => Tokens'
  BY TokensStep
<1>3. TypeOK /\ Tokens /\ [Next]_vars =>
        [\A w \in Worker : Superseded(w) =>
          /\ Superseded(w)' \/ Pc(w)' = "done"
          /\ CallsOf(job[w])' \cap ({w} \X Stage) \subseteq CallsOf(job[w])
          /\ reportBy'[job[w]] = w => reportBy[job[w]] = w]_vars
  <2> SUFFICES ASSUME TypeOK, Tokens, [Next]_vars, NEW w \in Worker, Superseded(w)
               PROVE  /\ Superseded(w)' \/ Pc(w)' = "done"
                      /\ CallsOf(job[w])' \cap ({w} \X Stage) \subseteq CallsOf(job[w])
                      /\ reportBy'[job[w]] = w => reportBy[job[w]] = w
    OBVIOUS
  <2>1. /\ Superseded(w)' \/ Pc(w)' = "done"
        /\ job'[w] = job[w] /\ job[w] \in Job
    BY LostForGood
  <2>2. ~ Holds(w)
    BY DEF Superseded
  <2>3. /\ \A s \in Stage : callState'[w][s] # "NONE" => callState[w][s] # "NONE"
        /\ \A j \in Job : reportBy'[j] = w => reportBy[j] = w
    BY <2>2, OnlyHolders
  <2>4. \A c \in CallsOf(job[w])' \cap ({w} \X Stage) : c \in CallsOf(job[w])
    BY <2>1, <2>3 DEF CallsOf
  <2> QED BY <2>1, <2>3, <2>4
<1> QED BY <1>1, <1>2, <1>3, TypeCorrect, PTL DEF Spec, SupersededStaysOut

-----------------------------------------------------------------------------
(* Open calls *)

\* NoOpenCallInherited, for jobs that have ended as well.
SoleHolder ==
    \A w, v \in Worker, s \in Stage :
        /\ job[w] \in Job /\ owner[job[w]] = w
        /\ v # w /\ job[v] = job[w]
        => callState[v][s] \notin {"RESERVED", "UNKNOWN"}

LEMMA OpenIsUnresolved ==
    ASSUME NEW v \in Worker, NEW s \in Stage,
           callState[v][s] \in {"RESERVED", "UNKNOWN"}
    PROVE  Unresolved(job[v])
<1>1. <<v, s>> \in CallsOf(job[v])
  BY DEF CallsOf
<1> QED BY <1>1 DEF Unresolved

LEMMA SoleHolderStep ==
    ASSUME TypeOK, SoleHolder, [Next]_vars
    PROVE  SoleHolder'
<1> SUFFICES ASSUME NEW w \in Worker, NEW v \in Worker, NEW s \in Stage,
                    job'[w] \in Job, owner'[job'[w]] = w, v # w, job'[v] = job'[w],
                    callState'[v][s] \in {"RESERVED", "UNKNOWN"}
             PROVE  FALSE
  BY DEF SoleHolder
<1>1. w # None /\ v # None
  BY JobAssumption
<1>2. CASE ~ Claims
  <2>1. Fences /\ job' = job
    BY <1>2, NoClaim
  <2>2. job[w] \in Job /\ owner[job[w]] = w /\ job[v] = job[w]
    BY <1>1, <2>1 DEF Fences
  <2>3. callState[v][s] \notin {"RESERVED", "UNKNOWN"}
    BY <2>2 DEF SoleHolder
  <2>4. Holds(v)
    BY <2>3, OnlyHolders
  <2> QED BY <2>2, <2>4 DEF Holds
<1>3. CASE Claims
  <2>1. PICK u \in Worker, j \in Job, i \in Instance : ClaimJob(u, j, i)
    BY <1>3 DEF Claims
  <2>2. /\ \A x \in Worker : x # u => job'[x] = job[x]
        /\ job'[u] = j
        /\ owner' = [owner EXCEPT ![j] = u]
    BY <2>1, AClaim
  <2>3. callState' = callState /\ ~ Unresolved(j)
    BY <2>1 DEF ClaimJob, Claimable, calls
  <2>4. owner'[j] = u /\ \A k \in Job : k # j => owner'[k] = owner[k]
    BY <2>2 DEF TypeOK
  <2>5. CASE w = u
    <3>1. job[v] = j
      BY <2>2, <2>5
    <3> QED BY <2>3, <3>1, OpenIsUnresolved
  <2>6. CASE w # u
    <3>1. job[w] \in Job /\ job[w] # j /\ owner[job[w]] = w
      BY <2>2, <2>4, <2>6
    <3>2. v # u /\ job[v] = job[w]
      BY <2>2, <2>6, <3>1
    <3> QED BY <2>3, <3>1, <3>2 DEF SoleHolder
  <2> QED BY <2>5, <2>6
<1> QED BY <1>2, <1>3

\* The worker that holds a job made every call of it whose outcome is open: a
\* claim waits for the calls of others, and only holders reserve.
THEOREM NothingInherited == Spec => []NoOpenCallInherited
<1>1. Init => SoleHolder
  BY JobAssumption DEF Init, SoleHolder
<1>2. TypeOK /\ SoleHolder /\ [Next]_vars => SoleHolder'
  BY SoleHolderStep
<1>3. TypeOK /\ SoleHolder => NoOpenCallInherited
  BY DEF TypeOK, SoleHolder, NoOpenCallInherited
<1> QED BY <1>1, <1>2, <1>3, TypeCorrect, PTL DEF Spec

-----------------------------------------------------------------------------
(* Endings *)

\* A worker about to commit has seen a report.
CommitReady ==
    \A w \in Worker :
        Pc(w) = "commit" => job[w] \in Job /\ report[job[w]] # None

\* A report is replaced, never removed, and only on a job that goes on.
LEMMA ReportStays ==
    ASSUME TypeOK, [Next]_vars, NEW j \in Job
    PROVE  /\ report[j] # None => report'[j] # None
           /\ state[j] \in {"SKIPPED", "FAILED"} => report'[j] = report[j]
<1> USE DEF runRow, world, lease, jobRow, batch, calls, work
<1>1. ASSUME NEW w \in Worker, ValidateCandidates(w)
      PROVE  /\ report'[j] # report[j] => j = job[w] /\ report'[j] \in {"some", "none"}
             /\ state[job[w]] \notin {"SKIPPED", "FAILED"}
  BY <1>1 DEF ValidateCandidates, JobTransaction, ValidateJob, Verdicts, TypeOK
<1>2. ASSUME NEW w \in Worker, WorkerStep(w), ~ ValidateCandidates(w)
      PROVE  report' = report
  BY <1>2 DEF WorkerStep, ClaimJob, ReserveCall, Dispatch, SettleCall,
       StoreCandidates, BeginProbe, SkipProbe, CommitExtraction, GiveUp,
       FinishJob, Stop
<1>3. ASSUME ~ \E w \in Worker : WorkerStep(w)
      PROVE  report' = report
  BY <1>3 DEF Next, CreateJob, EndRun, CancelQuery, CancelJobs, CancelOpenJobs,
       Sweep, RecoverJobLease, TerminateJob, FailRecovery, RecoverTerminalCalls,
       RecoverOwnedWork, ReconcileCall, StopInstance, ExpireLease, PassDeadline,
       LoseScope, Upgrade, vars
<1> QED BY <1>1, <1>2, <1>3, JobAssumption

LEMMA CommitReadyStep ==
    ASSUME TypeOK, Tokens, CommitReady, [Next]_vars
    PROVE  CommitReady'
<1> SUFFICES ASSUME NEW w \in Worker, Pc(w)' = "commit"
             PROVE  job'[w] \in Job /\ report'[job'[w]] # None
  BY DEF CommitReady
<1>1. task'[w].pc = "commit" /\ Done.pc # "commit"
  BY Fields DEF Pc
<1>2. CASE ~ Claims
  <2>1. Keeps /\ job' = job
    BY <1>2, NoClaim
  <2>2. Pc(w) = "commit" \/ ValidateCandidates(w)
    BY <1>1, <2>1 DEF Keeps, Continues, Pc
  <2>3. CASE Pc(w) = "commit"
    BY <2>1, <2>3, ReportStays DEF CommitReady
  <2>4. CASE ValidateCandidates(w)
    <3>1. job[w] \in Job
      BY <2>4 DEF ValidateCandidates, Tokens, Pc
    <3>2. report'[job[w]] \in {"some", "none"}
      BY <2>4, <3>1 DEF ValidateCandidates, Verdicts, TypeOK
    <3> QED BY <2>1, <3>1, <3>2, JobAssumption
  <2> QED BY <2>2, <2>3, <2>4
<1>3. CASE Claims
  <2>1. PICK u \in Worker, j \in Job, i \in Instance : ClaimJob(u, j, i)
    BY <1>3 DEF Claims
  <2>2. \A v \in Worker : v # u => task'[v] = task[v] /\ job'[v] = job[v]
    BY <2>1, AClaim
  <2>3. CASE w # u
    <3>1. Pc(w) = "commit" /\ job'[w] = job[w]
      BY <1>1, <2>2, <2>3 DEF Pc
    <3> QED BY <3>1, ReportStays DEF CommitReady
  <2>4. CASE w = u
    <3>1. ASSUME NEW p \in FirstSteps(j),
                 Becomes(u, [pc |-> p, token |-> fence[j] + 1, ready |-> HasCandidates(j),
                  answer |-> IF p = "store" THEN "content" ELSE None,
                  using |-> reportBy[j], stage |-> "extraction"])
          PROVE  task'[u].pc = p
      BY <3>1 DEF Becomes, TypeOK
    <3>2. ASSUME Becomes(u, Done) PROVE task'[u].pc # "commit"
      BY <3>2, Fields DEF Becomes, TypeOK
    <3>3. "commit" \in FirstSteps(j)
      BY <1>1, <2>1, <2>4, <3>1, <3>2 DEF ClaimJob
    <3>4. report[j] # None
      BY <3>3 DEF FirstSteps
    <3>5. job'[w] = j
      BY <2>1, <2>4, AClaim
    <3> QED BY <3>4, <3>5, ReportStays
  <2> QED BY <2>3, <2>4
<1> QED BY <1>2, <1>3

\* No open call appears on a job that has ended.
LEMMA EndedResolve ==
    ASSUME TypeOK, [Next]_vars, NEW j \in Job,
           state[j] \in {"SKIPPED", "FAILED"}, Unresolved(j)'
    PROVE  Unresolved(j)
<1>1. PICK v \in Worker, s \in Stage :
         job'[v] = j /\ callState'[v][s] \in {"RESERVED", "UNKNOWN"}
  <2>1. PICK c \in CallsOf(j)' : callState'[c[1]][c[2]] \in {"RESERVED", "UNKNOWN"}
    BY DEF Unresolved
  <2>2. c \in Worker \X Stage /\ job'[c[1]] = j
    BY <2>1 DEF CallsOf
  <2> QED BY <2>1, <2>2
<1>2. job[v] = j
  <2>1. CASE ~ Claims
    BY <1>1, <2>1, NoClaim
  <2>2. CASE Claims
    <3>1. PICK u \in Worker, k \in Job, i \in Instance : ClaimJob(u, k, i)
      BY <2>2 DEF Claims
    <3>2. /\ \A x \in Worker : x # u => job'[x] = job[x]
          /\ job'[u] = k
      BY <3>1, AClaim
    <3>3. k # j
      BY <3>1 DEF ClaimJob, Claimable, IsOpen, Open
    <3> QED BY <1>1, <3>2, <3>3
  <2> QED BY <2>1, <2>2
<1>3. callState[v][s] \in {"RESERVED", "UNKNOWN"}
  BY <1>1, <1>2, OnlyHolders
<1> QED BY <1>2, <1>3, OpenIsUnresolved

\* Sweeping calls opens none.
LEMMA SweptResolve ==
    ASSUME TypeOK, NEW S, MarkUnknown(S), job' = job, NEW j \in Job, Unresolved(j)'
    PROVE  Unresolved(j)
<1>1. PICK c \in CallsOf(j)' : callState'[c[1]][c[2]] \in {"RESERVED", "UNKNOWN"}
  BY DEF Unresolved
<1>2. c \in Worker \X Stage /\ job[c[1]] = j
  BY <1>1 DEF CallsOf
<1>3. callState[c[1]][c[2]] \in {"RESERVED", "UNKNOWN"}
  BY <1>1, <1>2 DEF MarkUnknown
<1> QED BY <1>2, <1>3, OpenIsUnresolved

LEMMA SameResolve ==
    ASSUME callState' = callState, job' = job, NEW j \in Job
    PROVE  Unresolved(j)' <=> Unresolved(j)
BY DEF Unresolved, CallsOf

\* A job that ends as skipped or failed has no open call, or an empty report.
LEMMA EndsResolved ==
    ASSUME TypeOK, CommitReady, [Next]_vars, NEW j \in Job,
           state'[j] \in {"SKIPPED", "FAILED"}, Unresolved(j)'
    PROVE  \/ state'[j] = state[j]
           \/ state'[j] = "SKIPPED" /\ report'[j] = "none"
<1> USE DEF runRow, world, lease, jobRow, batch, calls, work
<1>1. ASSUME NEW w \in Worker, CommitExtraction(w)
      PROVE  state'[j] = state[j] \/ (state'[j] = "SKIPPED" /\ report'[j] = "none")
  <2>1. Pc(w) = "commit" /\ report' = report
    BY <1>1 DEF CommitExtraction
  <2>2. job[w] \in Job /\ report[job[w]] \in {"some", "none"}
    BY <2>1 DEF CommitReady, TypeOK
  <2>3. state' = [state EXCEPT ![job[w]] =
                    IF report[job[w]] = "some" THEN "COMMITTED" ELSE "SKIPPED"]
    BY <1>1 DEF CommitExtraction
  <2> QED BY <2>1, <2>2, <2>3 DEF TypeOK
<1>2. ASSUME NEW w \in Worker, FinishJob(w) PROVE state'[j] = state[j]
  <2>1. callState' = callState /\ job' = job
    BY <1>2 DEF FinishJob
  <2>2. PICK label \in Labels(w) :
          state' = [state EXCEPT ![job[w]] = FinalState(job[w], label)]
    BY <1>2 DEF FinishJob
  <2>3. Unresolved(j)
    BY <2>1, SameResolve
  <2>4. FinalState(j, label) = "OUTCOME_UNKNOWN"
    BY <2>3 DEF FinalState
  <2> QED BY <2>2, <2>4 DEF TypeOK
<1>3. ASSUME NEW w \in Worker, WorkerStep(w), ~ CommitExtraction(w), ~ FinishJob(w)
      PROVE  state'[j] = state[j]
  <2>1. state' = state \/ \E k \in Job \cup {None}, x \in Open : state' = [state EXCEPT ![k] = x]
    <3>1. ASSUME NEW k \in Job, NEW i \in Instance, ClaimJob(w, k, i)
          PROVE  \E x \in Open : state' = [state EXCEPT ![k] = x]
      BY <3>1 DEF ClaimJob, Open
    <3>2. ASSUME StoreCandidates(w)
          PROVE  state' = state \/ \E x \in Open : state' = [state EXCEPT ![job[w]] = x]
      <4>1. CASE HasCandidates(job[w])
        BY <3>2, <4>1 DEF StoreCandidates, TypeOK
      <4>2. CASE ~ HasCandidates(job[w])
        BY <3>2, <4>2 DEF StoreCandidates, Open
      <4> QED BY <4>1, <4>2
    <3>3. job[w] \in Job \cup {None}
      BY DEF TypeOK
    <3>4. CASE \/ \E i \in Instance : ReserveCall(w, i)
               \/ Dispatch(w) \/ SettleCall(w) \/ ValidateCandidates(w)
               \/ BeginProbe(w) \/ SkipProbe(w) \/ GiveUp(w) \/ Stop(w)
      BY <3>4 DEF ReserveCall, Dispatch, SettleCall, ValidateCandidates,
           BeginProbe, SkipProbe, GiveUp, Stop
    <3> QED BY <1>3, <3>1, <3>2, <3>3, <3>4 DEF WorkerStep
  <2> QED BY <2>1 DEF TypeOK, Open
<1>4. ASSUME CancelOpenJobs, job' = job, callState' = callState PROVE state'[j] = state[j]
  <2>1. Unresolved(j)
    BY <1>4, SameResolve
  <2>2. state'[j] \in {state[j], "OUTCOME_UNKNOWN"}
    BY <1>4, <2>1 DEF CancelOpenJobs, CancelledState
  <2> QED BY <2>2
<1>5. CASE CancelQuery \/ CancelJobs
  BY <1>4, <1>5 DEF CancelQuery, CancelJobs, CancelOpenJobs
<1>6. ASSUME NEW k \in Job, RecoverJobLease(k) PROVE state'[j] = state[j]
  <2>1. MarkUnknown(CallsOf(k)) /\ job' = job
    BY <1>6 DEF RecoverJobLease
  <2>2. Unresolved(j)
    BY <2>1, SweptResolve
  <2>3. RecoveredState(j) = "OUTCOME_UNKNOWN"
    BY <2>2 DEF RecoveredState
  <2> QED BY <1>6, <2>3 DEF RecoverJobLease, TypeOK
<1>7. ASSUME NEW k \in Job, TerminateJob(k) PROVE state'[j] = state[j]
  <2>1. MarkUnknown(CallsOf(k)) /\ job' = job
    BY <1>7 DEF TerminateJob
  <2>2. Unresolved(j)
    BY <2>1, SweptResolve
  <2>3. CancelledState(j) = "OUTCOME_UNKNOWN"
    BY <2>2 DEF CancelledState
  <2> QED BY <1>7, <2>3 DEF TerminateJob, TypeOK
<1>8. ASSUME NEW k \in Job, FailRecovery(k) PROVE state'[j] = state[j]
  <2>1. callState' = callState /\ job' = job
    BY <1>8 DEF FailRecovery
  <2>2. Unresolved(j)
    BY <2>1, SameResolve
  <2>3. state' = [state EXCEPT ![k] = IF Unresolved(k) THEN "OUTCOME_UNKNOWN" ELSE "FAILED"]
    BY <1>8 DEF FailRecovery
  <2> QED BY <2>2, <2>3 DEF TypeOK
<1>9. ASSUME NEW k \in Job, CreateJob(k) PROVE state'[j] = state[j]
  BY <1>9 DEF CreateJob, TypeOK
<1>10. CASE \/ RecoverTerminalCalls \/ RecoverOwnedWork
            \/ \E s \in {"COMPLETED", "FAILED"} : EndRun(s)
            \/ \E w \in Worker, s \in Stage : ReconcileCall(w, s)
            \/ \E i \in Instance : StopInstance(i)
            \/ \E k \in Job : ExpireLease(k)
            \/ PassDeadline \/ LoseScope \/ Upgrade
            \/ UNCHANGED vars
  BY <1>10 DEF RecoverTerminalCalls, RecoverOwnedWork, EndRun, ReconcileCall,
       StopInstance, ExpireLease, PassDeadline, LoseScope, Upgrade, vars
<1>11. CASE Sweep
  BY <1>6, <1>7, <1>8, <1>10, <1>11 DEF Sweep
<1>12. CASE \E w \in Worker : WorkerStep(w)
  BY <1>1, <1>2, <1>3, <1>12
<1> QED BY <1>5, <1>9, <1>10, <1>11, <1>12 DEF Next

\* A job is written off only once its ledger is closed, but for an empty result
\* that was published: whoever ends a job looks at its calls in the same
\* transaction, and no call is opened on a job that has ended.
THEOREM EndingsTell == Spec => []EndTellsLedger
<1> DEFINE Inv == Tokens /\ CommitReady /\ EndTellsLedger
<1>1. Init => Inv
  <2>1. Init => CommitReady /\ EndTellsLedger
    BY DEF Init, CommitReady, EndTellsLedger, Pc, Nothing
  <2> QED BY <2>1, TokensInit
<1>2. TypeOK /\ Inv /\ [Next]_vars => Inv'
  <2> SUFFICES ASSUME TypeOK, Inv, [Next]_vars PROVE Inv'
    OBVIOUS
  <2>1. Tokens' /\ CommitReady'
    BY TokensStep, CommitReadyStep
  <2>2. ASSUME NEW j \in Job, Unresolved(j)', state'[j] \in {"SKIPPED", "FAILED"}
        PROVE  state'[j] = "SKIPPED" /\ report'[j] = "none"
    <3>1. CASE state'[j] = state[j]
      <4>1. Unresolved(j) /\ report'[j] = report[j]
        BY <2>2, <3>1, EndedResolve, ReportStays
      <4> QED BY <2>2, <3>1, <4>1 DEF EndTellsLedger
    <3> QED BY <2>2, <3>1, EndsResolved
  <2> QED BY <2>1, <2>2 DEF EndTellsLedger
<1>3. Inv => EndTellsLedger
  OBVIOUS
<1> QED BY <1>1, <1>2, <1>3, TypeCorrect, PTL DEF Spec

-----------------------------------------------------------------------------
(* One extraction, one result, one ending *)

Called(w) == callState[w]["extraction"] # "NONE"
Sent(w) == "extraction" \in sent[w]
Senders(j) == {w \in Worker : job[w] = j /\ Sent(w)}

\* What a worker has done for its job's extraction, by where it is.
Progress(w) ==
    /\ Pc(w) = "idle" => ~ Called(w) /\ job[w] = None
    /\ Pc(w) # "idle" => job[w] \in Job
    /\ Sent(w) => Called(w)
    /\ "extraction" \in recorded[w] => Sent(w)
    /\ Pc(w) \in {"admitted", "sent"} /\ task[w].stage = "extraction" =>
           Called(w) /\ (Sent(w) <=> Pc(w) = "sent")
    /\ task[w].answer = "content" => Senders(job[w]) # {}

\* A job has one extraction at most, and what it publishes is its answer.
OneExtraction(j) ==
    /\ \A w, v \in Worker : job[w] = j /\ Called(w) /\ job[v] = j /\ Called(v) => w = v
    /\ state[j] = "NONE" => \A w \in Worker : job[w] # j
    /\ state[j] = "COMMITTED" => published[j] /\ report[j] = "some"
    /\ report[j] = "some" => raw[j] = "content"

Extraction ==
    (\A w \in Worker : Progress(w)) /\ (\A j \in Job : OneExtraction(j))

LEMMA ExtractionInit == Init => Extraction
<1>1. ASSUME Init PROVE \A w \in Worker : Progress(w)
  BY <1>1, JobAssumption DEF Init, Progress, Pc, Called, Sent, Nothing, Stage
<1>2. ASSUME Init PROVE \A j \in Job : OneExtraction(j)
  BY <1>2, JobAssumption DEF Init, OneExtraction, Called, Stage
<1> QED BY <1>1, <1>2 DEF Extraction

\* What the steps of others leave alone.
Untouched(w) ==
    /\ task'[w] = task[w] /\ job'[w] = job[w]
    /\ sent'[w] = sent[w] /\ recorded'[w] = recorded[w]
    /\ Called(w)' <=> Called(w)

\* No call is forgotten, and only its worker makes one.
LEMMA SweptCalled ==
    ASSUME NEW S, MarkUnknown(S), NEW w \in Worker
    PROVE  Called(w)' <=> Called(w)
BY DEF MarkUnknown, Called, Stage

LEMMA WorkUntouched ==
    ASSUME NEW w \in Worker, task' = task, job' = job, sent' = sent,
           recorded' = recorded, Called(w)' <=> Called(w)
    PROVE  Untouched(w)
BY DEF Untouched

LEMMA OthersUntouched ==
    ASSUME TypeOK, [Next]_vars, NEW w \in Worker, ~ WorkerStep(w)
    PROVE  Untouched(w)
<1> USE DEF runRow, world, lease, jobRow, batch, calls, work
<1>1. ASSUME NEW v \in Worker, v # w, WorkerStep(v) PROVE Untouched(w)
  <2>1. task'[w] = task[w] /\ job'[w] = job[w]
    <3>1. CASE \E j \in Job, i \in Instance : ClaimJob(v, j, i)
      BY <1>1, <3>1, AClaim
    <3>2. CASE ~ \E j \in Job, i \in Instance : ClaimJob(v, j, i)
      <4>1. job' = job
        BY <1>1, <3>2 DEF WorkerStep, ReserveCall, Dispatch, SettleCall,
           StoreCandidates, ValidateCandidates, BeginProbe, SkipProbe,
           CommitExtraction, GiveUp, FinishJob, Stop
      <4>2. \E t : task' = [task EXCEPT ![v] = t]
        BY <1>1, <3>2 DEF WorkerStep, ReserveCall, Dispatch, SettleCall,
           StoreCandidates, ValidateCandidates, BeginProbe, SkipProbe,
           CommitExtraction, GiveUp, FinishJob, Stop, Reply, Becomes
      <4> QED BY <1>1, <4>1, <4>2 DEF TypeOK
    <3> QED BY <3>1, <3>2
  <2>2. sent'[w] = sent[w] /\ recorded'[w] = recorded[w]
    <3>1. CASE Dispatch(v)
      BY <1>1, <3>1 DEF Dispatch, TypeOK
    <3>2. CASE SettleCall(v)
      BY <1>1, <3>2 DEF SettleCall, TypeOK
    <3>3. CASE ~ Dispatch(v) /\ ~ SettleCall(v)
      BY <1>1, <3>3 DEF WorkerStep, ClaimJob, ReserveCall,
         StoreCandidates, ValidateCandidates, BeginProbe, SkipProbe,
         CommitExtraction, GiveUp, FinishJob, Stop
    <3> QED BY <3>1, <3>2, <3>3
  <2>3. callState'[w] = callState[w]
    <3>1. ASSUME NEW i \in Instance, ReserveCall(v, i) PROVE callState'[w] = callState[w]
      BY <1>1, <3>1 DEF ReserveCall, TypeOK
    <3>2. CASE SettleCall(v)
      BY <1>1, <3>2 DEF SettleCall, TypeOK
    <3>3. CASE ~ (\E i \in Instance : ReserveCall(v, i)) /\ ~ SettleCall(v)
      BY <1>1, <3>3 DEF WorkerStep, ClaimJob, Dispatch,
         StoreCandidates, ValidateCandidates, BeginProbe, SkipProbe,
         CommitExtraction, GiveUp, FinishJob, Stop
    <3> QED BY <3>1, <3>2, <3>3
  <2> QED BY <2>1, <2>2, <2>3 DEF Untouched, Called
<1>2. CASE Sweep
  <2>1. task' = task /\ job' = job /\ sent' = sent /\ recorded' = recorded
    BY <1>2 DEF Sweep, RecoverJobLease, TerminateJob, FailRecovery,
         RecoverTerminalCalls, RecoverOwnedWork
  <2>2. callState' = callState \/ \E S : MarkUnknown(S)
    BY <1>2 DEF Sweep, RecoverJobLease, TerminateJob, FailRecovery,
         RecoverTerminalCalls, RecoverOwnedWork
  <2>3. Called(w)' <=> Called(w)
    <3>1. CASE callState' = callState
      BY <3>1 DEF Called
    <3> QED BY <2>2, <3>1, SweptCalled
  <2> QED BY <2>1, <2>3, WorkUntouched
<1>3. ASSUME NEW v \in Worker, NEW s \in Stage, ReconcileCall(v, s) PROVE Untouched(w)
  <2>1. task' = task /\ job' = job /\ sent' = sent /\ recorded' = recorded
    BY <1>3 DEF ReconcileCall
  <2>2. \/ callState'[w]["extraction"] = callState[w]["extraction"]
        \/ /\ callState[w]["extraction"] = "UNKNOWN"
           /\ callState'[w]["extraction"] = "SETTLED"
    BY <1>3 DEF ReconcileCall, Stage, TypeOK
  <2>3. Called(w)' <=> Called(w)
    BY <2>2 DEF Called
  <2> QED BY <2>1, <2>3, WorkUntouched
<1>4. CASE \/ \E j \in Job : CreateJob(j)
           \/ \E s \in {"COMPLETED", "FAILED"} : EndRun(s)
           \/ CancelQuery \/ CancelJobs
           \/ \E i \in Instance : StopInstance(i)
           \/ \E j \in Job : ExpireLease(j)
           \/ PassDeadline \/ LoseScope \/ Upgrade
           \/ UNCHANGED vars
  <2>1. task' = task /\ job' = job /\ sent' = sent /\ recorded' = recorded
        /\ callState' = callState
    BY <1>4 DEF CreateJob, EndRun, CancelQuery, CancelJobs, CancelOpenJobs,
         StopInstance, ExpireLease, PassDeadline, LoseScope, Upgrade, vars
  <2> QED BY <2>1, WorkUntouched DEF Called
<1> QED BY <1>1, <1>2, <1>3, <1>4 DEF Next

\* Requests are not taken back.
LEMMA SentStays ==
    ASSUME TypeOK, [Next]_vars, NEW w \in Worker, Sent(w)
    PROVE  Sent(w)'
<1> USE DEF runRow, world, lease, jobRow, batch, calls, work
<1>1. CASE WorkerStep(w)
  <2>1. CASE Dispatch(w)
    BY <2>1 DEF Dispatch, Sent, TypeOK
  <2>2. CASE ~ Dispatch(w)
    BY <1>1, <2>2 DEF WorkerStep, ClaimJob, ReserveCall, SettleCall,
       StoreCandidates, ValidateCandidates, BeginProbe, SkipProbe,
       CommitExtraction, GiveUp, FinishJob, Stop, Sent
  <2> QED BY <2>1, <2>2
<1> QED BY <1>1, OthersUntouched DEF Untouched, Sent

LEMMA SendersStay ==
    ASSUME TypeOK, Extraction, [Next]_vars, NEW j
    PROVE  Senders(j) \subseteq Senders(j)'
<1> SUFFICES ASSUME NEW w \in Senders(j) PROVE w \in Senders(j)'
  OBVIOUS
<1>1. w \in Worker /\ job[w] = j /\ Sent(w)
  BY DEF Senders
<1>2. Pc(w) # "idle"
  BY <1>1 DEF Extraction, Progress
<1>3. job'[w] = job[w]
  <2>1. CASE ~ Claims
    BY <2>1, NoClaim
  <2>2. CASE Claims
    <3>1. PICK u \in Worker, k \in Job, i \in Instance : ClaimJob(u, k, i)
      BY <2>2 DEF Claims
    <3> QED BY <1>1, <1>2, <3>1, AClaim
  <2> QED BY <2>1, <2>2
<1> QED BY <1>1, <1>3, SentStays DEF Senders

\* What a worker's memory says after a reply.
LEMMA AfterReply ==
    ASSUME TypeOK, NEW w \in Worker, NEW t, Becomes(w, t) \/ Reply(w, t)
    PROVE  task'[w] = t \/ task'[w] = Failing(w)
BY DEF Becomes, Reply, TypeOK

\* Where a worker goes that neither reserves, dispatches nor settles, it holds
\* no request, and an answer only if it had one or learned of one.
LEMMA Settled ==
    ASSUME NEW w \in Worker, Extraction, TypeOK, [Next]_vars,
           Untouched(w) \/ (job'[w] = job[w] /\ sent'[w] = sent[w]
                            /\ recorded'[w] = recorded[w] /\ (Called(w)' <=> Called(w))),
           Pc(w) # "idle", task'[w].pc \notin {"idle", "admitted", "sent"},
           task'[w].answer = "content" => task[w].answer = "content"
    PROVE  Progress(w)'
<1>1. PICK j \in Job : job[w] = j /\ job'[w] = j
  BY DEF Untouched, Extraction, Progress
<1>2. task[w].answer = "content" => Senders(j) # {}
  BY <1>1 DEF Extraction, Progress
<1>3. task[w].answer = "content" => Senders(j)' # {}
  BY <1>2, SendersStay
<1>4. /\ Sent(w)' => Called(w)'
      /\ "extraction" \in recorded'[w] => Sent(w)'
  BY DEF Untouched, Extraction, Progress, Sent
<1>5. Senders(job[w])' = Senders(j)'
  BY <1>1 DEF Senders
<1> QED BY <1>1, <1>3, <1>4, <1>5 DEF Progress, Pc


\* The steps of others leave what a worker has done alone.
LEMMA ProgressKept ==
    ASSUME NEW w \in Worker, Extraction, TypeOK, [Next]_vars, Untouched(w)
    PROVE  Progress(w)'
<1>1. CASE Pc(w) = "idle"
  <2>1. job[w] = None /\ job'[w] = None /\ (Senders(job[w])' = Senders(None)')
    BY <1>1 DEF Untouched, Extraction, Progress, Senders
  <2>2. Senders(None) \subseteq Senders(None)'
    BY SendersStay
  <2>3. task'[w].answer = "content" => Senders(job[w])' # {}
    BY <2>1, <2>2 DEF Untouched, Extraction, Progress
  <2> QED BY <1>1, <2>1, <2>3 DEF Untouched, Extraction, Progress, Pc, Sent
<1>2. CASE Pc(w) # "idle"
  <2>1. PICK j \in Job : job[w] = j /\ job'[w] = j
    BY <1>2 DEF Untouched, Extraction, Progress
  <2>2. Senders(j) \subseteq Senders(j)' /\ Senders(job[w])' = Senders(j)'
    BY <2>1, SendersStay DEF Senders
  <2>3. task'[w].answer = "content" => Senders(job[w])' # {}
    BY <2>1, <2>2 DEF Untouched, Extraction, Progress
  <2> QED BY <1>2, <2>1, <2>3 DEF Untouched, Extraction, Progress, Pc, Sent
<1> QED BY <1>1, <1>2

\* A worker that claims a job has done nothing yet, and the answer it finds
\* recorded belongs to a request that was sent.
LEMMA ProgressClaim ==
    ASSUME NEW w \in Worker, Extraction, TypeOK, [Next]_vars,
           NEW j \in Job, NEW i \in Instance, ClaimJob(w, j, i)
    PROVE  Progress(w)'
<1> USE DEF calls
<1>1. /\ Pc(w) = "idle" /\ ~ Called(w) /\ ~ Sent(w) /\ "extraction" \notin recorded[w]
      /\ callState' = callState /\ sent' = sent /\ recorded' = recorded
      /\ job' = [job EXCEPT ![w] = j]
  BY DEF ClaimJob, Extraction, Progress
<1>2. job'[w] = j /\ Senders(job[w])' = Senders(j)'
  BY <1>1 DEF TypeOK, Senders
<1>3. RecordedExtraction(j) => Senders(j) # {}
  <2>1. ASSUME NEW c \in StageCalls(j, "extraction"), HasContent(c)
        PROVE  c[1] \in Senders(j)
    <3>1. c[1] \in Worker /\ job[c[1]] = j /\ c[2] = "extraction"
      BY DEF StageCalls, CallsOf
    <3>2. "extraction" \in recorded[c[1]]
      BY <2>1, <3>1 DEF HasContent
    <3> QED BY <3>1, <3>2 DEF Extraction, Progress, Senders
  <2> QED BY <2>1 DEF RecordedExtraction
<1>4. Senders(j) \subseteq Senders(j)'
  BY SendersStay
<1>5. ASSUME NEW p \in FirstSteps(j),
             Becomes(w, [pc |-> p, token |-> fence[j] + 1, ready |-> HasCandidates(j),
              answer |-> IF p = "store" THEN "content" ELSE None,
              using |-> reportBy[j], stage |-> "extraction"])
      PROVE  /\ task'[w].pc \notin {"idle", "admitted", "sent"}
             /\ task'[w].answer = "content" => RecordedExtraction(j)
  <2>1. /\ task'[w].pc = p
        /\ task'[w].answer = IF p = "store" THEN "content" ELSE None
    BY <1>5 DEF Becomes, TypeOK
  <2>2. p \notin {"idle", "admitted", "sent"}
    BY DEF FirstSteps
  <2>3. p = "store" => RecordedExtraction(j)
    BY DEF FirstSteps
  <2> QED BY <2>1, <2>2, <2>3, JobAssumption
<1>6. ASSUME Becomes(w, Done)
      PROVE  /\ task'[w].pc \notin {"idle", "admitted", "sent"}
             /\ task'[w].answer # "content"
  BY <1>6, JobAssumption DEF Becomes, TypeOK, Done, Nothing
<1>7. /\ task'[w].pc \notin {"idle", "admitted", "sent"}
      /\ task'[w].answer = "content" => RecordedExtraction(j)
  BY <1>5, <1>6 DEF ClaimJob
<1>8. ~ Called(w)' /\ ~ Sent(w)'
  BY <1>1 DEF Called, Sent
<1> QED BY <1>1, <1>2, <1>3, <1>4, <1>7, <1>8 DEF Progress, Pc

\* An extraction is admitted only to a worker that has made none.
LEMMA ProgressReserve ==
    ASSUME NEW w \in Worker, Extraction, TypeOK, [Next]_vars,
           NEW i \in Instance, ReserveCall(w, i)
    PROVE  Progress(w)'
<1> USE DEF calls, jobRow, batch
<1>1. /\ Pc(w) \in {"extract", "probe"} /\ StageAdmits(job[w], task[w].stage)
      /\ callState' = [callState EXCEPT ![w][task[w].stage] = "RESERVED"]
      /\ Reply(w, At(w, "admitted"))
      /\ sent' = sent /\ recorded' = recorded /\ job' = job
  BY DEF ReserveCall
<1>2. PICK j \in Job : job[w] = j /\ job'[w] = j
  BY <1>1 DEF Extraction, Progress
<1>3. task[w].stage \in Stage /\ task[w] \in Task
  BY Fields DEF Task
<1>4. Called(w) => Called(w)'
  BY <1>1, <1>3 DEF Called, TypeOK, Stage
<1>5. /\ Sent(w)' => Called(w)'
      /\ "extraction" \in recorded'[w] => Sent(w)'
      /\ task[w].stage = "extraction" => Called(w)' /\ ~ Sent(w)'
  <2>1. Sent(w)' <=> Sent(w)
    BY <1>1 DEF Sent
  <2>2. task[w].stage = "extraction" => ~ Sent(w) /\ Called(w)'
    <3>1. CASE task[w].stage = "extraction"
      <4>1. Called(w) => <<w, "extraction">> \in StageCalls(j, "extraction")
        BY <1>2 DEF Called, StageCalls, CallsOf, Stage
      <4>2. ~ Called(w)
        BY <1>1, <1>2, <3>1, <4>1 DEF StageAdmits
      <4>3. Called(w)'
        BY <1>1, <3>1 DEF Called, TypeOK, Stage
      <4> QED BY <4>2, <4>3 DEF Extraction, Progress
    <3> QED BY <3>1
  <2> QED BY <1>1, <1>4, <2>1, <2>2 DEF Extraction, Progress
<1>6. task'[w] = At(w, "admitted") \/ task'[w] = Failing(w)
  BY <1>1, AfterReply
<1>7. /\ At(w, "admitted").pc = "admitted" /\ At(w, "admitted").stage = task[w].stage
      /\ At(w, "admitted").answer = task[w].answer
      /\ Failing(w).pc = "finish" /\ Failing(w).answer = None
  BY <1>3 DEF At, Failing, Nothing, Task
<1>8. task'[w].answer = "content" => Senders(job[w])' # {}
  <2>1. task'[w].answer = "content" => task[w].answer = "content"
    BY <1>6, <1>7, JobAssumption
  <2>2. task[w].answer = "content" => Senders(j) # {}
    BY <1>2 DEF Extraction, Progress
  <2>3. Senders(j) \subseteq Senders(j)' /\ Senders(job[w])' = Senders(j)'
    BY <1>2, SendersStay DEF Senders
  <2> QED BY <2>1, <2>2, <2>3
<1> QED BY <1>2, <1>5, <1>6, <1>7, <1>8 DEF Progress, Pc

\* A request leaves once.
LEMMA ProgressDispatch ==
    ASSUME NEW w \in Worker, Extraction, TypeOK, [Next]_vars, Dispatch(w)
    PROVE  Progress(w)'
<1>1. /\ Pc(w) = "admitted" /\ Becomes(w, At(w, "sent"))
      /\ sent' = [sent EXCEPT ![w] = @ \cup {task[w].stage}]
      /\ callState' = callState /\ recorded' = recorded /\ job' = job
  BY DEF Dispatch, calls
<1>2. PICK j \in Job : job[w] = j /\ job'[w] = j
  BY <1>1 DEF Extraction, Progress
<1>3. task[w].stage \in Stage /\ task[w] \in Task
  BY Fields DEF Task
<1>4. sent'[w] = sent[w] \cup {task[w].stage}
  BY <1>1 DEF TypeOK
<1>5. /\ task'[w].pc = "sent" /\ task'[w].stage = task[w].stage
      /\ task'[w].answer = task[w].answer
  BY <1>1, <1>3 DEF Becomes, At, Task, TypeOK
<1>6. Called(w)' <=> Called(w)
  BY <1>1 DEF Called
<1>7. task[w].stage = "extraction" => Called(w)
  BY <1>1 DEF Extraction, Progress
<1>8. Sent(w)' <=> Sent(w) \/ task[w].stage = "extraction"
  BY <1>4 DEF Sent
<1>9. (Sent(w) => Called(w)) /\ ("extraction" \in recorded[w] => Sent(w))
  BY DEF Extraction, Progress
<1>10. task'[w].answer = "content" => Senders(job[w])' # {}
  <2>1. task[w].answer = "content" => Senders(j) # {}
    BY <1>2 DEF Extraction, Progress
  <2>2. Senders(j) \subseteq Senders(j)' /\ Senders(job[w])' = Senders(j)'
    BY <1>2, SendersStay DEF Senders
  <2> QED BY <1>5, <2>1, <2>2
<1> QED BY <1>1, <1>2, <1>5, <1>6, <1>7, <1>8, <1>9, <1>10 DEF Progress, Pc

\* An answer comes back only for a request that was sent.
LEMMA ProgressSettle ==
    ASSUME NEW w \in Worker, Extraction, TypeOK, [Next]_vars, SettleCall(w)
    PROVE  Progress(w)'
<1> USE DEF jobRow, batch
<1>0. PICK r \in Outcome(w) :
         /\ \E t \in AfterSettle(w, r) : Becomes(w, t)
         /\ callState' = [callState EXCEPT ![w][task[w].stage] = SettledState(@, r)]
         /\ recorded' = IF r = "content"
                             /\ callState[w][task[w].stage] = "RESERVED"
                          THEN [recorded EXCEPT ![w] = @ \cup {task[w].stage}]
                          ELSE recorded
  BY DEF SettleCall
<1>1. PICK t \in AfterSettle(w, r) : Becomes(w, t)
  BY <1>0
<1>2. sent' = sent /\ job' = job
  BY DEF SettleCall
<1>3. Pc(w) \in {"admitted", "sent"} /\ (r = "content" => Pc(w) = "sent")
  BY DEF Outcome
<1>4. PICK j \in Job : job[w] = j /\ job'[w] = j
  BY <1>2, <1>3 DEF Extraction, Progress
<1>5. task[w].stage \in Stage /\ task[w] \in Task
  BY Fields DEF Task
<1>6. Called(w)' <=> Called(w)
  <2>1. \A x \in CallState : SettledState(x, r) = "NONE" <=> x = "NONE"
    BY DEF SettledState, CallState
  <2>2. callState[w]["extraction"] \in CallState
    BY DEF TypeOK, Stage
  <2>3. callState'[w]["extraction"] \in
          {callState[w]["extraction"], SettledState(callState[w]["extraction"], r)}
    BY <1>0, <1>5 DEF TypeOK, Stage
  <2> QED BY <2>1, <2>2, <2>3 DEF Called
<1>7. Sent(w)' <=> Sent(w)
  BY <1>2 DEF Sent
<1>8. r = "content" /\ task[w].stage = "extraction" => Sent(w)
  BY <1>3 DEF Extraction, Progress
<1>9. "extraction" \in recorded'[w] => Sent(w)
  <2>1. "extraction" \in recorded'[w] =>
          \/ "extraction" \in recorded[w]
          \/ r = "content" /\ task[w].stage = "extraction"
    BY <1>0 DEF TypeOK
  <2> QED BY <1>8, <2>1 DEF Extraction, Progress
<1>10. /\ task'[w].pc \notin {"idle", "admitted", "sent"}
       /\ task'[w].answer = "content" =>
            task[w].answer = "content" \/ (r = "content" /\ task[w].stage = "extraction")
  <2>1. task'[w] = t
    BY <1>1 DEF Becomes, TypeOK
  <2>2. \A p, a : /\ [At(w, p) EXCEPT !.answer = a].pc = p
                  /\ [At(w, p) EXCEPT !.answer = a].answer = a
                  /\ At(w, p).pc = p /\ At(w, p).answer = task[w].answer
    BY <1>5 DEF At, Task
  <2>3. Failing(w).pc = "finish" /\ Failing(w).answer # "content"
    BY JobAssumption DEF Failing, Nothing
  <2>4. CASE t = Failing(w)
    BY <2>1, <2>3, <2>4
  <2>5. CASE task[w].stage # "extraction" /\ t # Failing(w)
    <3>1. t = At(w, "validate")
      BY <1>1, <2>5 DEF AfterSettle
    <3> QED BY <2>1, <2>2, <3>1
  <2>6. CASE task[w].stage = "extraction" /\ t # Failing(w)
    <3>1. PICK p \in {"store", "store_failure"} :
            t = [At(w, p) EXCEPT !.answer = IF r = "content" THEN "content" ELSE "failed"]
      BY <1>1, <2>6 DEF AfterSettle
    <3>2. t.pc = p /\ t.answer = IF r = "content" THEN "content" ELSE "failed"
      BY <2>2, <3>1
    <3> QED BY <2>1, <2>6, <3>2
  <2> QED BY <2>4, <2>5, <2>6
<1>11. task'[w].answer = "content" => Senders(job[w])' # {}
  <2>1. task[w].answer = "content" => Senders(j) # {}
    BY <1>4 DEF Extraction, Progress
  <2>2. Sent(w) => w \in Senders(j)
    BY <1>4 DEF Senders
  <2>3. Senders(j) \subseteq Senders(j)' /\ Senders(job[w])' = Senders(j)'
    BY <1>4, SendersStay DEF Senders
  <2> QED BY <1>8, <1>10, <2>1, <2>2, <2>3
<1>12. Sent(w) => Called(w)
  BY DEF Extraction, Progress
<1> QED BY <1>4, <1>6, <1>7, <1>9, <1>10, <1>11, <1>12 DEF Progress, Pc


\* Whatever a worker does, what it has done for the extraction stays in order.
LEMMA ProgressStep ==
    ASSUME TypeOK, Extraction, [Next]_vars, NEW w \in Worker
    PROVE  Progress(w)'
<1> USE DEF runRow, world, lease, jobRow, batch, calls, work
<1>1. CASE ~ WorkerStep(w)
  BY <1>1, OthersUntouched, ProgressKept
<1>2. CASE \/ \E j \in Job, i \in Instance : ClaimJob(w, j, i)
           \/ \E i \in Instance : ReserveCall(w, i)
           \/ Dispatch(w) \/ SettleCall(w)
  BY <1>2, ProgressClaim, ProgressReserve, ProgressDispatch, ProgressSettle
<1> DEFINE Idles == job'[w] = job[w] /\ sent'[w] = sent[w]
                    /\ recorded'[w] = recorded[w] /\ (Called(w)' <=> Called(w))
           Fits(t) == /\ t.pc \notin {"idle", "admitted", "sent"}
                      /\ t.answer = "content" => task[w].answer = "content"
<1>3. task[w] \in Task
  BY Fields
<1>4. Fits(Failing(w)) /\ Fits(Done)
  BY JobAssumption DEF Failing, Done, Nothing
<1>5. ASSUME NEW t, Fits(t), Becomes(w, t) \/ Reply(w, t), Pc(w) # "idle", Idles
      PROVE  Progress(w)'
  <2>1. task'[w] = t \/ task'[w] = Failing(w)
    BY <1>5, AfterReply
  <2>2. Fits(task'[w])
    BY <1>4, <1>5, <2>1
  <2> QED BY <1>5, <2>2, Settled
<1>6. ASSUME \/ StoreCandidates(w) \/ ValidateCandidates(w) \/ BeginProbe(w)
             \/ SkipProbe(w) \/ CommitExtraction(w) \/ GiveUp(w) \/ FinishJob(w)
             \/ Stop(w)
      PROVE  Idles /\ Pc(w) # "idle"
  BY <1>6 DEF StoreCandidates, ValidateCandidates, BeginProbe, SkipProbe,
     CommitExtraction, GiveUp, FinishJob, Stop, Called
<1>7. CASE StoreCandidates(w)
  <2> DEFINE u == [[task[w] EXCEPT !.answer = None] EXCEPT !.pc = "validate", !.ready = TRUE]
  <2>1. Fits(u)
    BY <1>3, JobAssumption DEF Task
  <2>2. \A b \in BOOLEAN : Fits([Failing(w) EXCEPT !.ready = b])
    BY JobAssumption DEF Failing, Nothing
  <2>3. Reply(w, u) \/ \E b \in BOOLEAN : Becomes(w, [Failing(w) EXCEPT !.ready = b])
    BY <1>7 DEF StoreCandidates
  <2> HIDE DEF Idles, Fits, u
  <2> QED BY <1>5, <1>6, <1>7, <2>1, <2>2, <2>3
<1>8. CASE ValidateCandidates(w)
  <2> DEFINE u(p) == [[task[w] EXCEPT !.using = w] EXCEPT !.pc = p]
  <2>1. Fits(u("commit")) /\ Fits(u("doubt"))
    BY <1>3 DEF Task
  <2>2. Reply(w, u("commit")) \/ Reply(w, u("doubt"))
    BY <1>8 DEF ValidateCandidates
  <2> HIDE DEF Idles, Fits, u
  <2> QED BY <1>5, <1>6, <1>8, <2>1, <2>2
<1>9. CASE BeginProbe(w)
  <2> DEFINE u == [At(w, "probe") EXCEPT !.stage = "probe"]
  <2>1. Fits(u)
    BY <1>3 DEF At, Task
  <2>2. Reply(w, u)
    BY <1>9 DEF BeginProbe
  <2> HIDE DEF Idles, Fits, u
  <2> QED BY <1>5, <1>6, <1>9, <2>1, <2>2
<1>10. CASE SkipProbe(w)
  <2> DEFINE u == [At(w, "validate") EXCEPT !.stage = "probe"]
  <2>1. Fits(u)
    BY <1>3 DEF At, Task
  <2>2. Becomes(w, u)
    BY <1>10 DEF SkipProbe
  <2> HIDE DEF Idles, Fits, u
  <2> QED BY <1>5, <1>6, <1>10, <2>1, <2>2
<1>11. CASE CommitExtraction(w) \/ GiveUp(w) \/ FinishJob(w) \/ Stop(w)
  <2>1. Reply(w, Done) \/ Becomes(w, Done) \/ Becomes(w, Failing(w))
    BY <1>11 DEF CommitExtraction, GiveUp, FinishJob, Stop
  <2> HIDE DEF Idles, Fits
  <2> QED BY <1>4, <1>5, <1>6, <1>11, <2>1
<1> QED BY <1>1, <1>2, <1>7, <1>8, <1>9, <1>10, <1>11 DEF WorkerStep

-----------------------------------------------------------------------------
(* What a step does to the states of jobs *)

Ends == {"SKIPPED", "FAILED", "OUTCOME_UNKNOWN"}

Creates(k) ==
    state[k] = "NONE" /\ state' = [state EXCEPT ![k] = "WAITING_PREFIX"]
Moves(k) ==
    IsOpen(k) /\ \E x \in Open \cup Ends : state' = [state EXCEPT ![k] = x]
Publishes(k) ==
    /\ state[k] \in Open \cup {"COMMITTED"}
    /\ report[k] = "some" /\ report' = report /\ published'[k]
    /\ state' = [state EXCEPT ![k] = "COMMITTED"]
Cancels ==
    state' = [j \in Job |-> IF IsOpen(j) THEN CancelledState(j) ELSE state[j]]

LEMMA StoreStates ==
    ASSUME TypeOK, Extraction, NEW w \in Worker, StoreCandidates(w)
    PROVE  state' = state \/ \E k \in Job : Moves(k)
<1>1. /\ Pc(w) # "idle"
      /\ state[job[w]] \notin Ends
      /\ state' = [state EXCEPT ![job[w]] =
                     IF HasCandidates(job[w]) THEN @ ELSE "RESULT_READY"]
  BY DEF StoreCandidates, JobTransaction, ValidateJob, Ends
<1>2. PICK j \in Job : job[w] = j
  BY <1>1 DEF Extraction, Progress
<1>3. CASE HasCandidates(j)
  BY <1>1, <1>2, <1>3 DEF TypeOK
<1>4. CASE ~ HasCandidates(j)
  <2>1. state[j] # "NONE" /\ state[j] # "COMMITTED"
    BY <1>2, <1>4, JobAssumption DEF Extraction, OneExtraction, HasCandidates
  <2>2. IsOpen(j)
    BY <1>1, <1>2, <2>1 DEF TypeOK, IsOpen, Open, Terminal, Ends
  <2>3. state' = [state EXCEPT ![j] = "RESULT_READY"]
    BY <1>1, <1>2, <1>4
  <2> QED BY <2>2, <2>3 DEF Moves, Open
<1> QED BY <1>3, <1>4

LEMMA CommitStates ==
    ASSUME TypeOK, Extraction, NEW w \in Worker, CommitExtraction(w)
    PROVE  \E k \in Job : Moves(k) \/ Publishes(k)
<1>1. /\ Pc(w) # "idle"
      /\ state[job[w]] \notin Ends
      /\ report' = report
  BY DEF CommitExtraction, JobTransaction, ValidateJob, Ends
<1>2. PICK j \in Job : job[w] = j
  BY <1>1 DEF Extraction, Progress
<1>3. state[j] # "NONE"
  BY <1>2 DEF Extraction, OneExtraction
<1>4. state[j] \in Open \cup {"COMMITTED"}
  BY <1>1, <1>2, <1>3 DEF TypeOK, Terminal, Ends
<1>5. CASE report[j] = "some"
  <2>1. /\ published' = [published EXCEPT ![j] = TRUE]
        /\ state' = [state EXCEPT ![j] = "COMMITTED"]
    BY <1>2, <1>5 DEF CommitExtraction
  <2> QED BY <1>1, <1>4, <1>5, <2>1 DEF Publishes, TypeOK
<1>6. CASE report[j] # "some"
  <2>1. state' = [state EXCEPT ![j] = "SKIPPED"]
    BY <1>2, <1>6 DEF CommitExtraction
  <2>2. IsOpen(j)
    BY <1>4, <1>6 DEF Extraction, OneExtraction, IsOpen
  <2> QED BY <2>1, <2>2 DEF Moves, Ends
<1> QED BY <1>5, <1>6

LEMMA StateSteps ==
    ASSUME TypeOK, Extraction, [Next]_vars
    PROVE  \/ state' = state
           \/ \E k \in Job : Creates(k) \/ Moves(k) \/ Publishes(k)
           \/ Cancels
<1> USE DEF runRow, world, lease, jobRow, batch, calls, work
<1>1. ASSUME NEW k \in Job, CreateJob(k) PROVE Creates(k)
  BY <1>1 DEF CreateJob, Creates
<1>2. ASSUME NEW w \in Worker, NEW k \in Job, NEW i \in Instance, ClaimJob(w, k, i)
      PROVE  Moves(k)
  BY <1>2 DEF ClaimJob, Claimable, Moves, Open
<1>3. ASSUME NEW w \in Worker, FinishJob(w) PROVE \E k \in Job : Moves(k)
  <2>1. Pc(w) # "idle" /\ IsOpen(job[w])
    BY <1>3 DEF FinishJob
  <2>2. PICK j \in Job : job[w] = j
    BY <2>1 DEF Extraction, Progress
  <2>3. PICK label \in Labels(w) : state' = [state EXCEPT ![j] = FinalState(j, label)]
    BY <1>3, <2>2 DEF FinishJob
  <2>4. FinalState(j, label) \in Open \cup Ends
    BY DEF FinalState, Labels, Open, Ends
  <2> QED BY <2>1, <2>2, <2>3, <2>4 DEF Moves
<1>4. ASSUME NEW w \in Worker,
             \/ \E i \in Instance : ReserveCall(w, i)
             \/ Dispatch(w) \/ SettleCall(w) \/ ValidateCandidates(w)
             \/ BeginProbe(w) \/ SkipProbe(w) \/ GiveUp(w) \/ Stop(w)
      PROVE  state' = state
  BY <1>4 DEF ReserveCall, Dispatch, SettleCall, ValidateCandidates,
     BeginProbe, SkipProbe, GiveUp, Stop
<1>5. CASE \E w \in Worker : WorkerStep(w)
  BY <1>2, <1>3, <1>4, <1>5, StoreStates, CommitStates DEF WorkerStep
<1>6. ASSUME NEW k \in Job, RecoverJobLease(k) PROVE Moves(k)
  <2>1. RecoveredState(k) \in Open \cup Ends
    BY DEF RecoveredState, Open, Ends
  <2> QED BY <1>6, <2>1 DEF RecoverJobLease, Moves
<1>7. ASSUME NEW k \in Job, TerminateJob(k) PROVE Moves(k)
  <2>1. CancelledState(k) \in Open \cup Ends
    BY DEF CancelledState, Ends
  <2> QED BY <1>7, <2>1 DEF TerminateJob, MustEnd, Moves
<1>8. ASSUME NEW k \in Job, FailRecovery(k) PROVE Moves(k)
  BY <1>8 DEF FailRecovery, Moves, Ends
<1>9. CASE CancelQuery \/ CancelJobs
  BY <1>9 DEF CancelQuery, CancelJobs, CancelOpenJobs, Cancels
<1>10. CASE \/ RecoverTerminalCalls \/ RecoverOwnedWork
            \/ \E s \in {"COMPLETED", "FAILED"} : EndRun(s)
            \/ \E w \in Worker, s \in Stage : ReconcileCall(w, s)
            \/ \E i \in Instance : StopInstance(i)
            \/ \E k \in Job : ExpireLease(k)
            \/ PassDeadline \/ LoseScope \/ Upgrade
            \/ UNCHANGED vars
  BY <1>10 DEF RecoverTerminalCalls, RecoverOwnedWork, EndRun, ReconcileCall,
       StopInstance, ExpireLease, PassDeadline, LoseScope, Upgrade, vars
<1>11. CASE Sweep
  BY <1>6, <1>7, <1>8, <1>10, <1>11 DEF Sweep
<1> QED BY <1>1, <1>5, <1>9, <1>10, <1>11 DEF Next


\* Only a reservation makes a call, and a worker with a call keeps its job.
LEMMA CalledBefore ==
    ASSUME TypeOK, Extraction, [Next]_vars, NEW v \in Worker, Called(v)',
           ~ \E i \in Instance : ReserveCall(v, i)
    PROVE  Called(v) /\ job'[v] = job[v]
<1> USE DEF runRow, world, lease, jobRow, batch, calls, work
<1>1. Called(v)
  <2>1. CASE ~ WorkerStep(v)
    BY <2>1, OthersUntouched DEF Untouched
  <2>2. CASE SettleCall(v)
    <3>1. PICK r \in Outcome(v) :
            callState' = [callState EXCEPT ![v][task[v].stage] = SettledState(@, r)]
      BY <2>2 DEF SettleCall
    <3>2. callState'[v]["extraction"] \in
            {callState[v]["extraction"], SettledState(callState[v]["extraction"], r)}
      BY <3>1 DEF TypeOK, Stage
    <3>3. SettledState("NONE", r) = "NONE"
      BY DEF SettledState
    <3> QED BY <3>2, <3>3 DEF Called
  <2>3. CASE WorkerStep(v) /\ ~ SettleCall(v)
    <3>1. callState' = callState
      BY <2>3 DEF WorkerStep, ClaimJob, Dispatch, StoreCandidates,
         ValidateCandidates, BeginProbe, SkipProbe, CommitExtraction, GiveUp,
         FinishJob, Stop
    <3> QED BY <3>1 DEF Called
  <2> QED BY <2>1, <2>2, <2>3
<1>2. Pc(v) # "idle"
  BY <1>1 DEF Extraction, Progress
<1>3. job'[v] = job[v]
  <2>1. CASE ~ Claims
    BY <2>1, NoClaim
  <2>2. CASE Claims
    <3>1. PICK u \in Worker, k \in Job, i \in Instance : ClaimJob(u, k, i)
      BY <2>2 DEF Claims
    <3> QED BY <1>2, <3>1, AClaim
  <2> QED BY <2>1, <2>2
<1> QED BY <1>1, <1>3

\* A job's extraction is made once.
LEMMA SoleStep ==
    ASSUME TypeOK, Extraction, [Next]_vars, NEW j \in Job,
           NEW w \in Worker, NEW v \in Worker,
           job'[w] = j, Called(w)', job'[v] = j, Called(v)'
    PROVE  w = v
<1> USE DEF runRow, world, lease, jobRow, batch, calls, work
<1>1. ASSUME NEW x \in Worker, NEW y \in Worker, x # y,
             job'[x] = j, Called(x)', job'[y] = j, Called(y)',
             NEW i \in Instance, ReserveCall(x, i)
      PROVE  FALSE
  <2>1. job' = job /\ callState' = [callState EXCEPT ![x][task[x].stage] = "RESERVED"]
        /\ StageAdmits(job[x], task[x].stage)
    BY <1>1 DEF ReserveCall
  <2>2. Called(y) /\ job[y] = j /\ job[x] = j
    BY <1>1, <2>1 DEF Called, TypeOK
  <2>3. ~ Called(x)
    BY <1>1, <2>2 DEF Extraction, OneExtraction
  <2>4. task[x].stage = "extraction"
    BY <1>1, <2>1, <2>3 DEF Called, TypeOK
  <2>5. <<y, "extraction">> \in StageCalls(j, "extraction")
    BY <2>2 DEF Called, StageCalls, CallsOf, Stage
  <2> QED BY <2>1, <2>2, <2>4, <2>5 DEF StageAdmits
<1>2. CASE (\E i \in Instance : ReserveCall(w, i)) \/ (\E i \in Instance : ReserveCall(v, i))
  BY <1>1, <1>2
<1>3. CASE ~ (\E i \in Instance : ReserveCall(w, i)) /\ ~ (\E i \in Instance : ReserveCall(v, i))
  <2>1. Called(w) /\ job[w] = j /\ Called(v) /\ job[v] = j
    BY <1>3, CalledBefore
  <2> QED BY <2>1 DEF Extraction, OneExtraction
<1> QED BY <1>2, <1>3

\* The result of a job is stored once.
LEMMA RawSteps ==
    ASSUME TypeOK, [Next]_vars
    PROVE  \/ raw' = raw
           \/ \E w \in Worker : StoreCandidates(w)
<1> USE DEF runRow, world, lease, jobRow, batch, calls, work
<1>1. ASSUME NEW w \in Worker, WorkerStep(w), ~ StoreCandidates(w) PROVE raw' = raw
  BY <1>1 DEF WorkerStep, ClaimJob, ReserveCall, Dispatch, SettleCall,
     ValidateCandidates, BeginProbe, SkipProbe, CommitExtraction, GiveUp,
     FinishJob, Stop
<1>2. ASSUME ~ \E w \in Worker : WorkerStep(w) PROVE raw' = raw
  BY <1>2 DEF Next, CreateJob, EndRun, CancelQuery, CancelJobs, CancelOpenJobs,
     Sweep, RecoverJobLease, TerminateJob, FailRecovery, RecoverTerminalCalls,
     RecoverOwnedWork, ReconcileCall, StopInstance, ExpireLease, PassDeadline,
     LoseScope, Upgrade, vars
<1> QED BY <1>1, <1>2

\* Reports are made of unpublished batches, publications are final.
LEMMA ReportSteps ==
    ASSUME TypeOK, [Next]_vars, NEW j \in Job
    PROVE  /\ published[j] => published'[j] /\ report'[j] = report[j]
           /\ report'[j] = "some" => report[j] = "some" \/ raw[j] = "content"
<1> USE DEF runRow, world, lease, jobRow, batch, calls, work
<1>1. ASSUME NEW w \in Worker, ValidateCandidates(w)
      PROVE  /\ published' = published
             /\ report'[j] # report[j] => ~ published[j] /\ report'[j] \in Verdicts(j)
  BY <1>1 DEF ValidateCandidates, TypeOK
<1>2. ASSUME NEW w \in Worker, WorkerStep(w), ~ ValidateCandidates(w)
      PROVE  report' = report /\ (published[j] => published'[j])
  <2>1. CASE CommitExtraction(w)
    BY <2>1 DEF CommitExtraction, TypeOK
  <2>2. CASE ~ CommitExtraction(w)
    BY <1>2, <2>2 DEF WorkerStep, ClaimJob, ReserveCall, Dispatch, SettleCall,
     StoreCandidates, BeginProbe, SkipProbe, GiveUp, FinishJob, Stop
  <2> QED BY <2>1, <2>2
<1>3. ASSUME ~ \E w \in Worker : WorkerStep(w)
      PROVE  report' = report /\ published' = published
  BY <1>3 DEF Next, CreateJob, EndRun, CancelQuery, CancelJobs, CancelOpenJobs,
     Sweep, RecoverJobLease, TerminateJob, FailRecovery, RecoverTerminalCalls,
     RecoverOwnedWork, ReconcileCall, StopInstance, ExpireLease, PassDeadline,
     LoseScope, Upgrade, vars
<1>4. "some" \in Verdicts(j) => raw[j] = "content"
  BY DEF Verdicts
<1> QED BY <1>1, <1>2, <1>3, <1>4

LEMMA RawStays ==
    ASSUME TypeOK, Extraction, [Next]_vars, NEW j \in Job, raw[j] = "content"
    PROVE  raw'[j] = "content"
<1>1. ASSUME NEW w \in Worker, StoreCandidates(w) PROVE raw'[j] = "content"
  <2>1. /\ raw[job[w]] \in {None, task[w].answer}
        /\ raw' = [raw EXCEPT ![job[w]] = task[w].answer]
    BY <1>1 DEF StoreCandidates
  <2>2. "content" # None
    BY JobAssumption
  <2> QED BY <2>1, <2>2 DEF TypeOK
<1> QED BY <1>1, RawSteps

LEMMA OneExtractionStep ==
    ASSUME TypeOK, Extraction, [Next]_vars, NEW j \in Job
    PROVE  OneExtraction(j)'
<1>1. \A w, v \in Worker : job'[w] = j /\ Called(w)' /\ job'[v] = j /\ Called(v)' => w = v
  BY SoleStep
<1>2. OneExtraction(j)
  BY DEF Extraction
<1>3. state'[j] = "NONE" => state[j] = "NONE"
  <2>1. ASSUME NEW k \in Job, Creates(k) \/ Moves(k) \/ Publishes(k)
        PROVE  state'[j] = state[j] \/ state'[j] # "NONE"
    BY <2>1 DEF Creates, Moves, Publishes, Open, Ends, TypeOK
  <2>2. CASE Cancels
    BY <2>2 DEF Cancels, CancelledState
  <2>3. CASE state' = state
    BY <2>3
  <2> QED BY <2>1, <2>2, <2>3, StateSteps
<1>4. state'[j] = "NONE" => \A w \in Worker : job'[w] # j
  <2> SUFFICES ASSUME state'[j] = "NONE", NEW w \in Worker PROVE job'[w] # j
    OBVIOUS
  <2>1. job[w] # j
    BY <1>2, <1>3 DEF OneExtraction
  <2>2. CASE ~ Claims
    BY <2>1, <2>2, NoClaim
  <2>3. CASE Claims
    <3>1. PICK u \in Worker, k \in Job, i \in Instance : ClaimJob(u, k, i)
      BY <2>3 DEF Claims
    <3>2. k # j
      BY <1>3, <3>1 DEF ClaimJob, Claimable, IsOpen, Open
    <3> QED BY <2>1, <3>1, <3>2, AClaim
  <2> QED BY <2>2, <2>3
<1>5. state'[j] = "COMMITTED" => published'[j] /\ report'[j] = "some"
  <2> SUFFICES ASSUME state'[j] = "COMMITTED" PROVE published'[j] /\ report'[j] = "some"
    OBVIOUS
  <2>1. state[j] = "COMMITTED" \/ Publishes(j)
    BY StateSteps DEF Creates, Moves, Publishes, Cancels, CancelledState, Open, Ends, TypeOK
  <2>2. CASE state[j] = "COMMITTED"
    BY <1>2, <2>2, ReportSteps DEF OneExtraction
  <2>3. CASE Publishes(j)
    BY <2>3 DEF Publishes
  <2> QED BY <2>1, <2>2, <2>3
<1>6. report'[j] = "some" => raw'[j] = "content"
  BY <1>2, ReportSteps, RawStays DEF OneExtraction
<1> QED BY <1>1, <1>4, <1>5, <1>6 DEF OneExtraction

LEMMA ExtractionStep ==
    ASSUME TypeOK, Extraction, [Next]_vars
    PROVE  Extraction'
BY ProgressStep, OneExtractionStep DEF Extraction

-----------------------------------------------------------------------------
(* Refinement *)

Phases == [j \in Job |-> Phase(j)]
Counts == [j \in Job |-> Requests(j)]

\* A job has sent no extraction request, or one.
LEMMA RequestCount ==
    ASSUME Extraction, NEW j \in Job
    PROVE  /\ Senders(j) = {} => Requests(j) = 0
           /\ Senders(j) # {} => Requests(j) = 1
<1>1. Requests(j) = Cardinality(Senders(j))
  BY DEF Requests, Senders, Sent
<1>2. \A w, v \in Senders(j) : w = v
  BY DEF Senders, Extraction, Progress, OneExtraction
<1>3. CASE Senders(j) = {}
  BY <1>1, <1>3, FS_EmptySet
<1>4. ASSUME NEW w \in Senders(j) PROVE Requests(j) = 1
  <2>1. Senders(j) = {w}
    BY <1>2
  <2> QED BY <1>1, <2>1, FS_Singleton
<1> QED BY <1>3, <1>4

\* Requests are counted when they leave.
LEMMA SendersSame ==
    ASSUME TypeOK, Extraction, [Next]_vars, NEW j \in Job,
           ~ \E w \in Worker : Dispatch(w) /\ job[w] = j /\ task[w].stage = "extraction"
    PROVE  Senders(j)' = Senders(j)
<1> USE DEF runRow, world, lease, jobRow, batch, calls, work
<1>1. Senders(j) \subseteq Senders(j)'
  BY SendersStay
<1>2. ASSUME NEW w \in Worker, job'[w] = j, Sent(w)' PROVE job[w] = j /\ Sent(w)
  <2>1. Sent(w) \/ (Dispatch(w) /\ task[w].stage = "extraction")
    <3>1. CASE ~ WorkerStep(w)
      BY <1>2, <3>1, OthersUntouched DEF Untouched, Sent
    <3>2. CASE Dispatch(w)
      BY <1>2, <3>2 DEF Dispatch, Sent, TypeOK
    <3>3. CASE WorkerStep(w) /\ ~ Dispatch(w)
      <4>1. sent' = sent
        BY <3>3 DEF WorkerStep, ClaimJob, ReserveCall, SettleCall,
           StoreCandidates, ValidateCandidates, BeginProbe, SkipProbe,
           CommitExtraction, GiveUp, FinishJob, Stop
      <4> QED BY <1>2, <4>1 DEF Sent
    <3> QED BY <3>1, <3>2, <3>3
  <2>2. Pc(w) # "idle"
    BY <2>1 DEF Extraction, Progress, Dispatch
  <2>3. job'[w] = job[w]
    <3>1. CASE ~ Claims
      BY <3>1, NoClaim
    <3>2. CASE Claims
      <4>1. PICK u \in Worker, k \in Job, i \in Instance : ClaimJob(u, k, i)
        BY <3>2 DEF Claims
      <4> QED BY <2>2, <4>1, AClaim
    <3> QED BY <3>1, <3>2
  <2> QED BY <1>2, <2>1, <2>3
<1>3. Senders(j)' \subseteq Senders(j)
  BY <1>2 DEF Senders
<1> QED BY <1>1, <1>3

LEMMA CountsSame ==
    ASSUME TypeOK, Extraction, [Next]_vars,
           ~ \E w \in Worker : Dispatch(w) /\ task[w].stage = "extraction"
    PROVE  Counts' = Counts
<1>1. \A j \in Job : Senders(j)' = Senders(j)
  BY SendersSame
<1>2. \A j \in Job : Requests(j)' = Requests(j)
  BY <1>1 DEF Requests, Senders, Sent
<1> QED BY <1>2 DEF Counts


LEMMA PhasesOf ==
    ASSUME TypeOK
    PROVE  /\ \A j \in Job : Phases[j] = Phase(j)
           /\ \A j \in Job : IsOpen(j) <=> Phase(j) = "open"
BY DEF Phases, Phase, IsOpen, Open, TypeOK, Terminal

\* One job changes its state.
LEMMA PhaseOfOne ==
    ASSUME TypeOK, NEW k \in Job, NEW x, state' = [state EXCEPT ![k] = x]
    PROVE  Phases' = [Phases EXCEPT ![k] =
              CASE x = "NONE" -> "absent" [] x \in Open -> "open"
                [] x = "COMMITTED" -> "published" [] OTHER -> "ended"]
<1>1. \A j \in Job : state'[j] = IF j = k THEN x ELSE state[j]
  BY DEF TypeOK
<1>2. \A j \in Job : j # k => Phase(j)' = Phase(j)
  BY <1>1 DEF Phase
<1>3. Phase(k)' = CASE x = "NONE" -> "absent" [] x \in Open -> "open"
                    [] x = "COMMITTED" -> "published" [] OTHER -> "ended"
  BY <1>1 DEF Phase
<1> QED BY <1>2, <1>3 DEF Phases

LEMMA DispatchStep ==
    ASSUME TypeOK, Extraction, [Next]_vars, NEW w \in Worker, Dispatch(w),
           task[w].stage = "extraction"
    PROVE  Abstract!Next
<1>1. Pc(w) = "admitted"
  BY DEF Dispatch
<1>2. PICK j \in Job : job[w] = j
  BY <1>1 DEF Extraction, Progress
<1>3. Senders(j) = {}
  <2>1. Called(w) /\ ~ Sent(w)
    BY <1>1 DEF Extraction, Progress
  <2>2. \A v \in Senders(j) : v = w
    BY <1>2, <2>1 DEF Senders, Extraction, Progress, OneExtraction
  <2> QED BY <2>1, <2>2 DEF Senders
<1>4. w \in Senders(j)'
  BY <1>2 DEF Dispatch, Senders, Sent, TypeOK
<1>5. Requests(j) = 0 /\ Requests(j)' = 1
  <2>1. Requests(j) = 0
    BY <1>3, RequestCount
  <2>2. Requests(j)' = 1
    <3>1. Extraction'
      BY ExtractionStep
    <3>2. Senders(j)' = {w}
      BY <1>4, <3>1 DEF Senders, Extraction, Progress, OneExtraction
    <3>3. Requests(j)' = Cardinality(Senders(j)')
      BY DEF Requests, Senders, Sent
    <3> QED BY <3>2, <3>3, FS_Singleton
  <2> QED BY <2>1, <2>2
<1>6. \A k \in Job : k # j => Requests(k)' = Requests(k)
  <2> SUFFICES ASSUME NEW k \in Job, k # j PROVE Requests(k)' = Requests(k)
    OBVIOUS
  <2>1. sent' = [sent EXCEPT ![w] = @ \cup {task[w].stage}] /\ job' = job
    BY DEF Dispatch
  <2>2. \A v \in Worker : job[v] = k => sent'[v] = sent[v]
    BY <1>2, <2>1 DEF TypeOK
  <2>3. {v \in Worker : job'[v] = k /\ "extraction" \in sent'[v]}
          = {v \in Worker : job[v] = k /\ "extraction" \in sent[v]}
    BY <2>1, <2>2
  <2> QED BY <2>3 DEF Requests
<1>7. Counts' = [Counts EXCEPT ![j] = 1]
  BY <1>5, <1>6 DEF Counts
<1>8. state' = state /\ raw' = raw
  BY DEF Dispatch, jobRow, batch
<1>9. Phases' = Phases
  BY <1>8 DEF Phases, Phase
<1>10. Phases[j] # "absent"
  BY <1>2 DEF Phases, Phase, Extraction, OneExtraction, Open
<1>11. Abstract!Request(j)
  BY <1>5, <1>7, <1>8, <1>9, <1>10 DEF Abstract!Request, Phases, Counts
<1> QED BY <1>11 DEF Abstract!Next

LEMMA StoreStep ==
    ASSUME TypeOK, Extraction, [Next]_vars, NEW w \in Worker, StoreCandidates(w),
           Counts' = Counts
    PROVE  Abstract!Next \/ UNCHANGED <<Phases, Counts, raw>>
<1>1. /\ Pc(w) \in {"store", "store_failure"}
      /\ state[job[w]] \notin Ends
      /\ raw[job[w]] \in {None, task[w].answer}
      /\ raw' = [raw EXCEPT ![job[w]] = task[w].answer]
      /\ state' = [state EXCEPT ![job[w]] =
                     IF HasCandidates(job[w]) THEN @ ELSE "RESULT_READY"]
  BY DEF StoreCandidates, JobTransaction, ValidateJob, Ends
<1>2. PICK j \in Job : job[w] = j
  BY <1>1 DEF Extraction, Progress
<1>3. PICK a \in Result : a = task[w].answer
  BY Fields DEF Task
<1>4. CASE HasCandidates(j)
  <2>1. raw' = raw /\ state' = state
    BY <1>1, <1>2, <1>4 DEF HasCandidates, TypeOK
  <2>2. Phases' = Phases
    BY <2>1 DEF Phases, Phase
  <2> QED BY <2>1, <2>2
<1>5. CASE ~ HasCandidates(j)
  <2>1. state[j] # "NONE" /\ state[j] # "COMMITTED"
    BY <1>2, <1>5, JobAssumption DEF Extraction, OneExtraction, HasCandidates
  <2>2. state[j] \in Open
    BY <1>1, <1>2, <2>1 DEF TypeOK, Terminal, Ends
  <2>3. Phase(j) = "open"
    BY <2>2 DEF Phase, Open
  <2>4. state' = [state EXCEPT ![j] = "RESULT_READY"]
    BY <1>1, <1>2, <1>5
  <2>5. Phases' = [Phases EXCEPT ![j] = "open"]
    BY <2>4, PhaseOfOne DEF Open
  <2>6. Phases' = Phases
    BY <2>3, <2>5 DEF Phases
  <2>7. raw[j] = None /\ raw' = [raw EXCEPT ![j] = a]
    BY <1>1, <1>2, <1>3, <1>5 DEF HasCandidates
  <2>8. CASE a = None
    <3>1. raw' = raw
      BY <2>7, <2>8 DEF TypeOK
    <3> QED BY <2>6, <3>1
  <2>9. CASE a # None
    <3>1. a = "content" => Counts[j] = 1
      <4>1. a = "content" => Senders(j) # {}
        BY <1>2, <1>3 DEF Extraction, Progress
      <4> QED BY <4>1, RequestCount DEF Counts
    <3>2. a \in {"failed"} \cup (IF Counts[j] = 1 THEN {"content"} ELSE {})
      BY <2>9, <3>1 DEF Result
    <3>3. Phases[j] = "open"
      BY <2>3 DEF Phases
    <3>4. Abstract!Record(j)
      BY <2>6, <2>7, <3>2, <3>3 DEF Abstract!Record, Phases, Counts
    <3> QED BY <3>4 DEF Abstract!Next
  <2> QED BY <2>8, <2>9
<1> QED BY <1>4, <1>5

\* A step that neither sends nor stores creates, publishes or ends jobs.
LEMMA PhaseStep ==
    ASSUME TypeOK, Extraction, [Next]_vars, Counts' = Counts, raw' = raw
    PROVE  Abstract!Next \/ UNCHANGED <<Phases, Counts, raw>>
<1>1. ASSUME NEW k \in Job, Creates(k) PROVE Abstract!Next
  <2>1. Phases' = [Phases EXCEPT ![k] = "open"]
    BY <1>1, PhaseOfOne DEF Creates, Open
  <2>2. Phases[k] = "absent"
    BY <1>1 DEF Creates, Phases, Phase, Open
  <2>3. Abstract!Create(k)
    BY <2>1, <2>2 DEF Abstract!Create, Phases, Counts
  <2> QED BY <2>3 DEF Abstract!Next
<1>2. ASSUME NEW k \in Job, Moves(k)
      PROVE  Abstract!Next \/ UNCHANGED <<Phases, Counts, raw>>
  <2>1. PICK x \in Open \cup Ends : state' = [state EXCEPT ![k] = x]
    BY <1>2 DEF Moves
  <2>2. Phases[k] = "open" /\ Phases = [j \in Job |-> Phases[j]]
    BY <1>2, PhasesOf DEF Moves, Phases
  <2>3. CASE x \in Open
    <3>1. Phases' = [Phases EXCEPT ![k] = "open"]
      BY <2>1, <2>3, PhaseOfOne DEF Open
    <3>2. Phases' = Phases
      BY <2>2, <3>1
    <3> QED BY <3>2
  <2>4. CASE x \in Ends
    <3>1. Phases' = [Phases EXCEPT ![k] = "ended"]
      BY <2>1, <2>4, PhaseOfOne DEF Open, Ends
    <3>2. Phases' = [j \in Job |-> IF j \in {k} THEN "ended" ELSE Phases[j]]
      BY <2>2, <3>1
    <3>3. Abstract!End({k})
      BY <2>2, <3>2 DEF Abstract!End, Phases, Counts
    <3> QED BY <3>3 DEF Abstract!Next
  <2> QED BY <2>3, <2>4
<1>3. ASSUME NEW k \in Job, Publishes(k)
      PROVE  Abstract!Next \/ UNCHANGED <<Phases, Counts, raw>>
  <2>1. Phases' = [Phases EXCEPT ![k] = "published"]
    BY <1>3, PhaseOfOne DEF Publishes, Open
  <2>2. Phases = [j \in Job |-> Phases[j]]
    BY DEF Phases
  <2>3. CASE state[k] = "COMMITTED"
    <3>1. Phases[k] = "published"
      BY <2>3 DEF Phases, Phase, Open
    <3>2. Phases' = Phases
      BY <2>1, <2>2, <3>1
    <3> QED BY <3>2
  <2>4. CASE state[k] # "COMMITTED"
    <3>1. Phases[k] = "open"
      BY <1>3, <2>4 DEF Publishes, Phases, Phase, Open
    <3>2. raw[k] = "content"
      BY <1>3 DEF Publishes, Extraction, OneExtraction
    <3>3. Abstract!Publish(k)
      BY <2>1, <3>1, <3>2 DEF Abstract!Publish, Phases, Counts
    <3> QED BY <3>3 DEF Abstract!Next
  <2> QED BY <1>3, <2>3, <2>4 DEF Publishes
<1>4. CASE Cancels
  <2> DEFINE S == {j \in Job : IsOpen(j)}
  <2>1. \A j \in Job : Phase(j)' = IF IsOpen(j) THEN "ended" ELSE Phase(j)
    <3>1. \A j \in Job : state'[j] = IF IsOpen(j) THEN CancelledState(j) ELSE state[j]
      BY <1>4 DEF Cancels
    <3>2. \A j \in Job : CancelledState(j) \in {"OUTCOME_UNKNOWN", "SKIPPED"}
      BY DEF CancelledState
    <3> QED BY <3>1, <3>2 DEF Phase, Open
  <2>2. Phases' = [j \in Job |-> IF j \in S THEN "ended" ELSE Phases[j]]
    BY <2>1 DEF Phases
  <2>3. \A j \in S : Phases[j] = "open"
    BY PhasesOf
  <2>4. CASE S = {}
    <3>1. Phases' = Phases
      BY <2>2, <2>4 DEF Phases
    <3> QED BY <3>1
  <2>5. CASE S # {}
    <3> HIDE DEF S
    <3>1. Abstract!End(S)
      BY <2>2, <2>3, <2>5 DEF Abstract!End, Phases, Counts
    <3>2. S \in SUBSET Job
      BY DEF S
    <3> QED BY <3>1, <3>2 DEF Abstract!Next
  <2> QED BY <2>4, <2>5
<1>5. CASE state' = state
  BY <1>5 DEF Phases, Phase
<1> QED BY <1>1, <1>2, <1>3, <1>4, <1>5, StateSteps

LEMMA DurableInit == Init => Abstract!Init
<1> SUFFICES ASSUME Init PROVE Abstract!Init
  OBVIOUS
<1>1. \A j \in Job : Phase(j) = "absent"
  BY DEF Init, Phase, Open
<1>2. \A j \in Job : Requests(j) = 0
  <2>1. \A j \in Job : Senders(j) = {}
    BY DEF Init, Senders, Sent
  <2> QED BY <2>1, ExtractionInit, RequestCount
<1>3. raw = [j \in Job |-> None]
  BY DEF Init
<1> QED BY <1>1, <1>2, <1>3 DEF Abstract!Init

LEMMA DurableStep ==
    ASSUME TypeOK, Extraction, [Next]_vars
    PROVE  [Abstract!Next]_Abstract!vars
<1>1. CASE \E w \in Worker : Dispatch(w) /\ task[w].stage = "extraction"
  BY <1>1, DispatchStep
<1>2. CASE ~ \E w \in Worker : Dispatch(w) /\ task[w].stage = "extraction"
  <2>1. Counts' = Counts
    BY <1>2, CountsSame
  <2>2. Abstract!Next \/ UNCHANGED <<Phases, Counts, raw>>
    BY <2>1, RawSteps, StoreStep, PhaseStep
  <2> QED BY <2>2 DEF Abstract!vars, Phases, Counts
<1> QED BY <1>1, <1>2

\* A job keeps the promise of DurableJob for any number of workers, instances
\* and mishaps: one extraction request, one result, one ending.
THEOREM Durable == Spec => ImplementsDurableJob
<1>1. TypeOK /\ Extraction /\ [Next]_vars => Extraction'
  BY ExtractionStep
<1>2. TypeOK /\ Extraction /\ [Next]_vars => [Abstract!Next]_Abstract!vars
  BY DurableStep
<1> QED BY <1>1, <1>2, ExtractionInit, DurableInit, TypeCorrect, PTL
       DEF Spec, ImplementsDurableJob, Abstract!Spec


-----------------------------------------------------------------------------
(* Probes *)

Probed(w) == callState[w]["probe"] # "NONE"
Answered(w) == callState[w]["probe"] = "SETTLED" /\ "probe" \in recorded[w]

\* A worker about to probe for the job it holds has seen an answer to every
\* call of the round; so one call at most is without.
ProbeInv ==
    /\ \A w \in Worker :
          /\ Pc(w) = "idle" => ~ Probed(w)
          /\ Pc(w) = "extract" => task[w].stage = "extraction"
          /\ Pc(w) = "probe" /\ Holds(w) =>
                \A v \in Worker : job[v] = job[w] /\ Probed(v) => Answered(v)
    /\ \A w \in Worker : job[w] \in Job /\ probeRound[job[w]] = 0 => ~ Probed(w)
    /\ \A w, v \in Worker :
          w # v /\ job[w] = job[v] /\ Probed(w) /\ Probed(v) => Answered(w) \/ Answered(v)

ReservesProbe(w) ==
    (\E i \in Instance : ReserveCall(w, i)) /\ task[w].stage = "probe"

\* Answers stay, and only a reservation makes a probe call.
LEMMA ProbeSteps ==
    ASSUME TypeOK, [Next]_vars, NEW v \in Worker, ~ ReservesProbe(v)
    PROVE  (Probed(v)' => Probed(v)) /\ (Answered(v) => Answered(v)')
<1> USE DEF runRow, world, lease, jobRow, batch, calls, work
<1>1. ASSUME NEW w \in Worker, NEW i \in Instance, ReserveCall(w, i)
      PROVE  callState'[v]["probe"] = callState[v]["probe"] /\ recorded' = recorded
  <2>1. /\ callState' = [callState EXCEPT ![w][task[w].stage] = "RESERVED"]
        /\ recorded' = recorded
    BY <1>1 DEF ReserveCall
  <2>2. w # v \/ task[w].stage # "probe"
    BY <1>1 DEF ReservesProbe
  <2> QED BY <2>1, <2>2 DEF TypeOK, Stage
<1>2. ASSUME NEW w \in Worker, SettleCall(w)
      PROVE  (Probed(v)' => Probed(v)) /\ (Answered(v) => Answered(v)')
  <2>1. PICK r \in Outcome(w) :
          /\ callState' = [callState EXCEPT ![w][task[w].stage] = SettledState(@, r)]
          /\ recorded' = IF r = "content"
                              /\ callState[w][task[w].stage] = "RESERVED"
                           THEN [recorded EXCEPT ![w] = @ \cup {task[w].stage}]
                           ELSE recorded
    BY <1>2 DEF SettleCall
  <2>2. callState'[v]["probe"] \in
          {callState[v]["probe"], SettledState(callState[v]["probe"], r)}
    BY <2>1 DEF TypeOK, Stage
  <2>3. SettledState("NONE", r) = "NONE" /\ SettledState("SETTLED", r) = "SETTLED"
    BY DEF SettledState
  <2>4. recorded[v] \subseteq recorded'[v]
    BY <2>1 DEF TypeOK
  <2> QED BY <2>2, <2>3, <2>4 DEF Probed, Answered
<1>3. ASSUME NEW w \in Worker, WorkerStep(w), ~ SettleCall(w),
             ~ \E i \in Instance : ReserveCall(w, i)
      PROVE  callState' = callState /\ recorded' = recorded
  BY <1>3 DEF WorkerStep, ClaimJob, Dispatch, StoreCandidates,
     ValidateCandidates, BeginProbe, SkipProbe, CommitExtraction, GiveUp,
     FinishJob, Stop
<1>4. CASE \E w \in Worker : WorkerStep(w)
  BY <1>1, <1>2, <1>3, <1>4 DEF Probed, Answered
<1>5. CASE Sweep
  <2>1. recorded' = recorded /\ (callState' = callState \/ \E S : MarkUnknown(S))
    BY <1>5 DEF Sweep, RecoverJobLease, TerminateJob, FailRecovery,
         RecoverTerminalCalls, RecoverOwnedWork
  <2>2. ASSUME NEW S, MarkUnknown(S)
        PROVE  \/ callState'[v]["probe"] = callState[v]["probe"]
               \/ callState[v]["probe"] = "RESERVED"
    BY <2>2 DEF MarkUnknown, Stage
  <2> QED BY <2>1, <2>2 DEF Probed, Answered
<1>6. ASSUME NEW w \in Worker, NEW s \in Stage, ReconcileCall(w, s)
      PROVE  (Probed(v)' => Probed(v)) /\ (Answered(v) => Answered(v)')
  <2>1. \/ callState'[v]["probe"] = callState[v]["probe"]
        \/ callState[v]["probe"] = "UNKNOWN"
    BY <1>6 DEF ReconcileCall, Stage, TypeOK
  <2>2. recorded' = recorded
    BY <1>6 DEF ReconcileCall
  <2> QED BY <2>1, <2>2 DEF Probed, Answered
<1>7. CASE \/ \E j \in Job : CreateJob(j)
           \/ \E s \in {"COMPLETED", "FAILED"} : EndRun(s)
           \/ CancelQuery \/ CancelJobs
           \/ \E i \in Instance : StopInstance(i)
           \/ \E j \in Job : ExpireLease(j)
           \/ PassDeadline \/ LoseScope \/ Upgrade
           \/ UNCHANGED vars
  <2>1. recorded' = recorded /\ callState' = callState
    BY <1>7 DEF CreateJob, EndRun, CancelQuery, CancelJobs, CancelOpenJobs,
         StopInstance, ExpireLease, PassDeadline, LoseScope, Upgrade, vars
  <2> QED BY <2>1 DEF Probed, Answered
<1> QED BY <1>4, <1>5, <1>6, <1>7 DEF Next

\* A round is opened once.
LEMMA RoundStays ==
    ASSUME TypeOK, [Next]_vars, NEW j \in Job, probeRound'[j] = 0
    PROVE  probeRound[j] = 0
<1> USE DEF runRow, world, lease, jobRow, batch, calls, work
<1>1. ASSUME NEW w \in Worker, BeginProbe(w) PROVE probeRound[j] = 0
  <2>1. probeRound' = [probeRound EXCEPT ![job[w]] = 1]
    BY <1>1 DEF BeginProbe
  <2>2. probeRound'[j] = IF j = job[w] THEN 1 ELSE probeRound[j]
    BY <2>1 DEF TypeOK
  <2> QED BY <2>2
<1>2. ASSUME NEW w \in Worker, WorkerStep(w), ~ BeginProbe(w) PROVE probeRound' = probeRound
  BY <1>2 DEF WorkerStep, ClaimJob, ReserveCall, Dispatch, SettleCall,
     StoreCandidates, ValidateCandidates, SkipProbe, CommitExtraction, GiveUp,
     FinishJob, Stop
<1>3. ASSUME ~ \E w \in Worker : WorkerStep(w) PROVE probeRound' = probeRound
  BY <1>3 DEF Next, CreateJob, EndRun, CancelQuery, CancelJobs, CancelOpenJobs,
     Sweep, RecoverJobLease, TerminateJob, FailRecovery, RecoverTerminalCalls,
     RecoverOwnedWork, ReconcileCall, StopInstance, ExpireLease, PassDeadline,
     LoseScope, Upgrade, vars
<1> QED BY <1>1, <1>2, <1>3

\* A worker that is not idle keeps its job.
LEMMA JobStays ==
    ASSUME TypeOK, [Next]_vars, NEW v \in Worker, Pc(v) # "idle"
    PROVE  job'[v] = job[v]
<1>1. CASE ~ Claims
  BY <1>1, NoClaim
<1>2. CASE Claims
  <2>1. PICK u \in Worker, k \in Job, i \in Instance : ClaimJob(u, k, i)
    BY <1>2 DEF Claims
  <2> QED BY <2>1, AClaim
<1> QED BY <1>1, <1>2

\* Where a probe is reserved.
LEMMA ReserveProbe ==
    ASSUME TypeOK, Tokens, ProbeInv, NEW w \in Worker, ReservesProbe(w)
    PROVE  /\ Pc(w) = "probe" /\ Holds(w) /\ task'[w].pc # "probe"
           /\ task'[w].pc # "idle"
           /\ job' = job /\ recorded' = recorded
           /\ job[w] \in Job /\ probeRound[job[w]] = 1 /\ probeRound' = probeRound
           /\ \A v \in Worker : v # w => callState'[v] = callState[v]
<1>1. PICK i \in Instance : ReserveCall(w, i)
  BY DEF ReservesProbe
<1>2. /\ Pc(w) \in {"extract", "probe"} /\ Holds(w)
      /\ StageAdmits(job[w], task[w].stage)
      /\ Reply(w, At(w, "admitted"))
      /\ job' = job /\ recorded' = recorded /\ probeRound' = probeRound
      /\ callState' = [callState EXCEPT ![w][task[w].stage] = "RESERVED"]
  BY <1>1 DEF ReserveCall, ValidateJob, batch
<1>3. task[w].stage = "probe"
  BY DEF ReservesProbe
<1>4. Pc(w) = "probe"
  BY <1>2, <1>3 DEF ProbeInv
<1>5. job[w] \in Job /\ probeRound[job[w]] = 1
  BY <1>2, <1>3, <1>4 DEF Tokens, StageAdmits
<1>6. task'[w].pc \in {"admitted", "finish"}
  <2>1. task'[w] = At(w, "admitted") \/ task'[w] = Failing(w)
    BY <1>2, AfterReply
  <2> QED BY <2>1, Fields DEF Step
<1> QED BY <1>2, <1>4, <1>5, <1>6 DEF TypeOK

\* Whoever had a probe call before and after has kept its job.
LEMMA ProbedBefore ==
    ASSUME TypeOK, Tokens, ProbeInv, [Next]_vars, NEW v \in Worker, Probed(v)'
    PROVE  \/ ReservesProbe(v)
           \/ Probed(v) /\ job'[v] = job[v]
<1>1. CASE ~ ReservesProbe(v)
  <2>1. Probed(v)
    BY <1>1, ProbeSteps
  <2>2. Pc(v) # "idle"
    BY <2>1 DEF ProbeInv
  <2> QED BY <2>1, <2>2, JobStays
<1> QED BY <1>1

LEMMA ProbeWorker ==
    ASSUME TypeOK, Tokens, ProbeInv, [Next]_vars, NEW w \in Worker
    PROVE  /\ Pc(w)' = "idle" => ~ Probed(w)'
           /\ Pc(w)' = "extract" => task'[w].stage = "extraction"
<1>1. CASE ~ Claims
  <2>1. task'[w] = task[w] \/ task'[w].pc \notin {"idle", "extract"}
    <3>1. Keeps
      BY <1>1, NoClaim
    <3> QED BY <3>1, Fields DEF Keeps, Continues
  <2>2. CASE task'[w] = task[w]
    <3>1. Pc(w)' = "idle" => ~ Probed(w)'
      BY <2>2, ProbedBefore, ReserveProbe DEF ProbeInv, Pc
    <3> QED BY <2>2, <3>1 DEF ProbeInv, Pc
  <2> QED BY <2>1, <2>2 DEF Pc
<1>2. CASE Claims
  <2>1. PICK u \in Worker, k \in Job, i \in Instance : ClaimJob(u, k, i)
    BY <1>2 DEF Claims
  <2>2. CASE w = u
    BY <2>1, <2>2, AClaim DEF Pc
  <2>3. CASE w # u
    <3>1. task'[w] = task[w]
      BY <2>1, <2>3, AClaim
    <3>2. Pc(w)' = "idle" => ~ Probed(w)'
      BY <3>1, ProbedBefore, ReserveProbe DEF ProbeInv, Pc
    <3> QED BY <3>1, <3>2 DEF ProbeInv, Pc
  <2> QED BY <2>2, <2>3
<1> QED BY <1>1, <1>2

\* Between its BeginProbe and its reservation nobody probes for the holder's job.
LEMMA ProbeHolder ==
    ASSUME TypeOK, Tokens, ProbeInv, [Next]_vars,
           NEW w \in Worker, Pc(w)' = "probe", Holds(w)',
           NEW v \in Worker, job'[v] = job'[w], Probed(v)'
    PROVE  Answered(v)'
<1>1. BeginProbe(w) \/ (task'[w] = task[w] /\ Pc(w) = "probe")
  <2>1. CASE ~ Claims
    <3>1. Keeps
      BY <2>1, NoClaim
    <3>2. task'[w] # Done
      BY Fields DEF Pc
    <3> QED BY <3>1, <3>2 DEF Keeps, Continues, Pc
  <2>2. CASE Claims
    <3>1. PICK u \in Worker, k \in Job, i \in Instance : ClaimJob(u, k, i)
      BY <2>2 DEF Claims
    <3>2. w # u
      BY <3>1, AClaim DEF Pc
    <3> QED BY <3>1, <3>2, AClaim DEF Pc
  <2> QED BY <2>1, <2>2
<1>2. CASE BeginProbe(w)
  <2>1. /\ callState' = callState /\ recorded' = recorded /\ job' = job
        /\ Pc(w) = "doubt"
        /\ probeRound[job[w]] = 0 \/ ProbeAnswered(job[w])
    BY <1>2 DEF BeginProbe, calls
  <2>2. job[v] = job[w] /\ Probed(v) /\ job[w] \in Job
    BY <2>1 DEF Probed, Tokens
  <2>3. probeRound[job[w]] # 0
    BY <2>2 DEF ProbeInv
  <2>4. <<v, "probe">> \in StageCalls(job[w], "probe")
    BY <2>2 DEF Probed, StageCalls, CallsOf, Stage
  <2>5. HasContent(<<v, "probe">>)
    BY <2>1, <2>3, <2>4 DEF ProbeAnswered
  <2> QED BY <2>1, <2>5 DEF HasContent, Answered
<1>3. CASE task'[w] = task[w] /\ Pc(w) = "probe"
  <2>1. task[w].token # 0 /\ job[w] \in Job
    BY <1>3 DEF Tokens
  <2>2. job'[w] = job[w]
    BY <1>3, JobStays
  <2>3. Holds(w)
    <3>1. ~ Superseded(w)'
      BY DEF Superseded
    <3>2. ~ Superseded(w)
      BY <1>3, <3>1, LostForGood DEF Pc
    <3> QED BY <2>1, <3>2 DEF Superseded
  <2>4. ~ ReservesProbe(v)
    <3>1. ASSUME ReservesProbe(v) PROVE FALSE
      <4>1. /\ Holds(v) /\ task'[v].pc # "probe" /\ job' = job
        BY <3>1, ReserveProbe
      <4>2. v # w
        BY <4>1 DEF Pc
      <4>3. job[v] = job[w]
        BY <4>1
      <4> QED BY <2>3, <4>1, <4>2, <4>3 DEF Holds
    <3> QED BY <3>1
  <2>5. Probed(v) /\ job[v] = job[w]
    BY <2>2, <2>4, ProbedBefore
  <2>6. Answered(v)
    BY <1>3, <2>3, <2>5 DEF ProbeInv
  <2> QED BY <2>4, <2>6, ProbeSteps
<1> QED BY <1>1, <1>2, <1>3

LEMMA ProbeStep ==
    ASSUME TypeOK, Tokens, ProbeInv, [Next]_vars
    PROVE  ProbeInv'
<1>1. \A w \in Worker :
          /\ Pc(w)' = "idle" => ~ Probed(w)'
          /\ Pc(w)' = "extract" => task'[w].stage = "extraction"
          /\ Pc(w)' = "probe" /\ Holds(w)' =>
                \A v \in Worker : job'[v] = job'[w] /\ Probed(v)' => Answered(v)'
  BY ProbeWorker, ProbeHolder
<1>2. ASSUME NEW w \in Worker, job'[w] \in Job, probeRound'[job'[w]] = 0, Probed(w)'
      PROVE  FALSE
  <2>1. CASE ReservesProbe(w)
    BY <1>2, <2>1, ReserveProbe
  <2>2. CASE Probed(w) /\ job'[w] = job[w]
    <3>1. PICK j \in Job : job[w] = j /\ job'[w] = j
      BY <1>2, <2>2
    <3>2. probeRound[j] = 0
      BY <1>2, <3>1, RoundStays
    <3> QED BY <2>2, <3>1, <3>2 DEF ProbeInv
  <2> QED BY <1>2, <2>1, <2>2, ProbedBefore
<1>3. ASSUME NEW w \in Worker, NEW v \in Worker, w # v, job'[w] = job'[v],
             Probed(w)', Probed(v)'
      PROVE  Answered(w)' \/ Answered(v)'
  <2>1. ASSUME NEW x \in Worker, NEW y \in Worker, x # y, job'[x] = job'[y],
               Probed(y)', ReservesProbe(x)
        PROVE  Answered(y)'
    <3>1. /\ Pc(x) = "probe" /\ Holds(x) /\ job' = job /\ recorded' = recorded
          /\ callState'[y] = callState[y]
      BY <2>1, ReserveProbe
    <3>2. Probed(y) /\ job[y] = job[x]
      BY <2>1, <3>1 DEF Probed
    <3>3. Answered(y)
      BY <3>1, <3>2 DEF ProbeInv
    <3> QED BY <3>1, <3>3 DEF Answered
  <2>2. CASE ReservesProbe(w) \/ ReservesProbe(v)
    BY <1>3, <2>1, <2>2
  <2>3. CASE ~ ReservesProbe(w) /\ ~ ReservesProbe(v)
    <3>1. /\ Probed(w) /\ job'[w] = job[w]
          /\ Probed(v) /\ job'[v] = job[v]
      BY <1>3, <2>3, ProbedBefore
    <3>2. Answered(w) \/ Answered(v)
      BY <1>3, <3>1 DEF ProbeInv
    <3> QED BY <2>3, <3>2, ProbeSteps
  <2> QED BY <2>2, <2>3
<1> QED BY <1>1, <1>2, <1>3 DEF ProbeInv

LEMMA ProbeCount ==
    ASSUME TypeOK, ProbeInv
    PROVE  FailedProbeStays
<1> SUFFICES ASSUME NEW j \in Job
             PROVE  Cardinality({c \in StageCalls(j, "probe") : ~ HasContent(c)}) <= 1
  BY DEF FailedProbeStays
<1> DEFINE S == {c \in StageCalls(j, "probe") : ~ HasContent(c)}
<1>1. ASSUME NEW c \in S
      PROVE  /\ c[1] \in Worker /\ job[c[1]] = j /\ c[2] = "probe"
             /\ c = <<c[1], "probe">> /\ Probed(c[1]) /\ ~ Answered(c[1])
  <2>1. c \in Worker \X Stage /\ job[c[1]] = j /\ c[2] = "probe"
        /\ callState[c[1]][c[2]] # "NONE" /\ ~ HasContent(c)
    BY DEF StageCalls, CallsOf
  <2> QED BY <2>1 DEF Probed, Answered, HasContent
<1>2. ASSUME NEW c \in S, NEW d \in S PROVE c = d
  <2>1. c[1] = d[1]
    BY <1>1 DEF ProbeInv
  <2> QED BY <1>1, <2>1
<1> HIDE DEF S
<1>3. CASE S = {}
  BY <1>3, FS_EmptySet DEF S
<1>4. ASSUME NEW c \in S PROVE Cardinality(S) <= 1
  <2>1. S = {c}
    BY <1>2
  <2>2. Cardinality({c}) = 1
    BY FS_Singleton
  <2> QED BY <2>1, <2>2
<1> QED BY <1>3, <1>4 DEF S

\* At most one probe call of a job ends without an answer: whoever opens or
\* resumes a round looks at all of its calls, and nobody else probes while it
\* holds the job.
THEOREM OneFailedProbe == Spec => []FailedProbeStays
<1>1. Init => ProbeInv
  BY DEF Init, ProbeInv, Pc, Nothing, Probed, Stage
<1>2. TypeOK /\ Tokens /\ ProbeInv /\ [Next]_vars => ProbeInv'
  BY ProbeStep
<1>3. TypeOK /\ Tokens /\ [Next]_vars => Tokens'
  BY TokensStep
<1>4. TypeOK /\ ProbeInv => FailedProbeStays
  BY ProbeCount
<1> QED BY <1>1, <1>2, <1>3, <1>4, TokensInit, TypeCorrect, PTL DEF Spec

=============================================================================
