------------------------- MODULE CacheWindow_proofs -------------------------
(***************************************************************************)
(* Proofs about CacheWindow for any calls, workers, windows, leases and    *)
(* deadlines.  The runtime's deadline is safe because each of its parts    *)
(* can only come too early: the clock starts before the request, the       *)
(* decision never exceeds the lease it was made under, a lease only grows  *)
(* while its fence is current, and a settled call keeps its receipt.       *)
(***************************************************************************)
EXTENDS CacheWindow, TLAPS

USE CacheAssumption

\* A decision is bounded by the lease of its fence, the job's deadline and the
\* window of its seed, which is settled; no later fence has one yet.
Decided ==
    \A c \in Call, f \in Fence :
        deadline[c][f] # None =>
            /\ verdict[c] # "none"
            /\ deadline[c][f] <= received[c] + Window
            /\ f = fence => deadline[c][f] <= lease
            /\ f <= fence

\* What a task has in hand.
InHand ==
    \A w \in Worker :
        /\ task[w].pc # "idle" => task[w].token \in Fence
        /\ task[w].asked <= now
        /\ task[w].pc \in {"hot", "reserving", "admitted"} => task[w].seed \in Call
        /\ task[w].pc \in {"admitted", "sent", "unsent"} => jobCall # NoCall

\* An admitted call has its evidence, its fence and its time.
Admitted ==
    \A w \in Worker : task[w].pc = "admitted" =>
        /\ task[w].token = fence
        /\ verdict[task[w].seed] # "none"
        /\ task[w].asked + task[w].remaining <= received[task[w].seed] + Window
        /\ task[w].asked + task[w].remaining <= lease

Sent == \A d \in dispatched : verdict[d.seed] # "none"

IInv == TypeOK /\ Decided /\ InHand /\ Admitted /\ Sent /\ DispatchInWindow

-----------------------------------------------------------------------------
(* Tasks *)

LEMMA NothingIsTask == Nothing \in Task
BY DEF Nothing, Task, Pc, Time

LEMMA WithoutIs ==
    ASSUME TypeOK, NEW w \in Worker, NEW p \in {"waiting", "sent", "unsent"}
    PROVE  /\ Without(w, p) \in Task
           /\ Without(w, p).pc = p /\ Without(w, p).token = task[w].token
           /\ Without(w, p).asked = 0
<1>1. task[w].token \in 0..MaxFence /\ task[w].again \in BOOLEAN
  BY DEF TypeOK, Task
<1>2. p \in Pc
  BY DEF Pc
<1>3. Without(w, p) \in Task
  BY <1>1, <1>2, NothingIsTask DEF Without, Task
<1>4. Without(w, p).pc = p /\ Without(w, p).token = task[w].token
  BY DEF Without, Nothing
<1>5. Without(w, p).asked = 0
  BY DEF Without, Nothing
<1> QED  BY <1>3, <1>4, <1>5

\* What a step of one worker's task has to bring.
GoodTask(t) ==
    /\ t \in Task
    /\ t.pc # "idle" => t.token \in Fence
    /\ t.asked <= now
    /\ t.pc \in {"hot", "reserving", "admitted"} => t.seed \in Call

LEMMA NothingIsGood == TypeOK => GoodTask(Nothing)
BY NothingIsTask DEF GoodTask, Nothing, TypeOK, Time

\* A step that changes one task, and neither locks, decisions nor calls.
LEMMA TaskKeeps ==
    ASSUME IInv, NEW w \in Worker, NEW t, GoodTask(t), Becomes(w, t),
           t.pc # "admitted",
           t.pc \in {"sent", "unsent"} => jobCall # NoCall,
           UNCHANGED <<now, stage, verdict, received, settling, fence, lease,
                       deadline, jobCall, dispatched>>
    PROVE  IInv'
<1>1. /\ task \in [Worker -> Task] /\ task' = [task EXCEPT ![w] = t]
      /\ t \in Task
  BY DEF IInv, TypeOK, Becomes, GoodTask
<1>2. TypeOK'
  BY <1>1 DEF IInv, TypeOK
<1>3. \A v \in Worker : task'[v] = IF v = w THEN t ELSE task[v]
  BY <1>1
<1>4. InHand'
  BY <1>3 DEF IInv, InHand, GoodTask
<1>5. Admitted'
  BY <1>3 DEF IInv, Admitted
<1>6. Decided' /\ Sent' /\ DispatchInWindow'
  BY DEF IInv, Decided, Sent, DispatchInWindow
<1> QED  BY <1>2, <1>4, <1>5, <1>6 DEF IInv

-----------------------------------------------------------------------------
(* The steps *)

LEMMA InitInvariant == Init => IInv
<1> SUFFICES ASSUME Init  PROVE IInv
  OBVIOUS
<1>1. \A w \in Worker : task[w] = Nothing
  BY DEF Init
<1>2. TypeOK
  BY NothingIsTask DEF Init, TypeOK, Time, None
<1>3. Decided
  BY DEF Init, Decided
<1>4. InHand /\ Admitted
  BY <1>1 DEF Init, InHand, Admitted, Nothing
<1> QED  BY <1>2, <1>3, <1>4 DEF Init, IInv, Sent, DispatchInWindow

LEMMA TickKeeps == IInv /\ Tick => IInv'
<1> SUFFICES ASSUME IInv, Tick  PROVE IInv'
  OBVIOUS
<1> USE DEF Tick, ledger, job
<1>1. TypeOK'
  BY DEF IInv, TypeOK, Time
<1>2. InHand'
  <2>1. \A w \in Worker : task[w] \in Task
    BY DEF IInv, TypeOK
  <2> QED  BY <2>1 DEF IInv, TypeOK, InHand, Time, Task
<1> QED  BY <1>1, <1>2 DEF IInv, Decided, Admitted, Sent, DispatchInWindow

\* Stamping a receipt concerns a call that nothing rests on yet.
LEMMA ReceiveKeeps ==
    ASSUME IInv, NEW c, NEW s \in {"answer", "extraction"}, NEW v \in Verdict,
           c # NoCall => c \in Call, Receive(c, s, v),
           UNCHANGED <<now, verdict, fence, lease, deadline, jobCall, dispatched>>
    PROVE  /\ task' \in [Worker -> Task] => TypeOK'
           /\ Decided' /\ Sent' /\ DispatchInWindow'
           /\ \A d \in Call : verdict[d] # "none" => received'[d] = received[d]
<1>1. \A d \in Call : verdict[d] # "none" => received'[d] = received[d]
  BY DEF IInv, TypeOK, Receive
<1>2. task' \in [Worker -> Task] => TypeOK'
  BY DEF IInv, TypeOK, Receive
<1>3. Decided'
  BY <1>1 DEF IInv, Decided
<1>4. Sent' /\ DispatchInWindow'
  BY <1>1 DEF IInv, TypeOK, Sent, DispatchInWindow
<1> QED  BY <1>1, <1>2, <1>3, <1>4 DEF IInv

LEMMA LedgerKeeps ==
    ASSUME IInv, NEW c \in Call, SettleOther(c) \/ CommitSettlement(c)
    PROVE  IInv'
<1>1. CASE SettleOther(c)
  <2>1. PICK s \in {"answer", "extraction"}, v \in OtherVerdict : Receive(c, s, v)
    BY <1>1 DEF SettleOther
  <2>2. /\ UNCHANGED <<now, verdict, fence, lease, deadline, jobCall, task, dispatched>>
        /\ v \in Verdict /\ c # NoCall
    BY <1>1 DEF SettleOther, job, Verdict
  <2>3. /\ TypeOK' /\ Decided' /\ Sent' /\ DispatchInWindow'
        /\ \A d \in Call : verdict[d] # "none" => received'[d] = received[d]
    BY <2>1, <2>2, ReceiveKeeps DEF IInv, TypeOK
  <2>4. InHand'
    BY <2>2 DEF IInv, InHand
  <2>5. Admitted'
    BY <2>2, <2>3 DEF IInv, InHand, Admitted
  <2> QED  BY <2>3, <2>4, <2>5 DEF IInv
<1>2. CASE CommitSettlement(c)
  <2>1. /\ UNCHANGED <<now, stage, received, fence, lease, deadline, jobCall, task, dispatched>>
        /\ settling[c] # "none" /\ verdict' = [verdict EXCEPT ![c] = settling[c]]
        /\ settling' = [settling EXCEPT ![c] = "none"]
    BY <1>2 DEF CommitSettlement, job
  <2>2. \A d \in Call : verdict[d] # "none" => verdict'[d] # "none"
    BY <2>1 DEF IInv, TypeOK
  <2>3. TypeOK'
    BY <2>1 DEF IInv, TypeOK
  <2>4. Decided'
    BY <2>1, <2>2 DEF IInv, Decided
  <2>5. InHand'
    BY <2>1 DEF IInv, InHand
  <2>6. Admitted'
    BY <2>1, <2>2 DEF IInv, InHand, Admitted
  <2>7. Sent' /\ DispatchInWindow'
    BY <2>1, <2>2 DEF IInv, TypeOK, Sent, DispatchInWindow
  <2> QED  BY <2>3, <2>4, <2>5, <2>6, <2>7 DEF IInv
<1> QED  BY <1>1, <1>2

\* Claims and renewals: the only steps that move a lease.
LEMMA LeaseKeeps ==
    ASSUME IInv, NEW w \in Worker, ClaimJob(w) \/ RenewJob(w)
    PROVE  IInv'
<1> USE DEF ledger
<1>1. /\ now \in Nat /\ lease \in 0..Deadline /\ fence \in 0..MaxFence
      /\ LeaseFrom(now) \in 0..Deadline
  BY DEF IInv, TypeOK, Time, LeaseFrom, Least
<1>2. CASE ClaimJob(w)
  <2> DEFINE t == [Nothing EXCEPT !.pc = "claimed", !.token = fence + 1]
  <2>1. /\ jobCall = NoCall /\ fence < MaxFence
        /\ fence' = fence + 1 /\ lease' = LeaseFrom(now)
        /\ task' = [task EXCEPT ![w] = t]
        /\ UNCHANGED <<now, stage, verdict, received, settling, deadline, jobCall, dispatched>>
    BY <1>2 DEF ClaimJob, Becomes
  <2>2. fence + 1 \in Fence /\ fence + 1 \in 0..MaxFence
    BY <1>1, <2>1 DEF Fence
  <2>3. t \in Task
    BY <2>2, NothingIsTask DEF Task, Pc
  <2>4. t.pc = "claimed" /\ t.token = fence + 1 /\ t.asked = 0
    BY DEF Nothing
  <2>5. task \in [Worker -> Task]
    BY DEF IInv, TypeOK
  <2>6. \A v \in Worker : task'[v] = IF v = w THEN t ELSE task[v]
    BY <2>1, <2>5
  <2>7. TypeOK'
    <3>1. task' \in [Worker -> Task]
      BY <2>1, <2>3, <2>5
    <3> QED  BY <1>1, <2>1, <2>2, <3>1 DEF IInv, TypeOK
  <2>8. Decided'
    <3>1. \A c \in Call, f \in Fence : deadline[c][f] # None => f # fence' /\ f <= fence'
      BY <1>1, <2>1 DEF IInv, Decided, Fence
    <3> QED  BY <2>1, <3>1 DEF IInv, Decided
  <2>9. \A v \in Worker : task'[v].pc \notin {"admitted", "sent", "unsent"}
    BY <2>1, <2>4, <2>6 DEF IInv, InHand
  <2>10. InHand'
    <3>1. now' = now /\ 0 <= now
      BY <1>1, <2>1
    <3> QED  BY <2>2, <2>4, <2>6, <2>9, <3>1 DEF IInv, InHand
  <2>11. Admitted' /\ Sent' /\ DispatchInWindow'
    BY <2>1, <2>9 DEF IInv, Admitted, Sent, DispatchInWindow
  <2> QED  BY <2>7, <2>8, <2>10, <2>11 DEF IInv
<1>3. CASE RenewJob(w)
  <2>1. /\ lease' = Most(lease, LeaseFrom(now))
        /\ UNCHANGED <<now, stage, verdict, received, settling, fence, deadline, jobCall, task, dispatched>>
    BY <1>3 DEF RenewJob
  <2>2. lease' \in 0..Deadline /\ lease <= lease'
    BY <1>1, <2>1 DEF Most
  <2>3. TypeOK'
    BY <2>1, <2>2 DEF IInv, TypeOK
  <2>4. Decided'
    <3>1. \A c \in Call, f \in Fence : deadline[c][f] \in Nat
      BY DEF IInv, TypeOK
    <3> QED  BY <1>1, <2>1, <2>2, <3>1 DEF IInv, Decided
  <2>5. InHand'
    BY <2>1 DEF IInv, InHand
  <2>6. Admitted'
    <3>1. \A v \in Worker : task[v].asked \in Nat /\ task[v].remaining \in Nat
      BY DEF IInv, TypeOK, Task, Time
    <3> QED  BY <1>1, <2>1, <2>2, <3>1 DEF IInv, Admitted
  <2>7. Sent' /\ DispatchInWindow'
    BY <2>1 DEF IInv, Sent, DispatchInWindow
  <2> QED  BY <2>3, <2>4, <2>5, <2>6, <2>7 DEF IInv
<1> QED  BY <1>2, <1>3

\* The deadline of a decision, new or stored, is bounded as Decided says.
LEMMA DecisionIs ==
    ASSUME IInv, NEW c \in Call, verdict[c] # "none", fence \in Fence, now < lease
    PROVE  LET d == Decision(c, fence) IN
           /\ d \in 0..Deadline /\ d <= received[c] + Window /\ d <= lease
<1>1. /\ received[c] \in Nat /\ lease \in 0..Deadline
      /\ deadline[c][fence] \in 0..Deadline
  BY DEF IInv, TypeOK, Time
<1>2. SoftDeadline(c) \in 0..Deadline /\ SoftDeadline(c) <= received[c] + Window
      /\ SoftDeadline(c) <= lease
  BY <1>1 DEF SoftDeadline, Least
<1> QED  BY <1>1, <1>2 DEF Decision, IInv, Decided

LEMMA IssueKeeps ==
    ASSUME IInv, NEW w \in Worker, IssueEvidence(w)
    PROVE  IInv'
<1> USE DEF ledger, job
<1>1. /\ task[w].pc = "observing" /\ Holds(w)
      /\ UNCHANGED <<now, stage, verdict, received, settling, fence, lease, jobCall, dispatched>>
  BY DEF IssueEvidence
<1>2. PICK c \in RecentSeeds(Recent) :
         LET d == Decision(c, fence) IN
          /\ deadline' = [deadline EXCEPT ![c][fence] = d]
          /\ IF Remaining(d) = 0
               THEN Becomes(w, Without(w, "waiting"))
               ELSE Becomes(w, [task[w] EXCEPT !.pc = "hot", !.seed = c,
                                               !.remaining = Remaining(d)])
  BY DEF IssueEvidence
<1>3. c \in Call /\ verdict[c] # "none"
  BY DEF RecentSeeds, Usable, Recent
<1>4. fence \in Fence /\ now < lease
  BY <1>1 DEF IInv, InHand, Holds
<1>5. PICK d : d = Decision(c, fence)
  OBVIOUS
<1>6. d \in 0..Deadline /\ d <= received[c] + Window /\ d <= lease
  BY <1>3, <1>4, <1>5, DecisionIs
<1>7. deadline' = [deadline EXCEPT ![c][fence] = d]
  BY <1>2, <1>5
<1>8. \A b \in Call, f \in Fence :
         deadline'[b][f] = IF b = c /\ f = fence THEN d ELSE deadline[b][f]
  BY <1>3, <1>4, <1>7 DEF IInv, TypeOK
<1>9. deadline' \in [Call -> [Fence -> 0..Deadline]]
  BY <1>6, <1>7 DEF IInv, TypeOK
<1>10. Decided'
  <2>1. fence <= fence
    BY <1>4 DEF Fence
  <2> QED  BY <1>1, <1>3, <1>6, <1>8, <2>1 DEF IInv, Decided
<1>11. PICK t : Becomes(w, t) /\ GoodTask(t) /\ t.pc \notin {"admitted", "sent", "unsent"}
  <2>1. now \in Nat /\ d \in Nat /\ task[w] \in Task /\ task[w].token \in Fence /\ task[w].asked <= now
    BY <1>1, <1>6 DEF IInv, TypeOK, InHand, Time
  <2>2. Remaining(d) \in 0..Window
    BY <2>1 DEF Remaining
  <2>3. CASE Remaining(d) = 0
    <3>1. Becomes(w, Without(w, "waiting"))
      BY <1>2, <1>5, <2>3
    <3>2. GoodTask(Without(w, "waiting"))
      BY <2>1, WithoutIs DEF GoodTask, IInv
    <3> QED  BY <3>1, <3>2, WithoutIs DEF IInv
  <2>4. CASE Remaining(d) # 0
    <3> DEFINE t == [task[w] EXCEPT !.pc = "hot", !.seed = c, !.remaining = Remaining(d)]
    <3>1. Becomes(w, t)
      BY <1>2, <1>5, <2>4
    <3>2. t \in Task /\ t.pc = "hot" /\ t.seed = c /\ t.token = task[w].token /\ t.asked = task[w].asked
      BY <1>3, <2>1, <2>2 DEF Task, Pc
    <3>3. GoodTask(t)
      BY <1>3, <2>1, <3>2 DEF GoodTask
    <3> QED  BY <3>1, <3>2, <3>3
  <2> QED  BY <2>3, <2>4
<1>12. /\ task \in [Worker -> Task] /\ task' = [task EXCEPT ![w] = t] /\ t \in Task
  BY <1>11 DEF IInv, TypeOK, Becomes, GoodTask
<1>13. \A v \in Worker : task'[v] = IF v = w THEN t ELSE task[v]
  BY <1>12
<1>14. TypeOK'
  BY <1>1, <1>9, <1>12 DEF IInv, TypeOK
<1>15. InHand'
  BY <1>1, <1>11, <1>13 DEF IInv, InHand, GoodTask
<1>16. Admitted'
  BY <1>1, <1>11, <1>13 DEF IInv, Admitted
<1>17. Sent' /\ DispatchInWindow'
  BY <1>1 DEF IInv, Sent, DispatchInWindow
<1> QED  BY <1>10, <1>14, <1>15, <1>16, <1>17 DEF IInv

\* What Go tells an admitted task, counted from before it asked, ends before
\* the lease, the job and the window do.
LEMMA AdmitKeeps ==
    ASSUME IInv, NEW w \in Worker, NEW c \in Call, Admit(w, c)
    PROVE  IInv'
<1> DEFINE b == task[w].seed
           d == deadline[b][fence]
           t == [task[w] EXCEPT !.pc = "admitted", !.remaining = Remaining(d)]
<1>1. /\ task[w].pc = "reserving" /\ EvidenceHolds(w)
      /\ jobCall' = c /\ stage' = [stage EXCEPT ![c] = "extraction"]
      /\ task' = [task EXCEPT ![w] = t]
      /\ UNCHANGED <<now, verdict, received, settling, fence, lease, deadline, dispatched>>
  BY DEF Admit, Becomes
<1>2. /\ task \in [Worker -> Task] /\ task[w] \in Task /\ task[w].token \in Fence
      /\ b \in Call /\ task[w].asked <= now
  BY <1>1 DEF IInv, TypeOK, InHand
<1>3. task[w].token = fence /\ fence \in Fence /\ d # None /\ Remaining(d) > 0
  BY <1>1, <1>2 DEF EvidenceHolds, Holds
<1>4. verdict[b] # "none" /\ d <= received[b] + Window /\ d <= lease
  BY <1>2, <1>3 DEF IInv, Decided
<1>5. /\ now \in Nat /\ d \in Nat /\ task[w].asked \in Nat
      /\ received[b] \in Nat /\ lease \in Nat
  BY <1>2, <1>3 DEF IInv, TypeOK, Time, Task
<1>6. Remaining(d) = d - now /\ Remaining(d) \in 0..Window
  BY <1>3, <1>5 DEF Remaining
<1>7. task[w].asked + Remaining(d) <= d
  BY <1>2, <1>5, <1>6
<1>8. t \in Task /\ t.pc = "admitted" /\ t.seed = b /\ t.token = task[w].token
      /\ t.asked = task[w].asked /\ t.remaining = Remaining(d)
  BY <1>2, <1>6 DEF Task, Pc
<1>9. \A v \in Worker : task'[v] = IF v = w THEN t ELSE task[v]
  BY <1>1, <1>2
<1>10. TypeOK'
  <2>1. task' \in [Worker -> Task]
    BY <1>1, <1>2, <1>8
  <2> QED  BY <1>1, <2>1 DEF IInv, TypeOK
<1>11. InHand'
  BY <1>1, <1>2, <1>8, <1>9 DEF IInv, InHand
<1>12. Admitted'
  <2>1. /\ t.asked + t.remaining <= received[b] + Window
        /\ t.asked + t.remaining <= lease
    BY <1>4, <1>5, <1>6, <1>7, <1>8
  <2> QED  BY <1>1, <1>3, <1>4, <1>8, <1>9, <2>1 DEF IInv, Admitted
<1>13. Decided' /\ Sent' /\ DispatchInWindow'
  BY <1>1 DEF IInv, Decided, Sent, DispatchInWindow
<1> QED  BY <1>10, <1>11, <1>12, <1>13 DEF IInv

LEMMA DispatchKeeps ==
    ASSUME IInv, NEW w \in Worker, Dispatch(w)
    PROVE  IInv'
<1> USE DEF ledger, job
<1> DEFINE b == task[w].seed
           t == Without(w, "sent")
<1>1. /\ task[w].pc = "admitted" /\ InTime(w) /\ task' = [task EXCEPT ![w] = t]
      /\ dispatched' = dispatched \cup {[seed |-> b, at |-> now]}
      /\ UNCHANGED <<now, stage, verdict, received, settling, fence, lease, deadline, jobCall>>
  BY DEF Dispatch, Becomes
<1>2. /\ task \in [Worker -> Task] /\ task[w] \in Task /\ task[w].token \in Fence
      /\ b \in Call /\ jobCall # NoCall
  BY <1>1 DEF IInv, TypeOK, InHand
<1>3. verdict[b] # "none" /\ task[w].asked + task[w].remaining <= received[b] + Window
  BY <1>1 DEF IInv, Admitted
<1>4. now \in Time /\ received[b] \in Nat /\ task[w].asked \in Nat /\ task[w].remaining \in Nat
  BY <1>2 DEF IInv, TypeOK, Time, Task
<1>5. now < received[b] + Window
  BY <1>1, <1>3, <1>4 DEF InTime, Time
<1>6. t \in Task /\ t.pc = "sent" /\ t.token = task[w].token /\ t.asked = 0
  BY WithoutIs DEF IInv
<1>7. \A v \in Worker : task'[v] = IF v = w THEN t ELSE task[v]
  BY <1>1, <1>2
<1>8. TypeOK'
  <2>1. task' \in [Worker -> Task]
    BY <1>1, <1>2, <1>6
  <2>2. dispatched' \in SUBSET [seed : Call, at : Time]
    BY <1>1, <1>2, <1>4 DEF IInv, TypeOK
  <2> QED  BY <1>1, <2>1, <2>2 DEF IInv, TypeOK
<1>9. InHand'
  <2>1. 0 <= now
    BY <1>4 DEF Time
  <2> QED  BY <1>1, <1>2, <1>6, <1>7, <2>1 DEF IInv, InHand
<1>10. Admitted'
  BY <1>1, <1>6, <1>7 DEF IInv, Admitted
<1>11. Sent' /\ DispatchInWindow'
  BY <1>1, <1>3, <1>5 DEF IInv, Sent, DispatchInWindow
<1>12. Decided'
  BY <1>1 DEF IInv, Decided
<1> QED  BY <1>8, <1>9, <1>10, <1>11, <1>12 DEF IInv

LEMMA SettleOwnKeeps ==
    ASSUME IInv, NEW w \in Worker, SettleOwn(w)
    PROVE  IInv'
<1> USE DEF ledger, job
<1>1. PICK v \in Verdict : Receive(jobCall, "extraction", v)
  BY DEF SettleOwn, Verdict
<1>2. /\ task' = [task EXCEPT ![w] = Nothing] /\ task \in [Worker -> Task]
      /\ UNCHANGED <<now, verdict, fence, lease, deadline, jobCall, dispatched>>
  BY DEF SettleOwn, Becomes, IInv, TypeOK
<1>3. jobCall # NoCall => jobCall \in Call
  BY DEF IInv, TypeOK
<1>4. task' \in [Worker -> Task]
  BY <1>2, NothingIsTask
<1>5. /\ TypeOK' /\ Decided' /\ Sent' /\ DispatchInWindow'
      /\ \A d \in Call : verdict[d] # "none" => received'[d] = received[d]
  BY <1>1, <1>2, <1>3, <1>4, ReceiveKeeps
<1>6. \A u \in Worker : task'[u] = IF u = w THEN Nothing ELSE task[u]
  BY <1>2
<1>7. 0 <= now
  BY DEF IInv, TypeOK, Time
<1>8. InHand'
  BY <1>2, <1>6, <1>7 DEF IInv, InHand, Nothing
<1>9. Admitted'
  BY <1>2, <1>5, <1>6 DEF IInv, InHand, Admitted, Nothing
<1> QED  BY <1>5, <1>8, <1>9 DEF IInv

LEMMA WorkerKeeps ==
    ASSUME IInv, NEW w \in Worker, WorkerStep(w)
    PROVE  IInv'
<1> USE DEF ledger, job
<1>1. task[w] \in Task /\ now \in Time /\ TypeOK
  BY DEF IInv, TypeOK
<1>2. CASE ClaimJob(w) \/ RenewJob(w)
  BY <1>2, LeaseKeeps
<1>3. CASE Stop(w) \/ Refuse(w)
  <2>1. /\ Becomes(w, Nothing) /\ Nothing.pc = "idle"
        /\ UNCHANGED <<now, stage, verdict, received, settling, fence, lease,
                       deadline, jobCall, dispatched>>
    BY <1>3 DEF Stop, Refuse, Nothing
  <2> QED  BY <1>1, <2>1, NothingIsGood, TaskKeeps
<1>4. CASE IssueUnknown(w) \/ EvidenceStale(w) \/ NotDispatched(w)
  <2>1. PICK p \in {"waiting", "unsent"} :
           /\ Becomes(w, Without(w, p)) /\ task[w].pc # "idle"
           /\ p = "unsent" => task[w].pc = "admitted"
           /\ UNCHANGED <<now, stage, verdict, received, settling, fence, lease,
                          deadline, jobCall, dispatched>>
    BY <1>4 DEF IssueUnknown, EvidenceStale, NotDispatched
  <2>2. /\ Without(w, p) \in Task /\ Without(w, p).pc = p
        /\ Without(w, p).token = task[w].token /\ Without(w, p).asked = 0
    BY <1>1, WithoutIs
  <2>3. GoodTask(Without(w, p))
    BY <1>1, <2>1, <2>2 DEF GoodTask, IInv, InHand, Time
  <2>4. p = "unsent" => jobCall # NoCall
    BY <2>1 DEF IInv, InHand
  <2> QED  BY <2>1, <2>2, <2>3, <2>4, TaskKeeps
<1>5. CASE AskEvidence(w) \/ ObserveAgain(w) \/ AskReserve(w)
  <2>1. PICK p \in {"observing", "reserving"}, again \in BOOLEAN :
           /\ Becomes(w, [task[w] EXCEPT !.pc = p, !.asked = now, !.again = again])
           /\ task[w].pc # "idle" /\ (p = "reserving" => task[w].pc = "hot")
           /\ UNCHANGED <<now, stage, verdict, received, settling, fence, lease,
                          deadline, jobCall, dispatched>>
    <3>1. CASE AskEvidence(w)
      <4>1. [task[w] EXCEPT !.pc = "observing", !.asked = now] =
            [task[w] EXCEPT !.pc = "observing", !.asked = now, !.again = task[w].again]
        BY <1>1 DEF Task
      <4>2. task[w].again \in BOOLEAN
        BY <1>1 DEF Task
      <4> QED  BY <3>1, <4>1, <4>2 DEF AskEvidence
    <3>2. CASE ObserveAgain(w)
      BY <3>2 DEF ObserveAgain
    <3>3. CASE AskReserve(w)
      <4>1. [task[w] EXCEPT !.pc = "reserving", !.asked = now] =
            [task[w] EXCEPT !.pc = "reserving", !.asked = now, !.again = task[w].again]
        BY <1>1 DEF Task
      <4>2. task[w].again \in BOOLEAN
        BY <1>1 DEF Task
      <4> QED  BY <3>3, <4>1, <4>2 DEF AskReserve
    <3> QED  BY <1>5, <3>1, <3>2, <3>3
  <2> DEFINE t == [task[w] EXCEPT !.pc = p, !.asked = now, !.again = again]
  <2>2. t \in Task /\ t.pc = p /\ t.asked = now /\ t.token = task[w].token /\ t.seed = task[w].seed
    BY <1>1, <2>1 DEF Task, Pc
  <2>3. GoodTask(t)
    BY <1>1, <2>1, <2>2 DEF GoodTask, IInv, InHand, Time
  <2> QED  BY <2>1, <2>2, <2>3, TaskKeeps
<1>6. CASE IssueEvidence(w)
  BY <1>6, IssueKeeps
<1>7. CASE \E c \in Call : Admit(w, c)
  BY <1>7, AdmitKeeps
<1>8. CASE Dispatch(w)
  BY <1>8, DispatchKeeps
<1>9. CASE SettleOwn(w)
  BY <1>9, SettleOwnKeeps
<1> QED  BY <1>2, <1>3, <1>4, <1>5, <1>6, <1>7, <1>8, <1>9 DEF WorkerStep

LEMMA NextInvariant == IInv /\ [Next]_vars => IInv'
<1> SUFFICES ASSUME IInv, [Next]_vars  PROVE IInv'
  OBVIOUS
<1>1. CASE UNCHANGED vars
  BY <1>1 DEF vars, IInv, TypeOK, Decided, InHand, Admitted, Sent, DispatchInWindow
<1>2. CASE Tick
  BY <1>2, TickKeeps
<1>3. CASE \E c \in Call : SettleOther(c) \/ CommitSettlement(c)
  BY <1>3, LedgerKeeps
<1>4. CASE \E w \in Worker : WorkerStep(w)
  BY <1>4, WorkerKeeps
<1> QED  BY <1>1, <1>2, <1>3, <1>4 DEF Next

LEMMA Invariant == Spec => []IInv
BY InitInvariant, NextInvariant, PTL DEF Spec

-----------------------------------------------------------------------------
(* What follows *)

\* Every column and every task keeps its type, and no decision outlives the
\* job (m3_cache_decisions, m3_jobs).
THEOREM TypeCorrect == Spec => []TypeOK
<1>1. IInv => TypeOK
  BY DEF IInv
<1> QED  BY <1>1, Invariant, PTL

\* A hot call goes out inside the window of the settled call it relies on,
\* however long the replies were under way (mark_dispatch).
THEOREM WindowKept == Spec => []DispatchInWindow
<1>1. IInv => DispatchInWindow
  BY DEF IInv
<1> QED  BY <1>1, Invariant, PTL

\* Who may still dispatch a hot call holds the job, although nobody looks at
\* the lease at that moment (m3IssueCacheEvidence).
THEOREM LeaseKept == Spec => []HotHoldsLease
<1>1. IInv => HotHoldsLease
  <2> SUFFICES ASSUME IInv, NEW w \in Worker, task[w].pc = "admitted", InTime(w)
               PROVE  Holds(w)
    BY DEF HotHoldsLease
  <2>1. task[w].token = fence /\ task[w].asked + task[w].remaining <= lease
    BY DEF IInv, Admitted
  <2>2. /\ now \in Nat /\ lease \in 0..Deadline
        /\ task[w].asked \in Nat /\ task[w].remaining \in Nat
    BY DEF IInv, TypeOK, Task, Time
  <2> QED  BY <2>1, <2>2 DEF InTime, Holds
<1> QED  BY <1>1, Invariant, PTL

\* Only Admit makes the job's call.
LEMMA OnlyAdmit ==
    ASSUME [Next]_vars, jobCall' # jobCall
    PROVE  \E w \in Worker, c \in Call : Admit(w, c)
BY DEF Next, vars, Tick, SettleOther, CommitSettlement, WorkerStep, ClaimJob, RenewJob,
       Stop, AskEvidence, ObserveAgain, IssueEvidence, IssueUnknown, EvidenceStale,
       AskReserve, Refuse, Dispatch, NotDispatched, SettleOwn, job

\* No decision is used against newer knowledge: an extraction that missed
\* within the window is outlived by one that hit (ReserveCall).
THEOREM NewestDecides == Spec => AdmittedOnNewest
<1> DEFINE Outlived(c) ==
      /\ stage[c] = "extraction" /\ verdict[c] \in {"miss", "incomplete"}
      /\ InWindow(c)
      => \E d \in Call : /\ stage[d] = "extraction" /\ verdict[d] = "hit"
                         /\ received[c] <= received[d]
<1>1. [Next]_vars => [jobCall' # jobCall => \A c \in Call : Outlived(c)]_vars
  <2> SUFFICES ASSUME [Next]_vars, jobCall' # jobCall, NEW c \in Call,
                      stage[c] = "extraction", verdict[c] \in {"miss", "incomplete"},
                      InWindow(c)
               PROVE  \E d \in Call : /\ stage[d] = "extraction" /\ verdict[d] = "hit"
                                      /\ received[c] <= received[d]
    OBVIOUS
  <2>1. PICK w \in Worker : EvidenceHolds(w)
    BY OnlyAdmit DEF Admit
  <2>2. c \in Extractions(Recent)
    BY DEF Extractions, Recent
  <2>3. PICK d \in Extractions(Recent) : LastOf(Extractions(Recent), d) /\ verdict[d] = "hit"
    BY <2>1, <2>2 DEF EvidenceHolds, Unrefuted
  <2> QED  BY <2>2, <2>3 DEF LastOf, Extractions, Recent
<1> QED  BY <1>1, PTL DEF Spec, AdmittedOnNewest
=============================================================================
