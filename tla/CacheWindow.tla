---------------------------- MODULE CacheWindow ----------------------------
(***************************************************************************)
(* How a HOT_ONLY background job earns the right to dispatch one           *)
(* extraction call: the settled calls on its prefix, the immutable         *)
(* decision Go derives from one of them (m3_cache_decisions), the check    *)
(* that admission repeats, and the runtime's own deadline, which it counts *)
(* from before the reservation because it does not know how long the reply *)
(* was under way.                                                          *)
(*                                                                         *)
(* One job on one prefix.  Other runs settle calls on the same prefix.     *)
(* The database clock and the runtime's monotonic clock advance at the     *)
(* same pace; they are never compared.  Bound: MaxTime.                    *)
(***************************************************************************)
EXTENDS Naturals, FiniteSets

CONSTANTS
    Call,          \* physical calls on the prefix, of this job and of others
    Worker,        \* runtime tasks that may hold the job
    Window,        \* m3CacheSoftWindow
    Lease,         \* the duration a worker asks for
    Deadline,      \* the deadline of the job
    MaxTime,       \* bound: the last instant of a behaviour
    MaxFence,      \* bound: claims of the job
    OtherVerdict,  \* bound: what the settlements of others say
    NoCall

ASSUME CacheAssumption ==
    /\ {Window, Lease} \subseteq Nat \ {0}
    /\ {Deadline, MaxTime, MaxFence} \subseteq Nat
    /\ NoCall \notin Call
    /\ OtherVerdict \subseteq {"hit", "miss", "incomplete"}

VARIABLES
    now,           \* time
    stage,         \* llm_calls.stage
    verdict,       \* what the committed record says: usage with hits, ...
    received,      \* settled_received_at
    settling,      \* calls whose settlement is stamped but not committed
    fence, lease,  \* m3_jobs: fencing_token, lease_until
    deadline,      \* soft_deadline of the decision on a seed and a fence
    jobCall,       \* the job's extraction call
    task,          \* what each worker is doing
    dispatched     \* history: what the dispatched hot call relied on

job    == <<fence, lease, jobCall>>
ledger == <<stage, verdict, received, settling>>
vars   == <<now, stage, verdict, received, settling, fence, lease, deadline,
            jobCall, task, dispatched>>

Time == 0..MaxTime
Fence == 1..MaxFence
Verdict == {"hit", "miss", "incomplete"}
None == 0                      \* no decision: a deadline is never 0

Pc == {"idle", "claimed", "observing", "waiting", "hot", "reserving",
       "admitted", "unsent", "sent"}
Task == [pc : Pc, token : 0..MaxFence, seed : Call \cup {NoCall},
         asked : Time, remaining : 0..Window, again : BOOLEAN]
Nothing == [pc |-> "idle", token |-> 0, seed |-> NoCall, asked |-> 0,
            remaining |-> 0, again |-> FALSE]

TypeOK ==
    /\ now \in Time
    /\ stage \in [Call -> {"none", "answer", "extraction"}]
    /\ verdict \in [Call -> Verdict \cup {"none"}]
    /\ received \in [Call -> Time]
    /\ settling \in [Call -> Verdict \cup {"none"}]
    /\ fence \in 0..MaxFence /\ lease \in 0..Deadline
    /\ deadline \in [Call -> [Fence -> 0..Deadline]]
    /\ jobCall \in Call \cup {NoCall}
    /\ task \in [Worker -> Task]
    /\ dispatched \in SUBSET [seed : Call, at : Time]

Init ==
    /\ now = 0
    /\ stage = [c \in Call |-> "none"]
    /\ verdict = [c \in Call |-> "none"]
    /\ received = [c \in Call |-> 0]
    /\ settling = [c \in Call |-> "none"]
    /\ fence = 0 /\ lease = 0
    /\ deadline = [c \in Call |-> [f \in Fence |-> None]]
    /\ jobCall = NoCall
    /\ task = [w \in Worker |-> Nothing]
    /\ dispatched = {}

Least(a, b) == IF a < b THEN a ELSE b
Most(a, b) == IF a > b THEN a ELSE b

-----------------------------------------------------------------------------
(* Time and the calls of others *)

Tick ==
    /\ now < MaxTime
    /\ now' = now + 1
    /\ UNCHANGED <<ledger, job, deadline, task, dispatched>>

\* SettleCall stamps the receipt, then commits; others read what is committed.
Receive(c, s, v) ==
    /\ stage[c] = "none" \/ (c = jobCall /\ s = stage[c])
    /\ verdict[c] = "none" /\ settling[c] = "none"
    /\ stage' = [stage EXCEPT ![c] = s]
    /\ received' = [received EXCEPT ![c] = now]
    /\ settling' = [settling EXCEPT ![c] = v]

SettleOther(c) ==
    /\ c # jobCall
    /\ \E s \in {"answer", "extraction"}, v \in OtherVerdict : Receive(c, s, v)
    /\ UNCHANGED <<now, verdict, job, deadline, task, dispatched>>

CommitSettlement(c) ==
    /\ settling[c] # "none"
    /\ verdict' = [verdict EXCEPT ![c] = settling[c]]
    /\ settling' = [settling EXCEPT ![c] = "none"]
    /\ UNCHANGED <<now, stage, received, job, deadline, task, dispatched>>

-----------------------------------------------------------------------------
(* Which settled call supports the prefix *)

InWindow(c) == now < received[c] + Window
Recent == {c \in Call : verdict[c] # "none" /\ InWindow(c)}

\* A complete call on this prefix, answer or extraction, with hits or without.
Usable(c) == c \in Recent /\ verdict[c] # "incomplete"

\* c is among the last of S to be received.  Which of two calls received at
\* one instant counts as the last is left open: attempt ids decide it.
LastOf(S, c) == c \in S /\ \A d \in S : received[d] <= received[c]

\* A recent extraction that missed, or says nothing, speaks against the
\* prefix until the window has passed over it.
Extractions(S) == {c \in S : stage[c] = "extraction"}
Refuted(S) == \E c \in Extractions(S) :
    LastOf(Extractions(S), c) /\ verdict[c] # "hit"
Unrefuted(S) ==
    \/ Extractions(S) = {}
    \/ \E c \in Extractions(S) :
          LastOf(Extractions(S), c) /\ verdict[c] = "hit"

RecentSeeds(S) == {c \in S : Usable(c) /\ LastOf({d \in S : Usable(d)}, c)}

-----------------------------------------------------------------------------
(* The lease *)

Becomes(w, t) == task' = [task EXCEPT ![w] = t]

\* The worker goes to p and forgets its evidence.
Without(w, p) == [Nothing EXCEPT !.pc = p, !.token = task[w].token,
                                 !.again = task[w].again]
Holds(w) == task[w].token = fence /\ now < lease /\ now < Deadline

LeaseFrom(t) == Least(Deadline, t + Lease)

\* acquireM3Lease: no call of the job is open or has been made.
ClaimJob(w) ==
    /\ task[w].pc = "idle"
    /\ now < Deadline /\ lease <= now
    /\ jobCall = NoCall
    /\ fence < MaxFence
    /\ fence' = fence + 1
    /\ lease' = LeaseFrom(now)
    /\ Becomes(w, [Nothing EXCEPT !.pc = "claimed", !.token = fence + 1])
    /\ UNCHANGED <<now, ledger, deadline, jobCall, dispatched>>

RenewJob(w) ==
    /\ task[w].pc # "idle"
    /\ Holds(w)
    /\ lease' = Most(lease, LeaseFrom(now))
    /\ UNCHANGED <<now, ledger, fence, deadline, jobCall, task, dispatched>>

\* The task ends, or its process dies.
Stop(w) ==
    /\ task[w].pc # "idle"
    /\ Becomes(w, Nothing)
    /\ UNCHANGED <<now, ledger, job, deadline, dispatched>>

-----------------------------------------------------------------------------
(* Evidence: ClaimJob asks for it, ObservePrefix once more *)

AskEvidence(w) ==
    /\ task[w].pc = "claimed"
    /\ Becomes(w, [task[w] EXCEPT !.pc = "observing", !.asked = now])
    /\ UNCHANGED <<now, ledger, job, deadline, dispatched>>

\* The answer of the run is finished, and the evidence was none, or is stale.
ObserveAgain(w) ==
    /\ task[w].pc = "waiting" /\ ~task[w].again
    /\ Becomes(w, [task[w] EXCEPT !.pc = "observing", !.asked = now,
                                  !.again = TRUE])
    /\ UNCHANGED <<now, ledger, job, deadline, dispatched>>

\* Seeded fault: the lease does not bound the decision.
SoftDeadlineOfWindow(c) == Least(received[c] + Window, Deadline)

SoftDeadline(c) == Least(received[c] + Window, Least(Deadline, lease))

\* INSERT ... ON CONFLICT DO NOTHING, then the stored decision is read back.
Decision(c, f) ==
    IF deadline[c][f] = None THEN SoftDeadline(c) ELSE deadline[c][f]

\* m3CacheRemaining
Remaining(d) == IF now < d /\ d - now <= Window THEN d - now ELSE 0

IssueEvidence(w) ==
    /\ task[w].pc = "observing"
    /\ Holds(w)
    /\ Unrefuted(Recent)
    /\ \E c \in RecentSeeds(Recent) :
          LET d == Decision(c, fence) IN
          /\ deadline' = [deadline EXCEPT ![c][fence] = d]
          /\ IF Remaining(d) = 0
               THEN Becomes(w, Without(w, "waiting"))
               ELSE Becomes(w, [task[w] EXCEPT !.pc = "hot", !.seed = c,
                                               !.remaining = Remaining(d)])
    /\ UNCHANGED <<now, ledger, job, dispatched>>

IssueUnknown(w) ==
    /\ task[w].pc = "observing"
    /\ Holds(w)
    /\ Refuted(Recent) \/ RecentSeeds(Recent) = {}
    /\ Becomes(w, Without(w, "waiting"))
    /\ UNCHANGED <<now, ledger, job, deadline, dispatched>>

-----------------------------------------------------------------------------
(* The call *)

\* pre_dispatch_reason; the task may be slow from here on.
EvidenceStale(w) ==
    /\ task[w].pc = "hot"
    /\ now >= task[w].asked + task[w].remaining
    /\ Becomes(w, Without(w, "waiting"))
    /\ UNCHANGED <<now, ledger, job, deadline, dispatched>>

\* ask notes the time before it sends the reservation.
AskReserve(w) ==
    /\ task[w].pc = "hot"
    /\ now < task[w].asked + task[w].remaining
    /\ Becomes(w, [task[w] EXCEPT !.pc = "reserving", !.asked = now])
    /\ UNCHANGED <<now, ledger, job, deadline, dispatched>>

\* Seeded fault: admission takes the decision for granted.
EvidenceTrusted(w) ==
    Holds(w) /\ Remaining(deadline[task[w].seed][fence]) > 0

\* m3CacheDecisionForReserve: the decision is of this job, owner and fence,
\* its own seed is still good, and no call has spoken against the prefix.
EvidenceHolds(w) ==
    LET c == task[w].seed IN
    /\ Holds(w)
    /\ deadline[c][fence] # None
    /\ Unrefuted(Recent) /\ RecentSeeds(Recent) # {}
    /\ Usable(c)
    /\ Remaining(deadline[c][fence]) > 0

Admit(w, c) ==
    /\ task[w].pc = "reserving"
    /\ EvidenceHolds(w)
    /\ stage[c] = "none"
    /\ jobCall' = c
    /\ stage' = [stage EXCEPT ![c] = "extraction"]
    /\ Becomes(w, [task[w] EXCEPT !.pc = "admitted",
           !.remaining = Remaining(deadline[task[w].seed][fence])])
    /\ UNCHANGED <<now, verdict, received, settling, fence, lease, deadline,
                   dispatched>>

Refuse(w) ==
    /\ task[w].pc = "reserving"
    /\ Refuted(Recent) \/ ~EvidenceHolds(w)
    /\ Becomes(w, Nothing)
    /\ UNCHANGED <<now, ledger, job, deadline, dispatched>>

\* Seeded fault: the runtime counts from the arrival of the reply.
InTimeOfReply(w) == now < now + task[w].remaining

\* mark_dispatch, just before the request goes out
InTime(w) == now < task[w].asked + task[w].remaining

Dispatch(w) ==
    /\ task[w].pc = "admitted"
    /\ InTime(w)
    /\ Becomes(w, Without(w, "sent"))
    /\ dispatched' = dispatched \cup
           {[seed |-> task[w].seed, at |-> now]}
    /\ UNCHANGED <<now, ledger, job, deadline>>

NotDispatched(w) ==
    /\ task[w].pc = "admitted"
    /\ ~InTime(w)
    /\ Becomes(w, Without(w, "unsent"))
    /\ UNCHANGED <<now, ledger, job, deadline, dispatched>>

\* A call that was not dispatched costs nothing, and settles without usage.
SettleOwn(w) ==
    /\ task[w].pc \in {"sent", "unsent"}
    /\ \E v \in IF task[w].pc = "sent" THEN Verdict ELSE {"incomplete"} :
          Receive(jobCall, "extraction", v)
    /\ Becomes(w, Nothing)
    /\ UNCHANGED <<now, verdict, job, deadline, dispatched>>

-----------------------------------------------------------------------------
WorkerStep(w) ==
    \/ ClaimJob(w) \/ RenewJob(w) \/ Stop(w)
    \/ AskEvidence(w) \/ ObserveAgain(w)
    \/ IssueEvidence(w) \/ IssueUnknown(w)
    \/ EvidenceStale(w) \/ AskReserve(w)
    \/ (\E c \in Call : Admit(w, c)) \/ Refuse(w)
    \/ Dispatch(w) \/ NotDispatched(w) \/ SettleOwn(w)

Next ==
    \/ Tick
    \/ \E c \in Call : SettleOther(c) \/ CommitSettlement(c)
    \/ \E w \in Worker : WorkerStep(w)

Spec == Init /\ [][Next]_vars

-----------------------------------------------------------------------------
(* Properties *)

\* A hot call is dispatched inside the window of the settled call it relies
\* on, measured by the database, although only the runtime's clock is asked at
\* that moment and the replies to it may have been under way for any time
\* (mark_dispatch, m3CacheDecisionForReserve).
DispatchInWindow ==
    \A d \in dispatched : d.at < received[d.seed] + Window

\* A worker that would still dispatch its hot call holds the job: its fence is
\* the current one and its lease has not run out, although the runtime looks at
\* no lease then (the deadline m3IssueCacheEvidence gives a decision once, and
\* no renewal moves).
HotHoldsLease ==
    \A w \in Worker : task[w].pc = "admitted" /\ InTime(w) => Holds(w)

\* When a call is admitted, every extraction that settled on the prefix since
\* the decision was made found the prefix in the cache or is outlived by one
\* that did: a decision is not used against newer knowledge (ReserveCall).
AdmittedOnNewest ==
    [][jobCall' # jobCall =>
          \A c \in Call :
              /\ stage[c] = "extraction" /\ verdict[c] \in {"miss", "incomplete"}
              /\ InWindow(c)
              => \E d \in Call : /\ stage[d] = "extraction" /\ verdict[d] = "hit"
                                 /\ received[c] <= received[d]]_vars
=============================================================================
