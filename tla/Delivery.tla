------------------------------ MODULE Delivery ------------------------------
(***************************************************************************)
(* How a background job that nobody works on is found again: the outbox    *)
(* row of the job (m3_outbox), the relay that copies it to a Redis stream, *)
(* the consumer group that reads the stream, the receipts and dead letters *)
(* by which a consumer remembers what it has dealt with, the handler that  *)
(* asks a runtime to resume the job, and the runtime's registry of tasks.  *)
(*                                                                         *)
(* PostgreSQL is the authority.  Redis may lose everything, a consumer or  *)
(* a runtime may die between any two steps, a reply may be lost.           *)
(*                                                                         *)
(* Bounds: MaxCopies messages of one job in the stream, MaxTrouble faults. *)
(* A message id is reused once nobody refers to the old message; Redis     *)
(* never reuses one, and no step compares two ids but for equality.        *)
(* BatchSize is 1: the claim cursor matters most then.                     *)
(***************************************************************************)
EXTENDS Naturals, Sequences, FiniteSets

CONSTANTS
    Job,
    Consumer,      \* an API process: a relay loop and a consumer loop
    MsgId,         \* ids of stream entries
    MaxCopies,     \* bound: copies of a job's notification in the stream
    MaxTrouble,    \* bound: faults in one behaviour
    NoJob          \* what an unreadable message refers to

ASSUME DeliveryAssumption ==
    /\ {MaxCopies, MaxTrouble} \subseteq Nat
    /\ IsFiniteSet(Job) /\ NoJob \notin Job

VARIABLES
    ended,         \* jobs in a terminal state
    busy,          \* jobs that have a live lease or an unsettled call
    foreign,       \* open jobs of another ConfigVersion
    mark, order,   \* m3_outbox: notified_at, as an age and as an order
    relay,         \* the transaction a relay is in
    fresh, pending,     \* the stream: not yet delivered, delivered
    receipts, dead,     \* m4_delivery_receipts, m4_delivery_dead_letters
    cursor, turn,  \* a consumer's claim cursor; what its next poll does
    hand,          \* the message a consumer is processing
    active, closing,    \* the runtime's TaskRegistry
    sent,          \* history: jobs whose notification reached the stream
    trouble, losses     \* faults so far, and losses of the stream among them

jobs   == <<ended, busy, foreign>>
outbox == <<mark, order>>
stream == <<fresh, pending>>
ledger == <<receipts, dead>>
poll   == <<cursor, turn>>
tasks  == <<active, closing>>
faults == <<trouble, losses>>
vars   == <<ended, busy, foreign, mark, order, relay, fresh, pending, receipts,
            dead, cursor, turn, hand, active, closing, sent, trouble, losses>>

Message == [id : MsgId, job : Job \cup {NoJob}]

\* The steps of process: what it does next with the message in hand.
Step == {"check", "handle", "fail", "resume", "verify", "receipt", "dead", "ack"}
Idle == [pc |-> "idle"]
NoTx == [pc |-> "idle"]

Elements(s) == {s[i] : i \in DOMAIN s}
CutAt(s, i) == SubSeq(s, 1, i - 1) \o SubSeq(s, i + 1, Len(s))
Delivered == {p.msg : p \in Elements(pending)}
InStream == Elements(fresh) \cup Delivered
Held == {hand[c].msg : c \in {d \in Consumer : hand[d] # Idle}}
FreeId == MsgId \ {m.id : m \in InStream \cup Held}
Copies(j) == Cardinality({m \in InStream : m.job = j})
Without(S, i) == {m \in S : m.id # i}

TypeOK ==
    /\ ended \subseteq Job /\ busy \subseteq Job /\ foreign \subseteq Job
    /\ mark \in [Job -> {"never", "recent", "old"}]
    /\ Len(order) = Cardinality(Job) /\ Elements(order) = Job
    /\ relay \in [Consumer -> {NoTx} \cup [pc : {"locked", "sent"}, job : Job]]
    /\ \A m \in Elements(fresh) : m \in Message
    /\ \A p \in Elements(pending) : p \in [msg : Message, idle : BOOLEAN]
    /\ receipts \subseteq Message /\ dead \subseteq Message
    /\ \A c \in Consumer : cursor[c] \in 1..(Len(pending) + 1)
    /\ turn \in [Consumer -> {"claim", "read"}]
    /\ hand \in [Consumer -> {Idle} \cup [pc : Step, msg : Message]]
    /\ active \subseteq Job /\ closing \in BOOLEAN
    /\ sent \subseteq Job
    /\ trouble \in 0..MaxTrouble /\ losses \in 0..trouble

\* The outbox row is inserted by the transaction that creates the job.  Some
\* jobs may have been created under another configuration.
Init ==
    /\ ended = {} /\ foreign \in SUBSET Job
    /\ busy = Job
    /\ mark = [j \in Job |-> "never"]
    /\ order \in [1..Cardinality(Job) -> Job] /\ Elements(order) = Job
    /\ relay = [c \in Consumer |-> NoTx]
    /\ fresh = <<>> /\ pending = <<>>
    /\ receipts = {} /\ dead = {}
    /\ cursor = [c \in Consumer |-> 1]
    /\ turn = [c \in Consumer |-> "claim"]
    /\ hand = [c \in Consumer |-> Idle]
    /\ active = {} /\ closing = FALSE
    /\ sent = {} /\ trouble = 0 /\ losses = 0

-----------------------------------------------------------------------------
(* The job, as JobLifecycle describes it: workers take it, lose it, end it. *)

Open(j) == j \notin ended
Orphan(j) == Open(j) /\ j \notin busy

ChangeHold(j) ==
    /\ Open(j)
    /\ busy' = IF j \in busy THEN busy \ {j} ELSE busy \cup {j}
    /\ UNCHANGED <<ended, foreign, outbox, relay, stream, ledger, poll, hand,
                   tasks, sent, faults>>

EndJob(j) ==
    /\ Open(j)
    /\ ended' = ended \cup {j}
    /\ UNCHANGED <<busy, foreign, outbox, relay, stream, ledger, poll, hand,
                   tasks, sent, faults>>

-----------------------------------------------------------------------------
(* The relay: one transaction around one XADD *)

\* Seeded fault: a row is relayed once.
ReplayOnce(j) == mark[j] = "never"

\* Never notified, or open and not notified for ReplayAfter.
ReplayDue(j) == mark[j] = "never" \/ (Open(j) /\ mark[j] = "old")

Locked(j) == \E c \in Consumer : relay[c] # NoTx /\ relay[c].job = j

\* FOR UPDATE SKIP LOCKED LIMIT 1, least recently notified first.
Selectable(j) == ReplayDue(j) /\ ~Locked(j) /\ Copies(j) < MaxCopies
RelaySelect(c) ==
    /\ relay[c] = NoTx
    /\ \E i \in DOMAIN order :
          /\ Selectable(order[i])
          /\ \A k \in 1..(i - 1) : ~Selectable(order[k])
          /\ relay' = [relay EXCEPT ![c] = [pc |-> "locked", job |-> order[i]]]
    /\ UNCHANGED <<jobs, outbox, stream, ledger, poll, hand, tasks, sent, faults>>

\* XADD: a new id, so no receipt or dead letter has it.
Enqueue(j) ==
    \E i \in FreeId :
        /\ fresh' = Append(fresh, [id |-> i, job |-> j])
        /\ receipts' = Without(receipts, i)
        /\ dead' = Without(dead, i)

RelaySend(c) ==
    /\ relay[c].pc = "locked"
    /\ Enqueue(relay[c].job)
    /\ relay' = [relay EXCEPT ![c].pc = "sent"]
    /\ sent' = sent \cup {relay[c].job}
    /\ UNCHANGED <<jobs, outbox, pending, poll, hand, tasks, faults>>

\* A transaction marks its row only after XADD has answered.
MarkAllowed(c) == relay[c].pc = "sent"

\* The row's notified_at is now the latest of all.
Behind(j) ==
    LET i == CHOOSE k \in DOMAIN order : order[k] = j IN CutAt(order, i) \o <<j>>

RelayMark(c) ==
    /\ MarkAllowed(c)
    /\ LET j == relay[c].job IN
          /\ mark' = [mark EXCEPT ![j] = "recent"]
          /\ order' = Behind(j)
    /\ relay' = [relay EXCEPT ![c] = NoTx]
    /\ UNCHANGED <<jobs, stream, ledger, poll, hand, tasks, sent, faults>>

\* XADD fails or times out, with or without effect; the row is rolled back.
RelaySendFails(c) ==
    /\ trouble < MaxTrouble
    /\ relay[c].pc = "locked"
    /\ \/ Enqueue(relay[c].job) /\ sent' = sent \cup {relay[c].job}
       \/ UNCHANGED <<fresh, ledger, sent>>
    /\ relay' = [relay EXCEPT ![c] = NoTx]
    /\ trouble' = trouble + 1
    /\ UNCHANGED <<jobs, outbox, pending, poll, hand, tasks, losses>>

\* ReplayAfter passes.
AgeMarker(j) ==
    /\ mark[j] = "recent"
    /\ mark' = [mark EXCEPT ![j] = "old"]
    /\ UNCHANGED <<jobs, order, relay, stream, ledger, poll, hand, tasks, sent, faults>>

-----------------------------------------------------------------------------
(* Redis *)

\* ClaimIdle passes since the message was delivered.
GoIdle(id) ==
    /\ \E i \in DOMAIN pending :
          /\ pending[i].msg.id = id /\ ~pending[i].idle
          /\ pending' = [pending EXCEPT ![i].idle = TRUE]
    /\ UNCHANGED <<jobs, outbox, relay, fresh, ledger, poll, hand, tasks, sent, faults>>

\* The stream is lost; the next poll creates it and the group again.
LoseStream ==
    /\ trouble < MaxTrouble
    /\ InStream # {}
    /\ fresh' = <<>> /\ pending' = <<>>
    /\ cursor' = [c \in Consumer |-> 1]
    /\ trouble' = trouble + 1 /\ losses' = losses + 1
    /\ UNCHANGED <<jobs, outbox, relay, ledger, turn, hand, tasks, sent>>

\* Something else writes to the stream.
ForeignMessage ==
    /\ trouble < MaxTrouble
    /\ Enqueue(NoJob)
    /\ trouble' = trouble + 1
    /\ UNCHANGED <<jobs, outbox, relay, pending, poll, hand, tasks, sent, losses>>

-----------------------------------------------------------------------------
(* A poll: claim what has been pending for long, then read what is new *)

Take(c, m) == hand' = [hand EXCEPT ![c] = [pc |-> "check", msg |-> m]]

\* Seeded fault: every poll claims from the start.
CursorStays(i) == 1

\* XAUTOCLAIM from the cursor; "0-0", the start, follows the last entry.
NextCursor(i) == IF i = Len(pending) THEN 1 ELSE i + 1

ClaimOld(c) ==
    /\ hand[c] = Idle /\ turn[c] = "claim"
    /\ \E i \in cursor[c]..Len(pending) :
          /\ pending[i].idle
          /\ \A k \in cursor[c]..(i - 1) : ~pending[k].idle
          /\ Take(c, pending[i].msg)
          /\ pending' = [pending EXCEPT ![i].idle = FALSE]
          /\ cursor' = [cursor EXCEPT ![c] = NextCursor(i)]
    /\ turn' = [turn EXCEPT ![c] = "read"]
    /\ UNCHANGED <<jobs, outbox, relay, fresh, ledger, tasks, sent, faults>>

ClaimNothing(c) ==
    /\ hand[c] = Idle /\ turn[c] = "claim"
    /\ \A i \in cursor[c]..Len(pending) : ~pending[i].idle
    /\ cursor' = [cursor EXCEPT ![c] = 1]
    /\ turn' = [turn EXCEPT ![c] = "read"]
    /\ UNCHANGED <<jobs, outbox, relay, stream, ledger, hand, tasks, sent, faults>>

ReadNew(c) ==
    /\ hand[c] = Idle /\ turn[c] = "read"
    /\ IF fresh = <<>>
         THEN UNCHANGED <<stream, hand>>
         ELSE /\ Take(c, Head(fresh))
              /\ pending' = Append(pending, [msg |-> Head(fresh), idle |-> FALSE])
              /\ fresh' = Tail(fresh)
    /\ turn' = [turn EXCEPT ![c] = "claim"]
    /\ UNCHANGED <<jobs, outbox, relay, ledger, cursor, tasks, sent, faults>>

-----------------------------------------------------------------------------
(* process, step by step *)

GoTo(c, pc) == hand' = [hand EXCEPT ![c].pc = pc]
Drop(c) == hand' = [hand EXCEPT ![c] = Idle]

Check(c) ==
    /\ hand[c].pc = "check"
    /\ LET m == hand[c].msg IN
          GoTo(c, IF m \in receipts \cup dead THEN "ack"
                  ELSE IF m.job = NoJob THEN "dead" ELSE "handle")
    /\ UNCHANGED <<jobs, outbox, relay, stream, ledger, poll, tasks, sent, faults>>

\* handleM4Notification reads the job; its sweeps are EndJob steps before it.
Handle(c) ==
    /\ hand[c].pc = "handle"
    /\ LET j == hand[c].msg.job IN
          CASE j \in ended -> GoTo(c, "verify")
            [] Open(j) /\ j \in busy -> Drop(c)
            [] Orphan(j) ->
                  GoTo(c, IF j \in foreign THEN "fail" ELSE "resume")
    /\ UNCHANGED <<jobs, outbox, relay, stream, ledger, poll, tasks, sent, faults>>

\* failM4Recovery looks at the job again, under its lock.  A lease stops it, an
\* unsettled call does not.
FailRecovery(c) ==
    /\ hand[c].pc = "fail"
    /\ LET j == hand[c].msg.job IN
          \/ Open(j) /\ j \in busy /\ Drop(c) /\ UNCHANGED ended
          \/ GoTo(c, "verify") /\ ended' = ended \cup {j}
    /\ UNCHANGED <<busy, foreign, outbox, relay, stream, ledger, poll, tasks, sent, faults>>

\* Seeded fault: an accepted ResumeJob counts as the end of the job.
RegisterSettles(c) ==
    /\ hand[c].pc = "resume"
    /\ active' = IF closing THEN active ELSE active \cup {hand[c].msg.job}
    /\ GoTo(c, "receipt")
    /\ UNCHANGED <<jobs, outbox, relay, stream, ledger, poll, closing, sent, faults>>

\* ResumeJob and TaskRegistry.register: once per job while it is active.
Register(c) ==
    /\ hand[c].pc = "resume"
    /\ active' = IF closing THEN active ELSE active \cup {hand[c].msg.job}
    /\ Drop(c)
    /\ UNCHANGED <<jobs, outbox, relay, stream, ledger, poll, closing, sent, faults>>

\* Seeded fault: the message is acknowledged before the receipt is stored.
AckAtOnce(c) ==
    /\ hand[c].pc = "verify"
    /\ IF hand[c].msg.job \in ended THEN GoTo(c, "ack") ELSE Drop(c)
    /\ UNCHANGED <<jobs, outbox, relay, stream, ledger, poll, tasks, sent, faults>>

\* requireTerminal: the handler's word is not enough.
RequireTerminal(c) ==
    /\ hand[c].pc = "verify"
    /\ IF hand[c].msg.job \in ended THEN GoTo(c, "receipt") ELSE Drop(c)
    /\ UNCHANGED <<jobs, outbox, relay, stream, ledger, poll, tasks, sent, faults>>

Receipt(c) ==
    /\ hand[c].pc = "receipt"
    /\ receipts' = receipts \cup {hand[c].msg}
    /\ GoTo(c, "ack")
    /\ UNCHANGED <<jobs, outbox, relay, stream, dead, poll, tasks, sent, faults>>

DeadLetter(c) ==
    /\ hand[c].pc = "dead"
    /\ dead' = dead \cup {hand[c].msg}
    /\ GoTo(c, "ack")
    /\ UNCHANGED <<jobs, outbox, relay, stream, receipts, poll, tasks, sent, faults>>

\* XACK; the cursors keep pointing at the same entries.
Ack(c) ==
    /\ hand[c].pc = "ack"
    /\ LET m == hand[c].msg IN
          \/ \E i \in DOMAIN pending :
                /\ pending[i].msg = m
                /\ pending' = CutAt(pending, i)
                /\ cursor' = [d \in Consumer |->
                        IF i < cursor[d] THEN cursor[d] - 1 ELSE cursor[d]]
          \/ m \notin Delivered /\ UNCHANGED <<pending, cursor>>
    /\ Drop(c)
    /\ UNCHANGED <<jobs, outbox, relay, fresh, ledger, turn, tasks, sent, faults>>

\* PostgreSQL, Redis or the runtime does not answer: the message stays pending.
ProcessFails(c) ==
    /\ trouble < MaxTrouble
    /\ hand[c] # Idle
    /\ Drop(c)
    /\ trouble' = trouble + 1
    /\ UNCHANGED <<jobs, outbox, relay, stream, ledger, poll, tasks, sent, losses>>

\* The process dies and starts again with a new consumer name.
Crash(c) ==
    /\ trouble < MaxTrouble
    /\ hand[c] # Idle \/ relay[c] # NoTx
    /\ Drop(c)
    /\ relay' = [relay EXCEPT ![c] = NoTx]
    /\ cursor' = [cursor EXCEPT ![c] = 1]
    /\ turn' = [turn EXCEPT ![c] = "claim"]
    /\ trouble' = trouble + 1
    /\ UNCHANGED <<jobs, outbox, stream, ledger, tasks, sent, losses>>

-----------------------------------------------------------------------------
(* The runtime's TaskRegistry *)

\* The done callback: the task returned, failed or was cancelled.
TaskDone(j) ==
    /\ j \in active
    /\ active' = active \ {j}
    /\ UNCHANGED <<jobs, outbox, relay, stream, ledger, poll, hand, closing, sent, faults>>

\* shutdown: no task is registered any more.
RuntimeStop ==
    /\ trouble < MaxTrouble
    /\ ~closing
    /\ closing' = TRUE
    /\ trouble' = trouble + 1
    /\ UNCHANGED <<jobs, outbox, relay, stream, ledger, poll, hand, active, sent, losses>>

RuntimeStart ==
    /\ closing
    /\ closing' = FALSE /\ active' = {}
    /\ UNCHANGED <<jobs, outbox, relay, stream, ledger, poll, hand, sent, faults>>

-----------------------------------------------------------------------------

RelayLoop(c) == RelaySelect(c) \/ RelaySend(c) \/ RelayMark(c)
ConsumerLoop(c) ==
    \/ ClaimOld(c) \/ ClaimNothing(c) \/ ReadNew(c)
    \/ Check(c) \/ Handle(c) \/ FailRecovery(c) \/ Register(c)
    \/ RequireTerminal(c) \/ Receipt(c) \/ DeadLetter(c) \/ Ack(c)

Next ==
    \/ \E c \in Consumer : RelayLoop(c) \/ ConsumerLoop(c)
    \/ \E c \in Consumer : RelaySendFails(c) \/ ProcessFails(c) \/ Crash(c)
    \/ \E j \in Job : ChangeHold(j) \/ EndJob(j) \/ AgeMarker(j) \/ TaskDone(j)
    \/ \E id \in MsgId : GoIdle(id)
    \/ LoseStream \/ ForeignMessage \/ RuntimeStop \/ RuntimeStart

Spec == Init /\ [][Next]_vars

\* Run starts both loops and each step of a loop is bounded by a timeout; time
\* passes.  Nothing is assumed of workers, of the runtime or of Redis.
Fairness ==
    /\ \A c \in Consumer : WF_vars(RelayLoop(c)) /\ WF_vars(ConsumerLoop(c))
    /\ \A j \in Job : WF_vars(AgeMarker(j))
    /\ \A id \in MsgId : WF_vars(GoIdle(id))
FairSpec == Spec /\ Fairness

-----------------------------------------------------------------------------
(* Properties *)

\* A verdict on a job's notification is durable only after the job's end, and
\* only unreadable messages become dead letters.
VerdictMeansEnded ==
    /\ \A m \in receipts : m.job \in ended
    /\ \A m \in dead : m.job = NoJob

\* notified_at is set only for a job whose notification was in the stream:
\* the marker never hides a notification that Redis did not take.
MarkerMeansSent == \A j \in Job : mark[j] # "never" => j \in sent

\* A message leaves the stream only when the whole stream is lost, or after a
\* verdict on it has been stored; a crash cannot acknowledge it first.
OnlySettledLeaves ==
    [][losses' = losses =>
          InStream \ InStream' \subseteq receipts \cup dead]_vars

\* A job that nobody works on does not stay unregistered for ever while a
\* runtime is up: whatever was lost, its notification comes again.
OrphanResumed ==
    \A j \in Job : []<>(~Orphan(j) \/ j \in active \/ closing)

\* The messages of ended jobs, and the unreadable ones, are drained, although
\* those of open jobs stay and are claimed again and again.
PendingDrains ==
    \A i \in MsgId :
        []<>(\A m \in InStream : m.id = i => m.job \notin ended \cup {NoJob})
=============================================================================
