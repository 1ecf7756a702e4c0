--------------------------- MODULE Delivery_proofs ---------------------------
(***************************************************************************)
(* Proofs of the safety of Delivery for any numbers of jobs, consumers,    *)
(* message ids, copies and faults.  What makes the verdicts safe is what a *)
(* consumer has found out about the message in its hand (Steps), and that  *)
(* nothing takes back a verdict on a message somebody still holds.         *)
(***************************************************************************)
EXTENDS Delivery, SequenceTheorems, FiniteSetTheorems, TLAPS

Entry == [msg : Message, idle : BOOLEAN]

Types ==
    /\ relay \in [Consumer -> {NoTx} \cup [pc : {"locked", "sent"}, job : Job]]
    /\ hand \in [Consumer -> {Idle} \cup [pc : Step, msg : Message]]
    /\ mark \in [Job -> {"never", "recent", "old"}]
    /\ receipts \subseteq Message /\ dead \subseteq Message
    /\ fresh \in Seq(Message) /\ pending \in Seq(Entry)
    /\ losses \in Nat

\* Every job has a row.
Rows == order \in Seq(Job) /\ Elements(order) = Job

Cursors == cursor \in [Consumer -> Nat \ {0}]

\* What a consumer knows of the message in its hand at each step.
Steps ==
    \A c \in Consumer :
        /\ hand[c].pc = "receipt" => hand[c].msg.job \in ended
        /\ hand[c].pc = "dead" => hand[c].msg.job = NoJob
        /\ hand[c].pc = "ack" => hand[c].msg \in receipts \cup dead

\* A relay that may mark its row has sent the message.
Sent == \A c \in Consumer : relay[c].pc = "sent" => relay[c].job \in sent

IInv == Types /\ Rows /\ Cursors /\ VerdictMeansEnded /\ Steps /\ MarkerMeansSent /\ Sent

-----------------------------------------------------------------------------
(* What the steps have in common *)

\* All but one place of a sequence are left.
LEMMA Cut ==
    ASSUME NEW S, NEW s \in Seq(S), NEW i \in DOMAIN s
    PROVE  /\ CutAt(s, i) \in Seq(S)
           /\ Elements(CutAt(s, i)) \subseteq Elements(s)
           /\ Elements(s) \subseteq Elements(CutAt(s, i)) \cup {s[i]}
<1> DEFINE a == SubSeq(s, 1, i - 1)
           b == SubSeq(s, i + 1, Len(s))
<1>1. i \in 1..Len(s) /\ Len(s) \in Nat
  OBVIOUS
<1>2. a \in Seq(S) /\ Len(a) = i - 1 /\ \A k \in 1..(i - 1) : a[k] = s[k]
  BY <1>1
<1>3. b \in Seq(S) /\ Len(b) = Len(s) - i /\ \A k \in 1..(Len(s) - i) : b[k] = s[i + k]
  BY <1>1
<1> HIDE DEF a, b
<1>4. CutAt(s, i) = a \o b
  BY DEF CutAt, a, b
<1>5. PICK t : t = CutAt(s, i)
  OBVIOUS
<1>6. /\ t \in Seq(S) /\ Len(t) = Len(a) + Len(b)
      /\ \A k \in 1..(Len(a) + Len(b)) : t[k] = IF k <= Len(a) THEN a[k] ELSE b[k - Len(a)]
  <2>1. a \in Seq(S) /\ b \in Seq(S)
    BY <1>2, <1>3
  <2>2. /\ (a \o b) \in Seq(S) /\ Len(a \o b) = Len(a) + Len(b)
        /\ \A k \in 1..(Len(a) + Len(b)) :
              (a \o b)[k] = IF k <= Len(a) THEN a[k] ELSE b[k - Len(a)]
    BY <2>1, ConcatProperties, Zenon
  <2>3. t = a \o b
    BY <1>4, <1>5
  <2> QED  BY <2>2, <2>3, Zenon
<1>7. DOMAIN t = 1..(Len(s) - 1) /\ DOMAIN s = 1..Len(s)
  <2>1. t \in Seq(S) /\ Len(t) = Len(a) + Len(b)
    BY <1>6
  <2>2. Len(t) = Len(s) - 1
    BY <1>1, <1>2, <1>3, <2>1
  <2>3. DOMAIN t = 1..Len(t)
    BY <2>1
  <2> QED  BY <1>1, <2>2, <2>3
<1>8. ASSUME NEW k \in 1..(i - 1)  PROVE t[k] = s[k]
  <2>1. k \in 1..(Len(a) + Len(b)) /\ k <= Len(a)
    BY <1>1, <1>2, <1>3, <1>8
  <2>2. t[k] = a[k]
    BY <1>6, <2>1
  <2> QED  BY <1>2, <1>8, <2>2
<1>9. ASSUME NEW k \in i..(Len(s) - 1)  PROVE t[k] = s[k + 1]
  <2>1. k \in 1..(Len(a) + Len(b)) /\ ~(k <= Len(a))
    BY <1>1, <1>2, <1>3, <1>9
  <2>2. t[k] = b[k - (i - 1)]
    BY <1>2, <1>6, <2>1
  <2>3. k - (i - 1) \in 1..(Len(s) - i) /\ i + (k - (i - 1)) = k + 1
    BY <1>1, <1>9
  <2> QED  BY <1>3, <2>2, <2>3
<1>10. \A k \in DOMAIN t : \E n \in DOMAIN s : t[k] = s[n]
  <2>1. SUFFICES ASSUME NEW k \in 1..(Len(s) - 1)
                 PROVE  \E n \in 1..Len(s) : t[k] = s[n]
    BY <1>7
  <2>2. CASE k \in 1..(i - 1)
    BY <1>1, <1>8, <2>2
  <2>3. CASE k \in i..(Len(s) - 1)
    <3>1. k + 1 \in 1..Len(s)
      BY <1>1, <2>3
    <3> QED  BY <1>9, <2>3, <3>1
  <2> QED  BY <1>1, <2>2, <2>3
<1>11. ASSUME NEW n \in DOMAIN s, n # i
       PROVE  \E k \in DOMAIN t : t[k] = s[n]
  <2>1. CASE n < i
    <3>1. n \in 1..(i - 1) /\ n \in 1..(Len(s) - 1)
      BY <1>1, <1>7, <1>11, <2>1
    <3> QED  BY <1>7, <1>8, <3>1
  <2>2. CASE n > i
    <3>1. n - 1 \in i..(Len(s) - 1) /\ n - 1 \in 1..(Len(s) - 1) /\ (n - 1) + 1 = n
      BY <1>1, <1>7, <1>11, <2>2
    <3>2. t[n - 1] = s[n]
      BY <1>9, <3>1
    <3> QED  BY <1>7, <3>1, <3>2
  <2> QED  BY <1>1, <1>7, <1>11, <2>1, <2>2
<1>12. Elements(t) \subseteq Elements(s)
  BY <1>10 DEF Elements
<1>13. Elements(s) \subseteq Elements(t) \cup {s[i]}
  BY <1>11 DEF Elements
<1>14. t \in Seq(S)
  BY <1>6
<1> QED  BY <1>5, <1>12, <1>13, <1>14

LEMMA BehindIs ==
    ASSUME Rows, NEW j \in Job
    PROVE  Behind(j) \in Seq(Job) /\ Elements(Behind(j)) = Job
<1> DEFINE i == CHOOSE k \in DOMAIN order : order[k] = j
           s == CutAt(order, i)
<1>1. i \in DOMAIN order /\ order[i] = j
  BY DEF Rows, Elements
<1>2. s \in Seq(Job) /\ Job \subseteq Elements(s) \cup {j}
  <2> HIDE DEF i
  <2> QED  BY <1>1, Cut DEF Rows
<1>3. Behind(j) = s \o <<j>>
  BY DEF Behind
<1> HIDE DEF s
<1>4. /\ (s \o <<j>>) \in Seq(Job) /\ Len(s \o <<j>>) = Len(s) + 1 /\ Len(s) \in Nat
      /\ \A k \in 1..Len(s) : (s \o <<j>>)[k] = s[k]
      /\ (s \o <<j>>)[Len(s) + 1] = j
  BY <1>2
<1>5. Elements(s \o <<j>>) \subseteq Job
  BY <1>4 DEF Elements
<1>6. Elements(s) \cup {j} \subseteq Elements(s \o <<j>>)
  BY <1>2, <1>4 DEF Elements
<1> QED  BY <1>2, <1>3, <1>4, <1>5, <1>6

\* A consumer with a message in its hand holds a record.
LEMMA InHand ==
    ASSUME Types, NEW c \in Consumer, hand[c].pc # "idle"
    PROVE  hand[c] \in [pc : Step, msg : Message] /\ hand[c] # Idle
BY DEF Types, Idle

LEMMA InTx ==
    ASSUME Types, NEW c \in Consumer, relay[c].pc # "idle"
    PROVE  relay[c] \in [pc : {"locked", "sent"}, job : Job]
BY DEF Types, NoTx

\* A new id takes no verdict from a message in somebody's hand.
LEMMA EnqueueKeeps ==
    ASSUME IInv, NEW j \in Job \cup {NoJob}, Enqueue(j)
    PROVE  /\ fresh' \in Seq(Message) /\ Elements(fresh) \subseteq Elements(fresh)'
           /\ receipts' \subseteq receipts /\ dead' \subseteq dead
           /\ \A c \in Consumer : hand[c].pc = "ack" => hand[c].msg \in (receipts \cup dead)'
<1>1. PICK i \in FreeId : /\ fresh' = Append(fresh, [id |-> i, job |-> j])
                          /\ receipts' = Without(receipts, i)
                          /\ dead' = Without(dead, i)
  BY DEF Enqueue
<1>2. [id |-> i, job |-> j] \in Message
  BY DEF Message, FreeId
<1>3. fresh' \in Seq(Message) /\ Elements(fresh) \subseteq Elements(fresh)'
  <2>1. fresh \in Seq(Message)
    BY DEF IInv, Types
  <2>2. /\ fresh' \in Seq(Message) /\ Len(fresh') = Len(fresh) + 1
        /\ \A k \in 1..Len(fresh) : fresh'[k] = fresh[k]
    BY <1>1, <1>2, <2>1
  <2>3. DOMAIN fresh \subseteq DOMAIN fresh' /\ \A k \in DOMAIN fresh : fresh'[k] = fresh[k]
    BY <2>1, <2>2
  <2>4. Elements(fresh) \subseteq Elements(fresh)'
    BY <2>3, Zenon DEF Elements
  <2> QED  BY <2>2, <2>4
<1>4. ASSUME NEW c \in Consumer, hand[c].pc = "ack"
      PROVE  hand[c].msg \in (receipts \cup dead)'
  <2>1. hand[c] # Idle
    BY <1>4, InHand DEF IInv
  <2>2. hand[c].msg \in Held
    BY <2>1 DEF Held
  <2>3. hand[c].msg.id # i
    BY <1>1, <2>2 DEF FreeId
  <2>4. hand[c].msg \in receipts \cup dead
    BY <1>4 DEF IInv, Steps
  <2> QED  BY <1>1, <2>3, <2>4 DEF Without
<1> QED  BY <1>1, <1>3, <1>4 DEF Without

\* Verdicts, hands and ended are all that the first three conjuncts speak of.
LEMMA HandsKept ==
    ASSUME IInv, UNCHANGED hand, ended \subseteq ended',
           receipts' \subseteq receipts, dead' \subseteq dead,
           \A c \in Consumer : hand[c].pc = "ack" => hand[c].msg \in (receipts \cup dead)'
    PROVE  VerdictMeansEnded' /\ Steps'
BY DEF IInv, VerdictMeansEnded, Steps

LEMMA RowsKept ==
    ASSUME IInv, UNCHANGED order
    PROVE  Rows'
BY DEF IInv, Rows, Elements

LEMMA MarksKept ==
    ASSUME IInv, UNCHANGED <<mark, relay>>, sent \subseteq sent'
    PROVE  MarkerMeansSent' /\ Sent'
BY DEF IInv, MarkerMeansSent, Sent

\* A consumer goes on to a step at which nothing is known of its message, or
\* to one whose knowledge it has.
LEMMA OneHand ==
    ASSUME IInv, NEW c \in Consumer, NEW h \in {Idle} \cup [pc : Step, msg : Message],
           hand' = [hand EXCEPT ![c] = h],
           UNCHANGED <<receipts, dead>>, ended \subseteq ended',
           h.pc = "receipt" => h.msg.job \in ended',
           h.pc = "dead" => h.msg.job = NoJob,
           h.pc = "ack" => h.msg \in receipts \cup dead
    PROVE  VerdictMeansEnded' /\ Steps'
<1>1. VerdictMeansEnded'
  BY DEF IInv, VerdictMeansEnded
<1>2. ASSUME NEW d \in Consumer
      PROVE  /\ hand'[d].pc = "receipt" => hand'[d].msg.job \in ended'
             /\ hand'[d].pc = "dead" => hand'[d].msg.job = NoJob
             /\ hand'[d].pc = "ack" => hand'[d].msg \in receipts' \cup dead'
  <2>1. CASE d = c
    <3>1. hand'[d] = h
      BY <2>1 DEF IInv, Types
    <3> QED  BY <3>1
  <2>2. CASE d # c
    <3>1. hand'[d] = hand[d]
      BY <2>2 DEF IInv, Types
    <3> QED  BY <3>1 DEF IInv, Steps
  <2> QED  BY <2>1, <2>2
<1> QED  BY <1>1, <1>2 DEF Steps

LEMMA GoToIs ==
    ASSUME IInv, NEW c \in Consumer, hand[c].pc # "idle", NEW p \in Step, GoTo(c, p)
    PROVE  /\ [pc |-> p, msg |-> hand[c].msg] \in [pc : Step, msg : Message]
           /\ hand' = [hand EXCEPT ![c] = [pc |-> p, msg |-> hand[c].msg]]
<1>1. hand[c] \in [pc : Step, msg : Message]
  BY InHand DEF IInv
<1>2. [hand[c] EXCEPT !.pc = p] = [pc |-> p, msg |-> hand[c].msg]
  BY <1>1
<1> QED  BY <1>1, <1>2 DEF GoTo

\* Going on to any step but the three that know something.
LEMMA GoOn ==
    ASSUME IInv, NEW c \in Consumer, hand[c].pc # "idle",
           NEW p \in {"check", "handle", "fail", "resume", "verify"}, GoTo(c, p),
           UNCHANGED <<receipts, dead>>, ended \subseteq ended'
    PROVE  hand' \in [Consumer -> {Idle} \cup [pc : Step, msg : Message]]
           /\ VerdictMeansEnded' /\ Steps'
<1> DEFINE h == [pc |-> p, msg |-> hand[c].msg]
<1>1. h \in [pc : Step, msg : Message] /\ hand' = [hand EXCEPT ![c] = h]
  BY GoToIs DEF Step
<1>2. h.pc \notin {"receipt", "dead", "ack"}
  OBVIOUS
<1>3. hand' \in [Consumer -> {Idle} \cup [pc : Step, msg : Message]]
  BY <1>1 DEF IInv, Types
<1> HIDE DEF h
<1> QED  BY <1>1, <1>2, <1>3, OneHand

LEMMA DropKeeps ==
    ASSUME IInv, NEW c \in Consumer, Drop(c),
           UNCHANGED <<receipts, dead>>, ended \subseteq ended'
    PROVE  hand' \in [Consumer -> {Idle} \cup [pc : Step, msg : Message]]
           /\ VerdictMeansEnded' /\ Steps'
<1>1. Idle.pc \notin {"receipt", "dead", "ack"}
  BY DEF Idle
<1>2. hand' = [hand EXCEPT ![c] = Idle]
  BY DEF Drop
<1>3. hand' \in [Consumer -> {Idle} \cup [pc : Step, msg : Message]]
  BY <1>2 DEF IInv, Types
<1> QED  BY <1>1, <1>2, <1>3, OneHand

LEMMA TakeKeeps ==
    ASSUME IInv, NEW c \in Consumer, NEW m \in Message, Take(c, m),
           UNCHANGED <<receipts, dead, ended>>
    PROVE  hand' \in [Consumer -> {Idle} \cup [pc : Step, msg : Message]]
           /\ VerdictMeansEnded' /\ Steps'
<1> DEFINE h == [pc |-> "check", msg |-> m]
<1>1. h \in [pc : Step, msg : Message] /\ hand' = [hand EXCEPT ![c] = h]
  BY DEF Take, Step
<1>2. h.pc \notin {"receipt", "dead", "ack"}
  OBVIOUS
<1>3. hand' \in [Consumer -> {Idle} \cup [pc : Step, msg : Message]]
  BY <1>1 DEF IInv, Types
<1> HIDE DEF h
<1> QED  BY <1>1, <1>2, <1>3, OneHand

-----------------------------------------------------------------------------
(* The relay *)

LEMMA RelayKeeps ==
    ASSUME IInv, NEW c \in Consumer, RelayLoop(c) \/ RelaySendFails(c)
    PROVE  IInv'
<1> USE DEF jobs, outbox, stream, ledger, poll, tasks, faults
<1>0. Cursors'
  BY DEF RelayLoop, RelaySelect, RelaySend, RelayMark, RelaySendFails, IInv, Cursors
<1>1. CASE RelaySelect(c)
  <2>1. PICK j \in Job : relay' = [relay EXCEPT ![c] = [pc |-> "locked", job |-> j]]
    <3>1. PICK i \in DOMAIN order : Selectable(order[i])
              /\ relay' = [relay EXCEPT ![c] = [pc |-> "locked", job |-> order[i]]]
      BY <1>1 DEF RelaySelect
    <3>2. order[i] \in Job
      BY <3>1 DEF IInv, Rows
    <3> QED  BY <3>1, <3>2
  <2>2. Types'
    BY <1>1, <2>1 DEF RelaySelect, IInv, Types
  <2>3. VerdictMeansEnded' /\ Steps'
    BY <1>1, HandsKept DEF RelaySelect, IInv, Steps
  <2>4. MarkerMeansSent' /\ Sent'
    BY <1>1, <2>1 DEF RelaySelect, IInv, Types, MarkerMeansSent, Sent
  <2> QED  BY <1>0, <1>1, <2>2, <2>3, <2>4, RowsKept DEF RelaySelect, IInv
<1>2. CASE RelaySend(c)
  <2>1. relay[c] \in [pc : {"locked", "sent"}, job : Job]
    BY <1>2, InTx DEF RelaySend, IInv
  <2>2. relay' = [relay EXCEPT ![c] = [pc |-> "sent", job |-> relay[c].job]]
    <3>1. [relay[c] EXCEPT !.pc = "sent"] = [pc |-> "sent", job |-> relay[c].job]
      BY <2>1
    <3> QED  BY <1>2, <3>1 DEF RelaySend
  <2>3. /\ fresh' \in Seq(Message) /\ receipts' \subseteq receipts /\ dead' \subseteq dead
        /\ \A d \in Consumer : hand[d].pc = "ack" => hand[d].msg \in (receipts \cup dead)'
    BY <1>2, <2>1, EnqueueKeeps DEF RelaySend
  <2>4. Types'
    BY <1>2, <2>1, <2>2, <2>3 DEF RelaySend, IInv, Types
  <2>5. VerdictMeansEnded' /\ Steps'
    BY <1>2, <2>3, HandsKept DEF RelaySend
  <2>6. MarkerMeansSent' /\ Sent'
    BY <1>2, <2>2 DEF RelaySend, IInv, Types, MarkerMeansSent, Sent
  <2> QED  BY <1>0, <1>2, <2>4, <2>5, <2>6, RowsKept DEF RelaySend, IInv
<1>3. CASE RelayMark(c)
  <2>1. relay[c] \in [pc : {"locked", "sent"}, job : Job] /\ relay[c].job \in sent
    BY <1>3, InTx DEF RelayMark, MarkAllowed, IInv, Sent
  <2>2. /\ mark' = [mark EXCEPT ![relay[c].job] = "recent"]
        /\ relay' = [relay EXCEPT ![c] = NoTx]
        /\ UNCHANGED <<ended, fresh, pending, receipts, dead, hand, sent, losses>>
    BY <1>3 DEF RelayMark
  <2>3. Types'
    BY <2>1, <2>2 DEF IInv, Types
  <2>7. Rows'
    <3>1. order' = Behind(relay[c].job)
      BY <1>3 DEF RelayMark
    <3>2. Elements(order)' = Elements(Behind(relay[c].job))
      BY <3>1 DEF Elements
    <3> QED  BY <2>1, <3>1, <3>2, BehindIs DEF IInv, Rows
  <2>4. VerdictMeansEnded' /\ Steps'
    BY <2>2, HandsKept DEF IInv, Steps
  <2>5. MarkerMeansSent'
    BY <2>1, <2>2 DEF IInv, Types, MarkerMeansSent
  <2>6. Sent'
    BY <2>1, <2>2 DEF IInv, Types, Sent, NoTx
  <2> QED  BY <1>0, <2>3, <2>4, <2>5, <2>6, <2>7 DEF IInv
<1>4. CASE RelaySendFails(c)
  <2>1. relay[c] \in [pc : {"locked", "sent"}, job : Job]
    BY <1>4, InTx DEF RelaySendFails, IInv
  <2>2. /\ relay' = [relay EXCEPT ![c] = NoTx]
        /\ UNCHANGED <<ended, mark, order, pending, hand, losses>>
        /\ \/ Enqueue(relay[c].job) /\ sent' = sent \cup {relay[c].job}
           \/ UNCHANGED <<fresh, receipts, dead, sent>>
    BY <1>4 DEF RelaySendFails
  <2>3. /\ fresh' \in Seq(Message) /\ receipts' \subseteq receipts /\ dead' \subseteq dead
        /\ \A d \in Consumer : hand[d].pc = "ack" => hand[d].msg \in (receipts \cup dead)'
    <3>1. CASE Enqueue(relay[c].job)
      BY <2>1, <3>1, EnqueueKeeps
    <3>2. CASE UNCHANGED <<fresh, receipts, dead>>
      BY <3>2 DEF IInv, Types, Steps
    <3> QED  BY <2>2, <3>1, <3>2
  <2>4. Types'
    BY <2>2, <2>3 DEF IInv, Types
  <2>5. VerdictMeansEnded' /\ Steps'
    BY <2>2, <2>3, HandsKept
  <2>6. MarkerMeansSent' /\ Sent'
    BY <2>2 DEF IInv, Types, MarkerMeansSent, Sent, NoTx
  <2> QED  BY <1>0, <2>2, <2>4, <2>5, <2>6, RowsKept DEF IInv
<1> QED  BY <1>1, <1>2, <1>3, <1>4 DEF RelayLoop

-----------------------------------------------------------------------------
(* The consumer *)

\* It holds what it has claimed or read, and knows nothing of it yet.
LEMMA PollKeeps ==
    ASSUME IInv, NEW c \in Consumer, ClaimOld(c) \/ ClaimNothing(c) \/ ReadNew(c)
    PROVE  IInv'
<1> USE DEF jobs, outbox, stream, ledger, poll, tasks, faults
<1>1. UNCHANGED <<ended, mark, order, relay, receipts, dead, sent, losses>>
  BY DEF ClaimOld, ClaimNothing, ReadNew
<1>2. /\ hand' \in [Consumer -> {Idle} \cup [pc : Step, msg : Message]]
      /\ VerdictMeansEnded' /\ Steps' /\ fresh' \in Seq(Message) /\ pending' \in Seq(Entry)
  <2>1. CASE ClaimOld(c)
    <3>1. PICK i \in 1..Len(pending) :
             /\ Take(c, pending[i].msg)
             /\ pending' = [pending EXCEPT ![i].idle = FALSE]
      <4>1. PICK i \in cursor[c]..Len(pending) :
               /\ pending[i].idle
               /\ Take(c, pending[i].msg)
               /\ pending' = [pending EXCEPT ![i].idle = FALSE]
        BY <2>1 DEF ClaimOld
      <4>2. i \in 1..Len(pending)
        BY <4>1 DEF IInv, Cursors
      <4> QED  BY <4>1, <4>2
    <3>2. pending[i] \in Entry
      BY DEF IInv, Types
    <3>3. pending[i].msg \in Message /\ [pending[i] EXCEPT !.idle = FALSE] \in Entry
      BY <3>2 DEF Entry
    <3>4. pending' \in Seq(Entry)
      BY <3>1, <3>3 DEF IInv, Types
    <3>5. fresh' = fresh
      BY <2>1 DEF ClaimOld
    <3> QED  BY <1>1, <3>1, <3>3, <3>4, <3>5, TakeKeeps DEF IInv, Types
  <2>2. CASE ClaimNothing(c)
    <3>1. UNCHANGED <<fresh, pending, hand>>
      BY <2>2 DEF ClaimNothing
    <3> QED  BY <1>1, <3>1, HandsKept DEF IInv, Types, Steps
  <2>3. CASE ReadNew(c)
    <3>1. CASE fresh = <<>>
      <4>1. UNCHANGED <<fresh, pending, hand>>
        BY <2>3, <3>1 DEF ReadNew
      <4> QED  BY <1>1, <4>1, HandsKept DEF IInv, Types, Steps
    <3>2. CASE fresh # <<>>
      <4>1. PICK m : m = Head(fresh)
        OBVIOUS
      <4>2. m \in Message /\ Tail(fresh) \in Seq(Message)
        BY <3>2, <4>1 DEF IInv, Types
      <4>3. /\ Take(c, m) /\ fresh' = Tail(fresh)
            /\ pending' = Append(pending, [msg |-> m, idle |-> FALSE])
        BY <2>3, <3>2, <4>1 DEF ReadNew
      <4>4. [msg |-> m, idle |-> FALSE] \in Entry
        BY <4>2 DEF Entry
      <4>5. pending' \in Seq(Entry)
        BY <4>3, <4>4 DEF IInv, Types
      <4> QED  BY <1>1, <4>2, <4>3, <4>5, TakeKeeps
    <3> QED  BY <3>1, <3>2
  <2> QED  BY <2>1, <2>2, <2>3
<1>3. Types'
  BY <1>1, <1>2 DEF IInv, Types
<1>4. Cursors'
  <2>1. \A i \in Nat : NextCursor(i) \in Nat \ {0}
    BY DEF NextCursor
  <2>2. CASE ClaimOld(c)
    <3>1. PICK i \in cursor[c]..Len(pending) : cursor' = [cursor EXCEPT ![c] = NextCursor(i)]
      BY <2>2 DEF ClaimOld
    <3>2. i \in Nat
      BY <3>1 DEF IInv, Cursors
    <3> QED  BY <2>1, <3>1, <3>2 DEF IInv, Cursors
  <2>3. CASE ClaimNothing(c)
    BY <2>3 DEF ClaimNothing, IInv, Cursors
  <2>4. CASE ReadNew(c)
    BY <2>4 DEF ReadNew, IInv, Cursors
  <2> QED  BY <2>2, <2>3, <2>4
<1> QED  BY <1>1, <1>2, <1>3, <1>4, MarksKept, RowsKept DEF IInv

\* The steps that find out something, and those that store it.
LEMMA ProcessKeeps ==
    ASSUME IInv, NEW c \in Consumer,
           \/ Check(c) \/ Handle(c) \/ FailRecovery(c) \/ Register(c)
           \/ RequireTerminal(c) \/ Receipt(c) \/ DeadLetter(c) \/ Ack(c)
    PROVE  IInv'
<1> USE DEF jobs, outbox, stream, ledger, poll, tasks, faults
<1> DEFINE m == hand[c].msg
           Goal == /\ hand' \in [Consumer -> {Idle} \cup [pc : Step, msg : Message]]
                   /\ VerdictMeansEnded' /\ Steps'
                   /\ receipts' \subseteq Message /\ dead' \subseteq Message
                   /\ pending' \in Seq(Entry)
<1>1. UNCHANGED <<mark, order, relay, fresh, sent, losses>>
  BY DEF Check, Handle, FailRecovery, Register, RequireTerminal, Receipt, DeadLetter, Ack
<1>2. hand[c].pc # "idle"
  BY DEF Check, Handle, FailRecovery, Register, RequireTerminal, Receipt, DeadLetter, Ack
<1>3. hand[c] \in [pc : Step, msg : Message] /\ m \in Message
  BY <1>2, InHand DEF IInv
<1>4. /\ receipts \subseteq Message /\ dead \subseteq Message /\ pending \in Seq(Entry)
      /\ hand \in [Consumer -> {Idle} \cup [pc : Step, msg : Message]]
  BY DEF IInv, Types
<1>5. ASSUME Check(c)  PROVE Goal
  <2>1. UNCHANGED <<ended, receipts, dead, pending>>
    BY <1>5 DEF Check
  <2>2. CASE m \in receipts \cup dead
    <3>1. GoTo(c, "ack")
      BY <1>5, <2>2 DEF Check
    <3>2. hand' = [hand EXCEPT ![c] = [pc |-> "ack", msg |-> m]]
      BY <1>2, <3>1, GoToIs DEF Step
    <3>3. [pc |-> "ack", msg |-> m] \in [pc : Step, msg : Message]
      BY <1>3 DEF Step
    <3>4. VerdictMeansEnded' /\ Steps'
      BY <2>1, <2>2, <3>2, <3>3, OneHand
    <3> QED  BY <1>4, <2>1, <3>2, <3>3, <3>4
  <2>3. CASE m \notin receipts \cup dead /\ m.job = NoJob
    <3>1. GoTo(c, "dead")
      BY <1>5, <2>3 DEF Check
    <3>2. hand' = [hand EXCEPT ![c] = [pc |-> "dead", msg |-> m]]
      BY <1>2, <3>1, GoToIs DEF Step
    <3>3. [pc |-> "dead", msg |-> m] \in [pc : Step, msg : Message]
      BY <1>3 DEF Step
    <3>4. VerdictMeansEnded' /\ Steps'
      BY <2>1, <2>3, <3>2, <3>3, OneHand
    <3> QED  BY <1>4, <2>1, <3>2, <3>3, <3>4
  <2>4. CASE m \notin receipts \cup dead /\ m.job # NoJob
    <3>1. GoTo(c, "handle")
      BY <1>5, <2>4 DEF Check
    <3> QED  BY <1>2, <1>4, <2>1, <3>1, GoOn
  <2> QED  BY <2>2, <2>3, <2>4
<1>6. ASSUME Handle(c)  PROVE Goal
  <2>1. UNCHANGED <<ended, receipts, dead, pending>>
    BY <1>6 DEF Handle
  <2>2. \/ Drop(c) \/ GoTo(c, "verify") \/ GoTo(c, "fail") \/ GoTo(c, "resume")
    BY <1>6 DEF Handle, Open, Orphan
  <2> QED  BY <1>2, <1>4, <2>1, <2>2, GoOn, DropKeeps
<1>7. ASSUME FailRecovery(c)  PROVE Goal
  <2>1. UNCHANGED <<receipts, dead, pending>> /\ ended \subseteq ended'
    BY <1>7 DEF FailRecovery
  <2>2. Drop(c) \/ GoTo(c, "verify")
    BY <1>7 DEF FailRecovery
  <2> QED  BY <1>2, <1>4, <2>1, <2>2, GoOn, DropKeeps
<1>8. ASSUME Register(c)  PROVE Goal
  <2>1. UNCHANGED <<ended, receipts, dead, pending>> /\ Drop(c)
    BY <1>8 DEF Register
  <2> QED  BY <1>4, <2>1, DropKeeps
<1>9. ASSUME RequireTerminal(c)  PROVE Goal
  <2>1. UNCHANGED <<ended, receipts, dead, pending>>
    BY <1>9 DEF RequireTerminal
  <2>2. CASE m.job \in ended
    <3>1. GoTo(c, "receipt")
      BY <1>9, <2>2 DEF RequireTerminal
    <3>2. hand' = [hand EXCEPT ![c] = [pc |-> "receipt", msg |-> m]]
      BY <1>2, <3>1, GoToIs DEF Step
    <3>3. [pc |-> "receipt", msg |-> m] \in [pc : Step, msg : Message]
      BY <1>3 DEF Step
    <3>4. VerdictMeansEnded' /\ Steps'
      BY <2>1, <2>2, <3>2, <3>3, OneHand
    <3> QED  BY <1>4, <2>1, <3>2, <3>3, <3>4
  <2>3. CASE m.job \notin ended
    <3>1. Drop(c)
      BY <1>9, <2>3 DEF RequireTerminal
    <3> QED  BY <1>4, <2>1, <3>1, DropKeeps
  <2> QED  BY <2>2, <2>3
<1>10. ASSUME Receipt(c) \/ DeadLetter(c)  PROVE Goal
  <2>1. /\ UNCHANGED <<ended, pending>> /\ m \in receipts' \cup dead'
        /\ receipts \subseteq receipts' /\ dead \subseteq dead'
        /\ receipts' \subseteq Message /\ dead' \subseteq Message
        /\ GoTo(c, "ack")
    BY <1>3, <1>4, <1>10 DEF Receipt, DeadLetter
  <2>2. hand' = [hand EXCEPT ![c] = [pc |-> "ack", msg |-> m]]
    BY <1>2, <2>1, GoToIs DEF Step
  <2>3. [pc |-> "ack", msg |-> m] \in [pc : Step, msg : Message]
    BY <1>3 DEF Step
  <2>4. VerdictMeansEnded'
    BY <1>10, <2>1 DEF Receipt, DeadLetter, IInv, VerdictMeansEnded, Steps
  <2>5. Steps'
    <3>1. ASSUME NEW d \in Consumer
          PROVE  /\ hand'[d].pc = "receipt" => hand'[d].msg.job \in ended'
                 /\ hand'[d].pc = "dead" => hand'[d].msg.job = NoJob
                 /\ hand'[d].pc = "ack" => hand'[d].msg \in receipts' \cup dead'
      <4>1. CASE d = c
        <5>1. hand'[d] = [pc |-> "ack", msg |-> m]
          BY <1>4, <2>2, <4>1
        <5> QED  BY <2>1, <5>1
      <4>2. CASE d # c
        <5>1. hand'[d] = hand[d]
          BY <1>4, <2>2, <4>2
        <5> QED  BY <2>1, <5>1 DEF IInv, Steps
      <4> QED  BY <4>1, <4>2
    <3> QED  BY <3>1 DEF Steps
  <2> QED  BY <1>4, <2>1, <2>2, <2>3, <2>4, <2>5
<1>11. ASSUME Ack(c)  PROVE Goal
  <2>1. UNCHANGED <<ended, receipts, dead>> /\ Drop(c)
    BY <1>11 DEF Ack
  <2>2. pending' \in Seq(Entry)
    <3>1. CASE \E i \in DOMAIN pending : pending' = CutAt(pending, i)
      BY <1>4, <3>1, Cut
    <3>2. CASE pending' = pending
      BY <1>4, <3>2
    <3> QED  BY <1>11, <3>1, <3>2 DEF Ack
  <2> QED  BY <1>4, <2>1, <2>2, DropKeeps
<1>12. Goal
  <2> HIDE DEF Goal
  <2> QED  BY <1>5, <1>6, <1>7, <1>8, <1>9, <1>10, <1>11
<1>13. Types'
  BY <1>1, <1>12 DEF IInv, Types
<1>14. Cursors'
  <2>1. CASE Ack(c)
    <3>1. CASE \E i \in DOMAIN pending :
                  cursor' = [d \in Consumer |-> IF i < cursor[d] THEN cursor[d] - 1 ELSE cursor[d]]
      BY <1>4, <3>1 DEF IInv, Cursors
    <3>2. CASE cursor' = cursor
      BY <3>2 DEF IInv, Cursors
    <3> QED  BY <2>1, <3>1, <3>2 DEF Ack
  <2>2. CASE ~Ack(c)
    <3>1. cursor' = cursor
      BY <2>2 DEF Check, Handle, FailRecovery, Register, RequireTerminal, Receipt, DeadLetter
    <3> QED  BY <3>1 DEF IInv, Cursors
  <2> QED  BY <2>1, <2>2
<1> QED  BY <1>1, <1>12, <1>13, <1>14, MarksKept, RowsKept DEF IInv

-----------------------------------------------------------------------------
(* Everything else *)

LEMMA OthersKeep ==
    ASSUME IInv,
           \/ \E c \in Consumer : ProcessFails(c) \/ Crash(c)
           \/ \E j \in Job : ChangeHold(j) \/ EndJob(j) \/ AgeMarker(j) \/ TaskDone(j)
           \/ \E id \in MsgId : GoIdle(id)
           \/ LoseStream \/ ForeignMessage \/ RuntimeStop \/ RuntimeStart
    PROVE  IInv'
<1> USE DEF jobs, outbox, stream, ledger, poll, tasks, faults
<1>1. ASSUME NEW c \in Consumer, ProcessFails(c)  PROVE IInv'
  <2>1. /\ Drop(c)
        /\ UNCHANGED <<ended, receipts, dead, mark, order, relay, fresh, pending, cursor, sent, losses>>
    BY <1>1 DEF ProcessFails
  <2>2. Types'
    BY <2>1, DropKeeps DEF IInv, Types
  <2> QED  BY <2>1, <2>2, DropKeeps, MarksKept, RowsKept DEF IInv, Cursors
<1>2. ASSUME NEW c \in Consumer, Crash(c)  PROVE IInv'
  <2>1. /\ Drop(c) /\ relay' = [relay EXCEPT ![c] = NoTx] /\ cursor' = [cursor EXCEPT ![c] = 1]
        /\ UNCHANGED <<ended, receipts, dead, mark, order, fresh, pending, sent, losses>>
    BY <1>2 DEF Crash
  <2>2. Types'
    BY <2>1, DropKeeps DEF IInv, Types
  <2>3. Cursors'
    BY <2>1 DEF IInv, Cursors
  <2>4. MarkerMeansSent' /\ Sent'
    BY <2>1 DEF IInv, Types, MarkerMeansSent, Sent, NoTx
  <2> QED  BY <2>1, <2>2, <2>3, <2>4, DropKeeps, RowsKept DEF IInv
<1>3. ASSUME NEW j \in Job, ChangeHold(j) \/ EndJob(j) \/ TaskDone(j)  PROVE IInv'
  <2>1. /\ ended \subseteq ended'
        /\ UNCHANGED <<hand, receipts, dead, mark, order, relay, fresh, pending, cursor, sent, losses>>
    BY <1>3 DEF ChangeHold, EndJob, TaskDone
  <2>2. Types'
    BY <2>1 DEF IInv, Types
  <2>3. VerdictMeansEnded' /\ Steps'
    BY <2>1, HandsKept DEF IInv, Steps
  <2> QED  BY <2>1, <2>2, <2>3, MarksKept, RowsKept DEF IInv, Cursors
<1>4. ASSUME NEW j \in Job, AgeMarker(j)  PROVE IInv'
  <2>1. /\ mark[j] = "recent" /\ mark' = [mark EXCEPT ![j] = "old"]
        /\ UNCHANGED <<ended, hand, receipts, dead, order, relay, fresh, pending, cursor, sent, losses>>
    BY <1>4 DEF AgeMarker
  <2>2. Types'
    BY <2>1 DEF IInv, Types
  <2>3. VerdictMeansEnded' /\ Steps'
    BY <2>1, HandsKept DEF IInv, Steps
  <2>4. MarkerMeansSent' /\ Sent'
    BY <2>1 DEF IInv, Types, MarkerMeansSent, Sent
  <2> QED  BY <2>1, <2>2, <2>3, <2>4, RowsKept DEF IInv, Cursors
<1>5. ASSUME NEW id \in MsgId, GoIdle(id)  PROVE IInv'
  <2>1. PICK i \in DOMAIN pending : pending' = [pending EXCEPT ![i].idle = TRUE]
    BY <1>5 DEF GoIdle
  <2>2. UNCHANGED <<ended, hand, receipts, dead, mark, order, relay, fresh, cursor, sent, losses>>
    BY <1>5 DEF GoIdle
  <2>3. pending[i] \in Entry
    BY DEF IInv, Types
  <2>4. [pending[i] EXCEPT !.idle = TRUE] \in Entry
    BY <2>3 DEF Entry
  <2>5. Types'
    BY <2>1, <2>2, <2>4 DEF IInv, Types
  <2>6. VerdictMeansEnded' /\ Steps'
    BY <2>2, HandsKept DEF IInv, Steps
  <2> QED  BY <2>2, <2>5, <2>6, MarksKept, RowsKept DEF IInv, Cursors
<1>6. CASE LoseStream
  <2>1. /\ fresh' = <<>> /\ pending' = <<>> /\ losses' = losses + 1
        /\ cursor' = [c \in Consumer |-> 1]
        /\ UNCHANGED <<ended, hand, receipts, dead, mark, order, relay, sent>>
    BY <1>6 DEF LoseStream
  <2>2. Types'
    BY <2>1 DEF IInv, Types
  <2>3. VerdictMeansEnded' /\ Steps'
    BY <2>1, HandsKept DEF IInv, Steps
  <2>4. Cursors'
    BY <2>1 DEF Cursors
  <2> QED  BY <2>1, <2>2, <2>3, <2>4, MarksKept, RowsKept DEF IInv
<1>7. CASE ForeignMessage
  <2>1. /\ Enqueue(NoJob)
        /\ UNCHANGED <<ended, hand, mark, order, relay, pending, cursor, sent, losses>>
    BY <1>7 DEF ForeignMessage
  <2>2. /\ fresh' \in Seq(Message) /\ receipts' \subseteq receipts /\ dead' \subseteq dead
        /\ \A d \in Consumer : hand[d].pc = "ack" => hand[d].msg \in (receipts \cup dead)'
    BY <2>1, EnqueueKeeps
  <2>3. Types'
    BY <2>1, <2>2 DEF IInv, Types
  <2>4. VerdictMeansEnded' /\ Steps'
    BY <2>1, <2>2, HandsKept
  <2> QED  BY <2>1, <2>3, <2>4, MarksKept, RowsKept DEF IInv, Cursors
<1>8. CASE RuntimeStop \/ RuntimeStart
  <2>1. UNCHANGED <<ended, hand, receipts, dead, mark, order, relay, fresh, pending, cursor, sent, losses>>
    BY <1>8 DEF RuntimeStop, RuntimeStart
  <2>2. Types'
    BY <2>1 DEF IInv, Types
  <2>3. VerdictMeansEnded' /\ Steps'
    BY <2>1, HandsKept DEF IInv, Steps
  <2> QED  BY <2>1, <2>2, <2>3, MarksKept, RowsKept DEF IInv, Cursors
<1> QED  BY <1>1, <1>2, <1>3, <1>4, <1>5, <1>6, <1>7, <1>8

-----------------------------------------------------------------------------
(* What leaves the stream *)

LEMMA AppendKeeps ==
    ASSUME NEW S, NEW s \in Seq(S), NEW x \in S
    PROVE  Elements(s) \cup {x} \subseteq Elements(Append(s, x))
<1>0. PICK t : t = Append(s, x)
  OBVIOUS
<1>1. /\ Len(t) = Len(s) + 1 /\ Len(s) \in Nat /\ t \in Seq(S)
      /\ \A k \in 1..Len(s) : t[k] = s[k]
      /\ t[Len(s) + 1] = x
  BY <1>0
<1>2. DOMAIN s = 1..Len(s) /\ DOMAIN t = 1..(Len(s) + 1)
  BY <1>1
<1>3. Elements(s) \subseteq Elements(t)
  BY <1>1, <1>2 DEF Elements
<1>4. Len(s) + 1 \in DOMAIN t
  BY <1>1, <1>2
<1>5. x \in Elements(t)
  BY <1>1, <1>4 DEF Elements
<1> QED  BY <1>0, <1>3, <1>5

\* Only Ack and the loss of the stream take messages away.
LEMMA StreamKept ==
    ASSUME IInv, UNCHANGED <<fresh, pending>>
    PROVE  InStream' = InStream
BY DEF InStream, Delivered, Elements

LEMMA MarkedIdle ==
    ASSUME IInv, UNCHANGED fresh, NEW i \in DOMAIN pending, NEW b \in BOOLEAN,
           pending' = [pending EXCEPT ![i].idle = b]
    PROVE  InStream' = InStream
<1>1. DOMAIN pending' = DOMAIN pending /\ \A k \in DOMAIN pending : pending[k] \in Entry
  BY DEF IInv, Types
<1>2. \A k \in DOMAIN pending : pending'[k].msg = pending[k].msg
  <2> SUFFICES ASSUME NEW k \in DOMAIN pending  PROVE pending'[k].msg = pending[k].msg
    OBVIOUS
  <2>1. pending[k] \in Entry
    BY <1>1
  <2>2. CASE k = i
    <3>1. pending'[k] = [pending[i] EXCEPT !.idle = b]
      BY <1>1, <2>2
    <3> QED  BY <2>1, <2>2, <3>1 DEF Entry
  <2>3. CASE k # i
    BY <1>1, <2>3
  <2> QED  BY <2>2, <2>3
<1>3. Delivered' = Delivered
  <2>1. ASSUME NEW k \in DOMAIN pending
        PROVE  pending[k].msg \in Delivered /\ pending'[k].msg \in Delivered'
    <3>1. pending[k] \in Elements(pending) /\ pending'[k] \in Elements(pending)'
      BY <1>1 DEF Elements
    <3> QED  BY <3>1 DEF Delivered
  <2>2. ASSUME NEW p \in Elements(pending)  PROVE p.msg \in Delivered'
    BY <1>2, <2>1, <2>2 DEF Elements
  <2>3. ASSUME NEW p \in Elements(pending)'  PROVE p.msg \in Delivered
    <3>1. PICK k \in DOMAIN pending' : p = pending'[k]
      BY <2>3 DEF Elements
    <3> QED  BY <1>1, <1>2, <2>1, <3>1
  <2> QED  BY <2>2, <2>3 DEF Delivered
<1>4. Elements(fresh)' = Elements(fresh)
  BY DEF Elements
<1> QED  BY <1>3, <1>4 DEF InStream

LEMMA ReadKeeps ==
    ASSUME IInv, fresh # <<>>, fresh' = Tail(fresh),
           pending' = Append(pending, [msg |-> Head(fresh), idle |-> FALSE])
    PROVE  InStream \subseteq InStream'
<1>1. PICK m, t : m = Head(fresh) /\ t = Tail(fresh)
  OBVIOUS
<1>2. m \in Message /\ t \in Seq(Message) /\ [msg |-> m, idle |-> FALSE] \in Entry
  BY <1>1 DEF IInv, Types, Entry
<1>3. Elements(fresh) \subseteq Elements(t) \cup {m}
  <2>1. /\ Len(t) = Len(fresh) - 1 /\ \A k \in 1..(Len(fresh) - 1) : t[k] = fresh[k + 1]
        /\ m = fresh[1] /\ Len(fresh) \in Nat /\ DOMAIN t = 1..Len(t) /\ DOMAIN fresh = 1..Len(fresh)
    BY <1>1 DEF IInv, Types
  <2>2. ASSUME NEW k \in DOMAIN fresh, k # 1  PROVE fresh[k] \in Elements(t)
    <3>1. k - 1 \in DOMAIN t /\ t[k - 1] = fresh[k]
      BY <2>1, <2>2
    <3> QED  BY <3>1 DEF Elements
  <2> QED  BY <2>1, <2>2 DEF Elements
<1>4. Elements(pending) \cup {[msg |-> m, idle |-> FALSE]} \subseteq Elements(pending)'
  <2>1. Elements(pending)' = Elements(Append(pending, [msg |-> m, idle |-> FALSE]))
    BY <1>1 DEF Elements
  <2> QED  BY <1>2, <2>1, AppendKeeps DEF IInv, Types
<1>5. Delivered \cup {m} \subseteq Delivered'
  <2>1. [msg |-> m, idle |-> FALSE].msg = m
    OBVIOUS
  <2>2. Delivered \subseteq Delivered'
    BY <1>4 DEF Delivered
  <2>3. m \in Delivered'
    BY <1>4, <2>1, Zenon DEF Delivered
  <2> QED  BY <2>2, <2>3
<1>6. Elements(fresh)' = Elements(t)
  BY <1>1 DEF Elements
<1> QED  BY <1>3, <1>5, <1>6 DEF InStream

LEMMA AckTakesOne ==
    ASSUME IInv, UNCHANGED fresh, NEW i \in DOMAIN pending, pending' = CutAt(pending, i)
    PROVE  InStream \ InStream' \subseteq {pending[i].msg}
<1>1. Elements(pending) \subseteq Elements(pending)' \cup {pending[i]}
  <2>1. Elements(pending)' = Elements(CutAt(pending, i))
    BY DEF Elements
  <2> QED  BY <2>1, Cut DEF IInv, Types
<1>2. Delivered \subseteq Delivered' \cup {pending[i].msg}
  BY <1>1 DEF Delivered
<1>3. Elements(fresh)' = Elements(fresh)
  BY DEF Elements
<1> QED  BY <1>2, <1>3 DEF InStream

LEMMA EnqueueAdds ==
    ASSUME IInv, NEW j \in Job \cup {NoJob}, Enqueue(j), UNCHANGED pending
    PROVE  InStream \subseteq InStream'
<1>1. Elements(fresh) \subseteq Elements(fresh)'
  BY EnqueueKeeps
<1>2. Delivered' = Delivered
  BY DEF Delivered, Elements
<1> QED  BY <1>1, <1>2 DEF InStream

LEMMA OnlySettledStep ==
    ASSUME IInv, [Next]_vars, losses' = losses
    PROVE  InStream \ InStream' \subseteq receipts \cup dead
<1> USE DEF jobs, outbox, stream, ledger, poll, tasks, faults
<1> DEFINE Goal == InStream \ InStream' \subseteq receipts \cup dead
<1>1. ASSUME NEW c \in Consumer, RelaySend(c) \/ RelaySendFails(c)  PROVE Goal
  <2>1. relay[c] \in [pc : {"locked", "sent"}, job : Job]
    BY <1>1, InTx DEF RelaySend, RelaySendFails, IInv
  <2>2. UNCHANGED pending /\ (Enqueue(relay[c].job) \/ UNCHANGED fresh)
    BY <1>1 DEF RelaySend, RelaySendFails
  <2> QED  BY <2>1, <2>2, EnqueueAdds, StreamKept
<1>2. ASSUME NEW c \in Consumer, RelaySelect(c) \/ RelayMark(c)  PROVE Goal
  <2>1. UNCHANGED <<fresh, pending>>
    BY <1>2 DEF RelaySelect, RelayMark
  <2> QED  BY <2>1, StreamKept
<1>3. ASSUME NEW c \in Consumer,
             \/ ClaimNothing(c) \/ Check(c) \/ Handle(c) \/ FailRecovery(c) \/ Register(c)
             \/ RequireTerminal(c) \/ Receipt(c) \/ DeadLetter(c) \/ ProcessFails(c) \/ Crash(c)
      PROVE  Goal
  <2>1. UNCHANGED <<fresh, pending>>
    BY <1>3 DEF ClaimNothing, Check, Handle, FailRecovery, Register, RequireTerminal, Receipt,
                DeadLetter, ProcessFails, Crash
  <2> QED  BY <2>1, StreamKept
<1>4. ASSUME NEW c \in Consumer, ClaimOld(c)  PROVE Goal
  <2>1. PICK i \in cursor[c]..Len(pending) :
           UNCHANGED fresh /\ pending' = [pending EXCEPT ![i].idle = FALSE]
    BY <1>4 DEF ClaimOld
  <2>2. i \in DOMAIN pending
    <3>1. cursor[c] \in Nat \ {0}
      BY DEF IInv, Cursors
    <3>2. Len(pending) \in Nat /\ DOMAIN pending = 1..Len(pending)
      BY DEF IInv, Types
    <3> QED  BY <2>1, <3>1, <3>2
  <2> QED  BY <2>1, <2>2, MarkedIdle
<1>5. ASSUME NEW c \in Consumer, ReadNew(c)  PROVE Goal
  <2>1. CASE fresh = <<>>
    <3>1. UNCHANGED <<fresh, pending>>
      BY <1>5, <2>1 DEF ReadNew
    <3> QED  BY <3>1, StreamKept
  <2>2. CASE fresh # <<>>
    <3>1. /\ fresh' = Tail(fresh)
          /\ pending' = Append(pending, [msg |-> Head(fresh), idle |-> FALSE])
      BY <1>5, <2>2 DEF ReadNew
    <3> QED  BY <2>2, <3>1, ReadKeeps
  <2> QED  BY <2>1, <2>2
<1>6. ASSUME NEW c \in Consumer, Ack(c)  PROVE Goal
  <2>1. UNCHANGED fresh /\ hand[c].msg \in receipts \cup dead
    BY <1>6 DEF Ack, IInv, Steps
  <2>2. CASE UNCHANGED pending
    BY <2>1, <2>2, StreamKept
  <2>3. ASSUME NEW i \in DOMAIN pending, pending[i].msg = hand[c].msg, pending' = CutAt(pending, i)
        PROVE  Goal
    BY <2>1, <2>3, AckTakesOne
  <2> QED  BY <1>6, <2>2, <2>3 DEF Ack
<1>7. ASSUME NEW j \in Job, ChangeHold(j) \/ EndJob(j) \/ AgeMarker(j) \/ TaskDone(j)  PROVE Goal
  <2>1. UNCHANGED <<fresh, pending>>
    BY <1>7 DEF ChangeHold, EndJob, AgeMarker, TaskDone
  <2> QED  BY <2>1, StreamKept
<1>8. ASSUME NEW id \in MsgId, GoIdle(id)  PROVE Goal
  <2>1. PICK i \in DOMAIN pending : UNCHANGED fresh /\ pending' = [pending EXCEPT ![i].idle = TRUE]
    BY <1>8 DEF GoIdle
  <2> QED  BY <2>1, MarkedIdle
<1>9. ~LoseStream
  BY DEF LoseStream, IInv, Types
<1>10. ASSUME ForeignMessage  PROVE Goal
  BY <1>10, EnqueueAdds DEF ForeignMessage
<1>11. ASSUME RuntimeStop \/ RuntimeStart \/ UNCHANGED vars  PROVE Goal
  <2>1. UNCHANGED <<fresh, pending>>
    BY <1>11 DEF RuntimeStop, RuntimeStart, vars
  <2> QED  BY <2>1, StreamKept
<1> HIDE DEF Goal
<1>12. Goal
  BY <1>1, <1>2, <1>3, <1>4, <1>5, <1>6, <1>7, <1>8, <1>9, <1>10, <1>11
     DEF Next, RelayLoop, ConsumerLoop
<1> QED  BY <1>12 DEF Goal

-----------------------------------------------------------------------------
(* The invariant *)

LEMMA InitInvariant == Init => IInv
<1> SUFFICES ASSUME Init  PROVE IInv
  OBVIOUS
<1>1. Types
  BY DEF Init, Types
<1>2. Rows
  <2>1. Cardinality(Job) \in Nat
    BY DeliveryAssumption, FS_CardinalityType
  <2> QED  BY <2>1 DEF Init, Rows
<1>3. Cursors
  BY DEF Init, Cursors
<1>4. VerdictMeansEnded /\ MarkerMeansSent
  BY DEF Init, VerdictMeansEnded, MarkerMeansSent
<1>5. Steps /\ Sent
  BY DEF Init, Steps, Sent, Idle, NoTx
<1> QED  BY <1>1, <1>2, <1>3, <1>4, <1>5 DEF IInv

LEMMA NextInvariant == IInv /\ [Next]_vars => IInv'
<1> SUFFICES ASSUME IInv, [Next]_vars  PROVE IInv'
  OBVIOUS
<1>1. ASSUME NEW c \in Consumer, RelayLoop(c) \/ RelaySendFails(c)  PROVE IInv'
  BY <1>1, RelayKeeps
<1>2. ASSUME NEW c \in Consumer, ConsumerLoop(c)  PROVE IInv'
  BY <1>2, PollKeeps, ProcessKeeps DEF ConsumerLoop
<1>3. CASE UNCHANGED vars
  <2>1. UNCHANGED <<ended, hand, receipts, dead, mark, order, relay, fresh, pending, cursor, sent, losses>>
    BY <1>3 DEF vars
  <2>2. Types'
    BY <2>1 DEF IInv, Types
  <2>3. VerdictMeansEnded' /\ Steps'
    BY <2>1, HandsKept DEF IInv, Steps
  <2> QED  BY <2>1, <2>2, <2>3, MarksKept, RowsKept DEF IInv, Cursors
<1> QED  BY <1>1, <1>2, <1>3, OthersKeep DEF Next

LEMMA Invariant == Spec => []IInv
BY InitInvariant, NextInvariant, PTL DEF Spec

-----------------------------------------------------------------------------
(* The rest of the types *)

\* A consumer that has a job to deal with knows which.
Named ==
    \A c \in Consumer :
        hand[c].pc \in {"handle", "fail", "resume", "verify", "receipt"} =>
            hand[c].msg.job \in Job

Limits ==
    /\ ended \subseteq Job /\ busy \subseteq Job /\ foreign \subseteq Job
    /\ turn \in [Consumer -> {"claim", "read"}]
    /\ active \subseteq Job /\ closing \in BOOLEAN /\ sent \subseteq Job
    /\ trouble \in 0..MaxTrouble /\ losses \in 0..trouble
    /\ Named

CursorsEnd == \A c \in Consumer : cursor[c] <= Len(pending) + 1

\* What a step does to the message in a hand: nothing, a new message to be
\* checked, or one step of process.
LEMMA HandStep ==
    ASSUME IInv, [Next]_vars, NEW c \in Consumer
    PROVE  \/ hand'[c] = hand[c]
           \/ hand'[c].pc \notin {"handle", "fail", "resume", "verify", "receipt"}
           \/ /\ hand'[c].msg = hand[c].msg
              /\ \/ hand[c].pc = "check" /\ hand[c].msg.job # NoJob
                 \/ hand[c].pc \in {"handle", "fail", "verify"}
<1> DEFINE Goal == \/ hand'[c] = hand[c]
                   \/ hand'[c].pc \notin {"handle", "fail", "resume", "verify", "receipt"}
                   \/ /\ hand'[c].msg = hand[c].msg
                      /\ \/ hand[c].pc = "check" /\ hand[c].msg.job # NoJob
                         \/ hand[c].pc \in {"handle", "fail", "verify"}
<1> USE DEF IInv, Types
<1>1. ASSUME NEW d \in Consumer, NEW h, hand' = [hand EXCEPT ![d] = h],
             h.pc \notin {"handle", "fail", "resume", "verify", "receipt"}
      PROVE  Goal
  BY <1>1
<1>2. ASSUME NEW d \in Consumer, hand[d].pc # "idle", NEW p \in Step, GoTo(d, p),
             \/ hand[d].pc = "check" /\ hand[d].msg.job # NoJob
             \/ hand[d].pc \in {"handle", "fail", "verify"}
      PROVE  Goal
  <2>1. hand' = [hand EXCEPT ![d] = [pc |-> p, msg |-> hand[d].msg]]
    BY <1>2, GoToIs
  <2> QED  BY <1>2, <2>1
<1>3. ASSUME NEW d \in Consumer, hand[d].pc # "idle", GoTo(d, "ack") \/ GoTo(d, "dead")
      PROVE  Goal
  <2>1. PICK p \in {"ack", "dead"} : GoTo(d, p)
    BY <1>3
  <2>2. p \in Step
    BY DEF Step
  <2>3. hand' = [hand EXCEPT ![d] = [pc |-> p, msg |-> hand[d].msg]]
    BY <1>3, <2>1, <2>2, GoToIs
  <2> QED  BY <2>3
<1>4. ASSUME NEW d \in Consumer, Drop(d)  PROVE Goal
  BY <1>1, <1>4 DEF Drop, Idle
<1>5. ASSUME NEW d \in Consumer, NEW m, Take(d, m)  PROVE Goal
  BY <1>1, <1>5 DEF Take
<1>6. ASSUME UNCHANGED hand  PROVE Goal
  BY <1>6
<1>7. ASSUME NEW d \in Consumer, ConsumerLoop(d)  PROVE Goal
  <2>1. CASE ClaimOld(d) \/ ClaimNothing(d) \/ ReadNew(d)
    BY <1>5, <1>6, <2>1 DEF ClaimOld, ClaimNothing, ReadNew
  <2>2. CASE Check(d)
    <3>1. hand[d].pc # "idle"
      BY <2>2 DEF Check
    <3>2. CASE hand[d].msg \in receipts \cup dead
      <4>1. GoTo(d, "ack")
        BY <2>2, <3>2 DEF Check
      <4> QED  BY <1>3, <3>1, <4>1
    <3>3. CASE hand[d].msg \notin receipts \cup dead /\ hand[d].msg.job = NoJob
      <4>1. GoTo(d, "dead")
        BY <2>2, <3>3 DEF Check
      <4> QED  BY <1>3, <3>1, <4>1
    <3>4. CASE hand[d].msg \notin receipts \cup dead /\ hand[d].msg.job # NoJob
      <4>1. GoTo(d, "handle") /\ hand[d].pc = "check"
        BY <2>2, <3>4 DEF Check
      <4>2. "handle" \in Step
        BY DEF Step
      <4> QED  BY <1>2, <3>1, <3>4, <4>1, <4>2
    <3> QED  BY <3>2, <3>3, <3>4
  <2>3. CASE Handle(d)
    <3>1. PICK p \in {"verify", "fail", "resume"} : hand[d].pc = "handle" /\ (GoTo(d, p) \/ Drop(d))
      BY <2>3 DEF Handle, Orphan, Open
    <3>2. p \in Step
      BY DEF Step
    <3>3. CASE GoTo(d, p)
      BY <1>2, <3>1, <3>2, <3>3
    <3> QED  BY <1>4, <3>1, <3>3
  <2>4. CASE FailRecovery(d)
    <3>1. hand[d].pc = "fail" /\ (GoTo(d, "verify") \/ Drop(d))
      BY <2>4 DEF FailRecovery
    <3>2. "verify" \in Step
      BY DEF Step
    <3>3. CASE GoTo(d, "verify")
      BY <1>2, <3>1, <3>2, <3>3
    <3> QED  BY <1>4, <3>1, <3>3
  <2>5. CASE Register(d) \/ Ack(d)
    BY <1>4, <2>5 DEF Register, Ack
  <2>6. CASE RequireTerminal(d)
    <3>1. hand[d].pc = "verify" /\ (GoTo(d, "receipt") \/ Drop(d))
      BY <2>6 DEF RequireTerminal
    <3>2. "receipt" \in Step
      BY DEF Step
    <3>3. CASE GoTo(d, "receipt")
      BY <1>2, <3>1, <3>2, <3>3
    <3> QED  BY <1>4, <3>1, <3>3
  <2>7. CASE Receipt(d) \/ DeadLetter(d)
    BY <1>3, <2>7 DEF Receipt, DeadLetter
  <2> QED  BY <1>7, <2>1, <2>2, <2>3, <2>4, <2>5, <2>6, <2>7 DEF ConsumerLoop
<1>8. ASSUME NEW d \in Consumer, RelayLoop(d) \/ RelaySendFails(d)  PROVE Goal
  BY <1>6, <1>8 DEF RelayLoop, RelaySelect, RelaySend, RelayMark, RelaySendFails
<1>9. ASSUME NEW d \in Consumer, ProcessFails(d) \/ Crash(d)  PROVE Goal
  BY <1>4, <1>9 DEF ProcessFails, Crash
<1>10. ASSUME NEW j, ChangeHold(j) \/ EndJob(j) \/ AgeMarker(j) \/ TaskDone(j) \/ GoIdle(j)
       PROVE  Goal
  BY <1>6, <1>10 DEF ChangeHold, EndJob, AgeMarker, TaskDone, GoIdle
<1>11. CASE LoseStream \/ ForeignMessage \/ RuntimeStop \/ RuntimeStart
  BY <1>6, <1>11 DEF LoseStream, ForeignMessage, RuntimeStop, RuntimeStart
<1>12. CASE UNCHANGED vars
  BY <1>6, <1>12 DEF vars
<1> QED  BY <1>7, <1>8, <1>9, <1>10, <1>11, <1>12 DEF Next

LEMMA NamedKept == IInv /\ Named /\ [Next]_vars => Named'
<1> SUFFICES ASSUME IInv, Named, [Next]_vars, NEW c \in Consumer,
                    hand'[c].pc \in {"handle", "fail", "resume", "verify", "receipt"}
             PROVE  hand'[c].msg.job \in Job
  BY DEF Named
<1>1. CASE hand'[c] = hand[c]
  BY <1>1 DEF Named
<1>2. CASE hand'[c].msg = hand[c].msg /\ hand[c].pc = "check" /\ hand[c].msg.job # NoJob
  <2>1. hand[c].msg \in Message
    BY <1>2, InHand DEF IInv
  <2> QED  BY <1>2, <2>1 DEF Message
<1>3. CASE hand'[c].msg = hand[c].msg /\ hand[c].pc \in {"handle", "fail", "verify"}
  BY <1>3 DEF Named
<1> QED  BY <1>1, <1>2, <1>3, HandStep

LEMMA LimitsKept == IInv /\ Limits /\ [Next]_vars => Limits'
<1> SUFFICES ASSUME IInv, Limits, [Next]_vars  PROVE Limits'
  OBVIOUS
<1> USE DEF jobs, outbox, stream, ledger, poll, tasks, faults
<1> DEFINE Bounds == /\ ended' \subseteq Job /\ busy' \subseteq Job /\ foreign' \subseteq Job
                     /\ turn' \in [Consumer -> {"claim", "read"}]
                     /\ active' \subseteq Job /\ closing' \in BOOLEAN /\ sent' \subseteq Job
                     /\ trouble' \in 0..MaxTrouble /\ losses' \in 0..trouble'
<1>0. /\ MaxTrouble \in Nat /\ trouble \in Nat /\ trouble <= MaxTrouble
      /\ losses \in Nat /\ losses <= trouble
  BY DeliveryAssumption DEF Limits
<1>1. ASSUME NEW c \in Consumer, RelayLoop(c)  PROVE Bounds
  <2>1. CASE RelaySelect(c) \/ RelayMark(c)
    BY <2>1 DEF RelaySelect, RelayMark, Limits
  <2>2. CASE RelaySend(c)
    <3>1. relay[c].job \in Job
      BY <2>2, InTx DEF RelaySend, IInv
    <3> QED  BY <2>2, <3>1 DEF RelaySend, Limits
  <2> QED  BY <1>1, <2>1, <2>2 DEF RelayLoop
<1>2. ASSUME NEW c \in Consumer, RelaySendFails(c)  PROVE Bounds
  <2>1. relay[c].job \in Job
    BY <1>2, InTx DEF RelaySendFails, IInv
  <2>2. /\ sent' \subseteq sent \cup {relay[c].job} /\ trouble < MaxTrouble /\ trouble' = trouble + 1
        /\ UNCHANGED <<ended, busy, foreign, turn, active, closing, losses>>
    BY <1>2 DEF RelaySendFails
  <2> QED  BY <1>0, <2>1, <2>2 DEF Limits
<1>3. ASSUME NEW c \in Consumer, ConsumerLoop(c)  PROVE Bounds
  <2>1. CASE ClaimOld(c) \/ ClaimNothing(c) \/ ReadNew(c)
    BY <2>1 DEF ClaimOld, ClaimNothing, ReadNew, Limits
  <2>2. CASE Check(c) \/ Handle(c) \/ RequireTerminal(c) \/ Receipt(c) \/ DeadLetter(c) \/ Ack(c)
    BY <2>2 DEF Check, Handle, RequireTerminal, Receipt, DeadLetter, Ack, Limits
  <2>3. CASE FailRecovery(c)
    <3>1. hand[c].msg.job \in Job
      BY <2>3 DEF FailRecovery, Limits, Named
    <3>2. /\ ended' \subseteq ended \cup {hand[c].msg.job}
          /\ UNCHANGED <<busy, foreign, turn, active, closing, sent, trouble, losses>>
      BY <2>3 DEF FailRecovery
    <3> QED  BY <3>1, <3>2 DEF Limits
  <2>4. CASE Register(c)
    <3>1. hand[c].msg.job \in Job
      BY <2>4 DEF Register, Limits, Named
    <3>2. /\ active' \subseteq active \cup {hand[c].msg.job}
          /\ UNCHANGED <<ended, busy, foreign, turn, closing, sent, trouble, losses>>
      BY <2>4 DEF Register
    <3> QED  BY <3>1, <3>2 DEF Limits
  <2> QED  BY <1>3, <2>1, <2>2, <2>3, <2>4 DEF ConsumerLoop
<1>4. ASSUME NEW c \in Consumer, ProcessFails(c) \/ Crash(c)  PROVE Bounds
  <2>1. /\ trouble < MaxTrouble /\ trouble' = trouble + 1
        /\ UNCHANGED <<ended, busy, foreign, active, closing, sent, losses>>
    BY <1>4 DEF ProcessFails, Crash
  <2>2. turn' \in [Consumer -> {"claim", "read"}]
    BY <1>4 DEF ProcessFails, Crash, Limits
  <2> QED  BY <1>0, <2>1, <2>2 DEF Limits
<1>5. ASSUME NEW j \in Job, ChangeHold(j) \/ EndJob(j) \/ AgeMarker(j) \/ TaskDone(j)  PROVE Bounds
  <2>1. CASE ChangeHold(j)
    BY <2>1 DEF ChangeHold, Limits
  <2>2. CASE EndJob(j) \/ AgeMarker(j) \/ TaskDone(j)
    BY <2>2 DEF EndJob, AgeMarker, TaskDone, Limits
  <2> QED  BY <1>5, <2>1, <2>2
<1>6. ASSUME NEW id \in MsgId, GoIdle(id)  PROVE Bounds
  BY <1>6 DEF GoIdle, Limits
<1>7. ASSUME LoseStream \/ ForeignMessage \/ RuntimeStop  PROVE Bounds
  <2>1. /\ trouble < MaxTrouble /\ trouble' = trouble + 1 /\ losses' \in {losses, losses + 1}
        /\ UNCHANGED <<ended, busy, foreign, active, sent, turn>>
    BY <1>7 DEF LoseStream, ForeignMessage, RuntimeStop
  <2>2. closing' \in BOOLEAN
    BY <1>7 DEF LoseStream, ForeignMessage, RuntimeStop, Limits
  <2>3. trouble' \in 0..MaxTrouble /\ losses' \in 0..trouble'
    BY <1>0, <2>1
  <2> QED  BY <2>1, <2>2, <2>3 DEF Limits
<1>8. ASSUME RuntimeStart  PROVE Bounds
  BY <1>8 DEF RuntimeStart, Limits
<1>9. ASSUME UNCHANGED vars  PROVE Bounds
  BY <1>9 DEF vars, Limits
<1> HIDE DEF Bounds
<1>10. Bounds
  BY <1>1, <1>2, <1>3, <1>4, <1>5, <1>6, <1>7, <1>8, <1>9 DEF Next
<1>11. Named'
  BY NamedKept DEF Limits
<1> QED  BY <1>10, <1>11 DEF Bounds, Limits

\* Without the place i, a sequence is one shorter.
LEMMA CutLength ==
    ASSUME NEW S, NEW s \in Seq(S), NEW i \in DOMAIN s
    PROVE  Len(CutAt(s, i)) = Len(s) - 1 /\ CutAt(s, i) \in Seq(S)
<1>1. i \in 1..Len(s) /\ Len(s) \in Nat
  OBVIOUS
<1>2. PICK a, b : a = SubSeq(s, 1, i - 1) /\ b = SubSeq(s, i + 1, Len(s))
  OBVIOUS
<1>3. a \in Seq(S) /\ Len(a) = i - 1
  BY <1>1, <1>2
<1>4. b \in Seq(S) /\ Len(b) = Len(s) - i
  BY <1>1, <1>2
<1>5. (a \o b) \in Seq(S) /\ Len(a \o b) = Len(a) + Len(b)
  BY <1>3, <1>4, ConcatProperties
<1>6. (i - 1) + (Len(s) - i) = Len(s) - 1
  BY <1>1
<1>7. CutAt(s, i) = a \o b
  BY <1>2 DEF CutAt
<1> QED  BY <1>3, <1>4, <1>5, <1>6, <1>7, Zenon

LEMMA RowCountKept == IInv /\ [Next]_vars => Len(order') = Len(order)
<1> SUFFICES ASSUME IInv, [Next]_vars  PROVE Len(order') = Len(order)
  OBVIOUS
<1> USE DEF jobs, outbox, stream, ledger, poll, tasks, faults
<1>1. ASSUME NEW c \in Consumer, RelayMark(c)  PROVE Len(order') = Len(order)
  <2>1. PICK j : j \in Job /\ order' = Behind(j)
    BY <1>1, InTx DEF RelayMark, MarkAllowed, IInv
  <2>2. PICK i : i = CHOOSE k \in DOMAIN order : order[k] = j
    OBVIOUS
  <2>3. i \in DOMAIN order
    BY <2>1, <2>2 DEF IInv, Rows, Elements
  <2>4. PICK s : s = CutAt(order, i)
    OBVIOUS
  <2>5. s \in Seq(Job) /\ Len(s) = Len(order) - 1 /\ Len(order) \in Nat
    BY <2>3, <2>4, CutLength DEF IInv, Rows
  <2>6. order' = s \o <<j>>
    BY <2>1, <2>2, <2>4 DEF Behind
  <2>7. Len(s \o <<j>>) = Len(s) + 1
    BY <2>1, <2>5
  <2> QED  BY <2>5, <2>6, <2>7
<1>2. ASSUME NEW c \in Consumer,
             \/ RelaySelect(c) \/ RelaySend(c) \/ RelaySendFails(c) \/ ConsumerLoop(c)
             \/ ProcessFails(c) \/ Crash(c)
      PROVE  order' = order
  BY <1>2 DEF RelaySelect, RelaySend, RelaySendFails, ConsumerLoop, ClaimOld, ClaimNothing,
              ReadNew, Check, Handle, FailRecovery, Register, RequireTerminal, Receipt,
              DeadLetter, Ack, ProcessFails, Crash
<1>3. ASSUME NEW j, ChangeHold(j) \/ EndJob(j) \/ AgeMarker(j) \/ TaskDone(j) \/ GoIdle(j)
      PROVE  order' = order
  BY <1>3 DEF ChangeHold, EndJob, AgeMarker, TaskDone, GoIdle
<1>4. ASSUME \/ LoseStream \/ ForeignMessage \/ RuntimeStop \/ RuntimeStart \/ UNCHANGED vars
      PROVE  order' = order
  BY <1>4 DEF LoseStream, ForeignMessage, RuntimeStop, RuntimeStart, vars
<1> QED  BY <1>1, <1>2, <1>3, <1>4 DEF Next, RelayLoop

LEMMA CursorsEndKept == IInv /\ CursorsEnd /\ [Next]_vars => CursorsEnd'
<1> SUFFICES ASSUME IInv, CursorsEnd, [Next]_vars  PROVE CursorsEnd'
  OBVIOUS
<1> USE DEF jobs, outbox, stream, ledger, poll, tasks, faults
<1>0. /\ pending \in Seq(Entry) /\ Len(pending) \in Nat /\ DOMAIN pending = 1..Len(pending)
      /\ fresh \in Seq(Message) /\ cursor \in [Consumer -> Nat \ {0}]
  BY DEF IInv, Types, Cursors
<1>1. ASSUME UNCHANGED <<pending, cursor>>  PROVE CursorsEnd'
  BY <1>1 DEF CursorsEnd
<1>2. ASSUME NEW i, NEW b, pending' = [pending EXCEPT ![i].idle = b]
      PROVE  Len(pending') = Len(pending)
  BY <1>0, <1>2
<1>3. ASSUME NEW c \in Consumer, ClaimOld(c)  PROVE CursorsEnd'
  <2>1. PICK i \in cursor[c]..Len(pending) :
           /\ pending' = [pending EXCEPT ![i].idle = FALSE]
           /\ cursor' = [cursor EXCEPT ![c] = NextCursor(i)]
    BY <1>3 DEF ClaimOld
  <2>2. Len(pending') = Len(pending)
    BY <1>2, <2>1
  <2>3. i \in 1..Len(pending) /\ NextCursor(i) <= Len(pending) + 1
    <3>1. cursor[c] \in Nat \ {0}
      BY <1>0
    <3> QED  BY <1>0, <2>1, <3>1 DEF NextCursor
  <2>4. ASSUME NEW d \in Consumer  PROVE cursor'[d] <= Len(pending) + 1
    BY <1>0, <2>1, <2>3, <2>4 DEF CursorsEnd
  <2> QED  BY <2>2, <2>4 DEF CursorsEnd
<1>4. ASSUME NEW c \in Consumer, ClaimNothing(c) \/ Crash(c)  PROVE CursorsEnd'
  <2>1. UNCHANGED pending /\ cursor' = [cursor EXCEPT ![c] = 1]
    BY <1>4 DEF ClaimNothing, Crash
  <2> QED  BY <1>0, <2>1 DEF CursorsEnd
<1>5. ASSUME NEW c \in Consumer, ReadNew(c)  PROVE CursorsEnd'
  <2>1. cursor' = cursor
    BY <1>5 DEF ReadNew
  <2>2. CASE fresh = <<>>
    BY <1>1, <1>5, <2>1, <2>2 DEF ReadNew
  <2>3. CASE fresh # <<>>
    <3>1. PICK e : e = [msg |-> Head(fresh), idle |-> FALSE] /\ pending' = Append(pending, e)
      BY <1>5, <2>3 DEF ReadNew
    <3>2. e \in Entry
      BY <1>0, <2>3, <3>1 DEF Entry
    <3>3. Len(pending') = Len(pending) + 1
      BY <1>0, <3>1, <3>2
    <3>4. ASSUME NEW d \in Consumer  PROVE cursor'[d] <= Len(pending') + 1
      <4>1. cursor[d] \in Nat /\ cursor[d] <= Len(pending) + 1
        BY <1>0 DEF CursorsEnd
      <4> QED  BY <1>0, <2>1, <3>3, <4>1
    <3> QED  BY <3>4 DEF CursorsEnd
  <2> QED  BY <2>2, <2>3
<1>6. ASSUME NEW c \in Consumer, Ack(c)  PROVE CursorsEnd'
  <2>1. ASSUME NEW i \in DOMAIN pending, pending' = CutAt(pending, i),
               cursor' = [d \in Consumer |-> IF i < cursor[d] THEN cursor[d] - 1 ELSE cursor[d]]
        PROVE  CursorsEnd'
    <3>1. Len(pending') = Len(pending) - 1
      BY <1>0, <2>1, CutLength
    <3>2. ASSUME NEW d \in Consumer  PROVE cursor'[d] <= Len(pending') + 1
      <4>1. cursor[d] \in Nat /\ cursor[d] <= Len(pending) + 1 /\ i \in 1..Len(pending)
        BY <1>0, <2>1 DEF CursorsEnd
      <4>2. cursor'[d] = IF i < cursor[d] THEN cursor[d] - 1 ELSE cursor[d]
        BY <2>1
      <4> QED  BY <1>0, <3>1, <4>1, <4>2
    <3> QED  BY <3>2 DEF CursorsEnd
  <2> QED  BY <1>1, <1>6, <2>1 DEF Ack
<1>7. ASSUME NEW id \in MsgId, GoIdle(id)  PROVE CursorsEnd'
  <2>1. PICK i \in DOMAIN pending :
           pending' = [pending EXCEPT ![i].idle = TRUE] /\ UNCHANGED cursor
    BY <1>7 DEF GoIdle
  <2>2. Len(pending') = Len(pending)
    BY <1>2, <2>1
  <2> QED  BY <2>1, <2>2 DEF CursorsEnd
<1>8. ASSUME LoseStream  PROVE CursorsEnd'
  <2>1. pending' = <<>> /\ cursor' = [c \in Consumer |-> 1]
    BY <1>8 DEF LoseStream
  <2> QED  BY <2>1 DEF CursorsEnd
<1>9. ASSUME NEW c \in Consumer,
             \/ RelayLoop(c) \/ RelaySendFails(c) \/ Check(c) \/ Handle(c) \/ FailRecovery(c)
             \/ Register(c) \/ RequireTerminal(c) \/ Receipt(c) \/ DeadLetter(c) \/ ProcessFails(c)
      PROVE  UNCHANGED <<pending, cursor>>
  BY <1>9 DEF RelayLoop, RelaySelect, RelaySend, RelayMark, RelaySendFails, Check, Handle,
              FailRecovery, Register, RequireTerminal, Receipt, DeadLetter, ProcessFails
<1>10. ASSUME NEW j, ChangeHold(j) \/ EndJob(j) \/ AgeMarker(j) \/ TaskDone(j)
       PROVE  UNCHANGED <<pending, cursor>>
  BY <1>10 DEF ChangeHold, EndJob, AgeMarker, TaskDone
<1>11. ASSUME ForeignMessage \/ RuntimeStop \/ RuntimeStart \/ UNCHANGED vars
       PROVE  UNCHANGED <<pending, cursor>>
  BY <1>11 DEF ForeignMessage, RuntimeStop, RuntimeStart, vars
<1> QED  BY <1>1, <1>3, <1>4, <1>5, <1>6, <1>7, <1>8, <1>9, <1>10, <1>11 DEF Next, ConsumerLoop

-----------------------------------------------------------------------------
(* The theorems *)

\* Every variable keeps to its type, whatever the numbers of jobs, consumers,
\* message ids and faults: in particular no cursor points past the end of the
\* delivered messages, and the outbox has exactly one row for a job.
THEOREM TypeCorrect == Spec => []TypeOK
<1> DEFINE TInv == IInv /\ Limits /\ CursorsEnd /\ Len(order) = Cardinality(Job)
<1>1. Init => TInv
  <2> SUFFICES ASSUME Init  PROVE TInv
    OBVIOUS
  <2>1. Cardinality(Job) \in Nat
    BY DeliveryAssumption, FS_CardinalityType
  <2>2. Len(order) = Cardinality(Job)
    BY <2>1 DEF Init
  <2>3. CursorsEnd
    BY DEF Init, CursorsEnd
  <2>4. Limits
    <3>1. Named
      BY DEF Init, Named, Idle
    <3>2. trouble \in 0..MaxTrouble /\ losses \in 0..trouble
      BY DeliveryAssumption DEF Init
    <3>3. /\ ended \subseteq Job /\ busy \subseteq Job /\ foreign \subseteq Job
          /\ active \subseteq Job /\ sent \subseteq Job
      BY DEF Init
    <3>4. turn \in [Consumer -> {"claim", "read"}]
      BY DEF Init
    <3>5. closing \in BOOLEAN
      BY DEF Init
    <3> QED  BY <3>1, <3>2, <3>3, <3>4, <3>5 DEF Limits
  <2> QED  BY <2>2, <2>3, <2>4, InitInvariant
<1>2. TInv /\ [Next]_vars => TInv'
  BY NextInvariant, LimitsKept, CursorsEndKept, RowCountKept
<1>3. TInv => TypeOK
  <2> SUFFICES ASSUME TInv  PROVE TypeOK
    OBVIOUS
  <2>1. ASSUME NEW m \in Elements(fresh)  PROVE m \in Message
    BY <2>1 DEF IInv, Types, Elements
  <2>2. ASSUME NEW p \in Elements(pending)  PROVE p \in Entry
    BY <2>2 DEF IInv, Types, Elements
  <2>3. ASSUME NEW c \in Consumer  PROVE cursor[c] \in 1..(Len(pending) + 1)
    BY <2>3 DEF IInv, Types, Cursors, CursorsEnd
  <2> QED  BY <2>1, <2>2, <2>3 DEF TypeOK, IInv, Types, Rows, Limits, Entry
<1> HIDE DEF TInv
<1> QED  BY <1>1, <1>2, <1>3, PTL DEF Spec

\* Whatever is lost and whoever dies, a receipt stands for an ended job.
THEOREM VerdictsSound == Spec => []VerdictMeansEnded
<1>1. IInv => VerdictMeansEnded
  BY DEF IInv
<1> QED  BY <1>1, Invariant, PTL

\* A marked row has been notified, with any number of relays at work.
THEOREM MarkersSound == Spec => []MarkerMeansSent
<1>1. IInv => MarkerMeansSent
  BY DEF IInv
<1> QED  BY <1>1, Invariant, PTL

\* Two consumers that claim the same message from each other cannot make it
\* leave before its verdict is stored.
THEOREM NothingUnsettledLeaves == Spec => OnlySettledLeaves
<1>1. IInv /\ [Next]_vars => [losses' = losses => InStream \ InStream' \subseteq receipts \cup dead]_vars
  BY OnlySettledStep
<1> QED  BY <1>1, Invariant, PTL DEF Spec, OnlySettledLeaves

=============================================================================
