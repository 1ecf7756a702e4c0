------------------------- MODULE RunLifecycle_proofs -------------------------
(***************************************************************************)
(* Proofs of the safety of RunLifecycle for any runs, instances and bounds.*)
(* Whoever acts, a step of the system is one of three things to the runs   *)
(* (Shape): it adds at most progress to their logs, it submits one run, or *)
(* it ends some runs in one way.  The promise of RunOutcome follows from   *)
(* that by counting events.                                                *)
(***************************************************************************)
EXTENDS RunLifecycle, SequenceTheorems, FiniteSetTheorems, TLAPS

\* A run that has not been submitted has no trace.
Unborn == \A r \in Run :
    state[r] = "NONE" => log[r] = <<>> /\ g[r].pc = "none" /\ r \notin paid

Base == TypeOK /\ Unborn

-----------------------------------------------------------------------------
(* What a step is to the runs *)

Quiet(r) == /\ log'[r] = log[r]
            /\ state'[r] = state[r] \/ (state[r] \in Open /\ state'[r] \in Open)

Progress(r) ==
    /\ state'[r] = state[r] /\ state[r] # "NONE"
    /\ \/ /\ OwnerLive(r)
          /\ \E e \in {"STATUS", "TOOL", "ERROR"} : log'[r] = Append(log[r], e)
       \/ log'[r] = Append(log[r], "COST")

Submitted(r) ==
    /\ state[r] = "NONE" /\ state'[r] = "QUEUED"
    /\ log[r] = <<>> /\ log'[r] = <<"STATUS">>

\* The events of the ending e; a cancellation has no ERROR.
Ended(r, e) ==
    /\ state[r] \in Open /\ state'[r] = e
    /\ e = "INTERRUPTED" => ~OwnerLive(r)
    /\ \/ log'[r] = Append(log[r], "DONE") /\ e # "COMPLETED"
       \/ log'[r] = log[r] \o <<"ERROR", "DONE">> /\ e # "COMPLETED"
       \/ log'[r] = log[r] \o <<"ANSWER_DELTA", "DONE">> /\ e = "COMPLETED"

OneEnding(e) ==
    \E S \in SUBSET Run :
        /\ S # {} /\ \A r \in S : Ended(r, e)
        /\ \A r \in Run \ S : Quiet(r)

Shape ==
    \/ \A r \in Run : Quiet(r) \/ Progress(r)
    \/ \E r \in Run : Submitted(r) /\ \A q \in Run \ {r} : Quiet(q)
    \/ \E e \in Ending : OneEnding(e)

LEMMA AllQuiet ==
    ASSUME UNCHANGED <<state, log>>
    PROVE  Shape
BY DEF Shape, Quiet

LEMMA EndingOfOne ==
    ASSUME NEW r \in Run, NEW e \in Ending, Ended(r, e), \A q \in Run \ {r} : Quiet(q)
    PROVE  Shape
<1>1. {r} \in SUBSET Run /\ {r} # {} /\ \A q \in {r} : Ended(q, e)
  OBVIOUS
<1>2. OneEnding(e)
  BY <1>1, Zenon DEF OneEnding
<1> QED  BY <1>2 DEF Shape

\* The verdict of finishRun is an ending, and its events are those of it.
LEMMA FinalIs ==
    ASSUME NEW r \in Run, NEW valid, NEW late
    PROVE  /\ FinalState(r, valid, late) \in {"COMPLETED", "FAILED", "TIMED_OUT", "CANCELLED"}
           /\ FinalBatch(r, valid, late) =
                 IF FinalState(r, valid, late) = "COMPLETED"
                   THEN <<"ANSWER_DELTA", "DONE">> ELSE <<"ERROR", "DONE">>
<1>1. Verdict(r, valid) \in {"COMPLETED", "FAILED", "TIMED_OUT", "CANCELLED"}
  BY DEF Verdict
<1>2. FinalState(r, valid, late) \in {"COMPLETED", "FAILED", "TIMED_OUT", "CANCELLED"}
  BY <1>1 DEF FinalState
<1> QED  BY <1>2 DEF FinalBatch, FinalEvents

LEMMA StepShape == Base /\ [Next]_vars => Shape
<1> SUFFICES ASSUME Base, [Next]_vars  PROVE Shape
  OBVIOUS
<1> USE DEF row, scope, inst, ledger
<1>0. /\ state \in [Run -> {"NONE"} \cup Open \cup Ending]
      /\ DOMAIN log = Run /\ DOMAIN g = Run
      /\ \A r \in Run : state[r] = "NONE" => log[r] = <<>> /\ g[r].pc = "none" /\ r \notin paid
  BY DEF Base, TypeOK, Unborn
<1>1. ASSUME NEW i \in Instance, NEW r \in Run, CreateQuery(i, r)  PROVE Shape
  <2>1. Submitted(r)
    BY <1>0, <1>1 DEF CreateQuery, Submitted
  <2>2. ASSUME NEW q \in Run \ {r}  PROVE Quiet(q)
    BY <1>0, <1>1 DEF CreateQuery, Quiet
  <2> QED  BY <2>1, <2>2 DEF Shape
<1>2. ASSUME NEW r \in Run, Start(r)  PROVE Shape
  <2>1. ASSUME NEW q \in Run  PROVE Quiet(q)
    BY <1>0, <1>2 DEF Start, Launchable, Quiet, Open
  <2> QED  BY <2>1 DEF Shape
<1>3. ASSUME NEW r \in Run, Announce(r)  PROVE Shape
  <2>1. state[r] # "NONE"
    BY <1>0, <1>3 DEF Announce, Goroutine
  <2>2. ASSUME NEW q \in Run \ {r}  PROVE Quiet(q)
    BY <1>0, <1>3 DEF Announce, Quiet
  <2>3. Quiet(r) \/ Progress(r)
    BY <1>0, <1>3, <2>1 DEF Announce, OwnedRow, Append2, Quiet, Progress
  <2> QED  BY <2>2, <2>3 DEF Shape
<1>4. ASSUME NEW r \in Run, RuntimeEvent(r)  PROVE Shape
  <2>1. state[r] # "NONE"
    BY <1>0, <1>4 DEF RuntimeEvent, Goroutine
  <2>2. ASSUME NEW q \in Run \ {r}  PROVE Quiet(q)
    BY <1>0, <1>4 DEF RuntimeEvent, Quiet
  <2>3. Quiet(r) \/ Progress(r)
    BY <1>0, <1>4, <2>1 DEF RuntimeEvent, OwnedRow, Append2, Quiet, Progress
  <2> QED  BY <2>2, <2>3 DEF Shape
<1>5. ASSUME NEW r \in Run, FinishRun(r)  PROVE Shape
  <2>1. CASE ~Finishable(r)
    BY <1>5, <2>1, AllQuiet DEF FinishRun
  <2>2. CASE Finishable(r)
    <3>1. PICK valid \in BOOLEAN, late \in BOOLEAN :
             /\ state' = [state EXCEPT ![r] = FinalState(r, valid, late)]
             /\ log' = [log EXCEPT ![r] = @ \o FinalBatch(r, valid, late)]
      BY <1>5, <2>2, Zenon DEF FinishRun
    <3>2. PICK e, b : e = FinalState(r, valid, late) /\ b = FinalBatch(r, valid, late)
      OBVIOUS
    <3>3. /\ e \in Ending
          /\ b = IF e = "COMPLETED" THEN <<"ANSWER_DELTA", "DONE">> ELSE <<"ERROR", "DONE">>
      BY <3>2, FinalIs DEF Ending
    <3>4. state' = [state EXCEPT ![r] = e] /\ log' = [log EXCEPT ![r] = log[r] \o b]
      BY <3>1, <3>2
    <3>5. state[r] \in Open
      BY <2>2 DEF Finishable
    <3>6. state'[r] = e /\ log'[r] = log[r] \o b
      BY <1>0, <3>4
    <3>7. Ended(r, e)
      <4>1. e # "INTERRUPTED"
        BY <3>2, FinalIs
      <4> QED  BY <3>3, <3>5, <3>6, <4>1 DEF Ended
    <3>8. ASSUME NEW q \in Run \ {r}  PROVE Quiet(q)
      BY <1>0, <3>4 DEF Quiet
    <3> QED  BY <3>3, <3>7, <3>8, EndingOfOne
  <2> QED  BY <2>1, <2>2
<1>6. ASSUME NEW i \in Instance, NEW r \in Run, CancelQuery(i, r)  PROVE Shape
  <2>1. CASE state[r] \in Open
    <3>1. Ended(r, "CANCELLED")
      BY <1>0, <1>6, <2>1 DEF CancelQuery, Append2, Ended
    <3>2. ASSUME NEW q \in Run \ {r}  PROVE Quiet(q)
      BY <1>0, <1>6, <2>1 DEF CancelQuery, Quiet
    <3>3. "CANCELLED" \in Ending
      BY DEF Ending
    <3> QED  BY <3>1, <3>2, <3>3, EndingOfOne
  <2>2. CASE state[r] \notin Open
    BY <1>6, <2>2, AllQuiet DEF CancelQuery
  <2> QED  BY <2>1, <2>2
<1>7. ASSUME NEW i \in Instance, RecoverOwnedWork(i)  PROVE Shape
  <2>1. PICK S : S = {r \in Run : state[r] \in Open /\ Lost(owner[r])}
    OBVIOUS
  <2>2. /\ state' = [r \in Run |-> IF r \in S THEN "INTERRUPTED" ELSE state[r]]
        /\ log' = [r \in Run |-> IF r \in S THEN log[r] \o <<"ERROR", "DONE">> ELSE log[r]]
    BY <1>7, <2>1 DEF RecoverOwnedWork
  <2>3. ASSUME NEW r \in S  PROVE Ended(r, "INTERRUPTED")
    BY <2>1, <2>2, <2>3 DEF Ended, Lost, OwnerLive
  <2>4. ASSUME NEW r \in Run \ S  PROVE Quiet(r)
    BY <2>2, <2>4 DEF Quiet
  <2>5. CASE S = {}
    BY <2>4, <2>5 DEF Shape
  <2>6. CASE S # {}
    <3>1. S \in SUBSET Run
      BY <2>1
    <3>2. OneEnding("INTERRUPTED")
      BY <2>3, <2>4, <2>6, <3>1, Zenon DEF OneEnding
    <3>3. "INTERRUPTED" \in Ending
      BY DEF Ending
    <3> QED  BY <3>2, <3>3 DEF Shape
  <2> QED  BY <2>5, <2>6
<1>7a. ASSUME NEW r \in Run, LedgerEvent(r)  PROVE Shape
  <2>1. state[r] # "NONE"
    BY <1>0, <1>7a DEF LedgerEvent
  <2>2. ASSUME NEW q \in Run \ {r}  PROVE Quiet(q)
    BY <1>0, <1>7a DEF LedgerEvent, Quiet
  <2>3. Progress(r)
    BY <1>0, <1>7a, <2>1 DEF LedgerEvent, Append2, Progress
  <2> QED  BY <2>2, <2>3 DEF Shape
<1>8. ASSUME NEW r \in Run,
             \/ Plan(r) \/ AnswerEvent(r) \/ StreamEnds(r) \/ FinishFails(r)
             \/ PassDeadline(r) \/ LoseScope(r) \/ ReserveCall(r)
             \/ ReadRun(r) \/ ReadRows(r) \/ ReadBreaks(r) \/ Reopen(r)
      PROVE  Shape
  <2>1. UNCHANGED <<state, log>>
    BY <1>8 DEF Plan, AnswerEvent, StreamEnds, FinishFails, PassDeadline, LoseScope, ReserveCall,
                ReadRun, ReadRows, ReadBreaks, Reopen
  <2> QED  BY <2>1, AllQuiet
<1>9. ASSUME NEW i \in Instance, Crash(i) \/ Expire(i) \/ StopWork(i) \/ Stop(i)  PROVE Shape
  <2>1. UNCHANGED <<state, log>>
    BY <1>9 DEF Crash, Expire, StopWork, Stop
  <2> QED  BY <2>1, AllQuiet
<1>10. CASE UNCHANGED vars
  BY <1>10, AllQuiet DEF vars
<1> QED  BY <1>1, <1>2, <1>3, <1>4, <1>5, <1>6, <1>7, <1>7a, <1>8, <1>9, <1>10 DEF Next, Drive

-----------------------------------------------------------------------------
(* The reader *)

\* Whatever a client does, it is left with a position within the log; it holds
\* that the run has ended only if it has, and a stream that closes unbroken
\* closes after a whole page.
LEMMA ReadStep ==
    ASSUME Base, NEW r \in Run, ReadRun(r) \/ ReadRows(r) \/ ReadBreaks(r) \/ Reopen(r)
    PROVE  /\ \E x \in Reader :
                /\ reader' = [reader EXCEPT ![r] = x]
                /\ x.after <= Len(log[r])
                /\ x.pc = "rows" /\ x.ended => state[r] \in Ending
                /\ x.pc = "closed" /\ ~x.broken =>
                      reader[r].pc = "rows" /\ reader[r].ended /\ x.after = NextPage(r)
           /\ UNCHANGED <<row, log, deadline, scope, inst, g, tools, ledger, orphan>>
           /\ trouble' \in {trouble, trouble + 1} /\ (trouble' # trouble => trouble < MaxTrouble)
<1>0. /\ reader \in [Run -> Reader] /\ reader[r] \in Reader
      /\ reader[r].after \in Nat /\ Len(log[r]) \in Nat /\ PageLimit \in Nat
      /\ reader[r].after <= Len(log[r])
      /\ state \in [Run -> {"NONE"} \cup Open \cup Ending]
  BY RunAssumption DEF Base, TypeOK, Reader
<1>1. /\ UNCHANGED <<row, log, deadline, scope, inst, g, tools, ledger, orphan>>
      /\ trouble' \in {trouble, trouble + 1} /\ (trouble' # trouble => trouble < MaxTrouble)
  BY DEF ReadRun, ReadRows, ReadBreaks, Reopen
<1>2. NextPage(r) \in Nat /\ NextPage(r) <= Len(log[r])
  BY <1>0 DEF NextPage
<1> DEFINE Fine(x) == /\ x.after <= Len(log[r])
                      /\ x.pc = "rows" /\ x.ended => state[r] \in Ending
                      /\ x.pc = "closed" /\ ~x.broken =>
                            reader[r].pc = "rows" /\ reader[r].ended /\ x.after = NextPage(r)
           Goal == \E x \in Reader : reader' = [reader EXCEPT ![r] = x] /\ Fine(x)
<1>3. ASSUME ReadRun(r)  PROVE Goal
  <2>1. PICK b \in BOOLEAN : b <=> state[r] \notin Open
    OBVIOUS
  <2>2. CASE Visible(r)
    <3>1. PICK x : x = [reader[r] EXCEPT !.pc = "rows", !.ended = b]
      OBVIOUS
    <3>2. reader' = [reader EXCEPT ![r] = x]
      BY <1>3, <2>1, <2>2, <3>1 DEF ReadRun, SetReader
    <3>3. x \in Reader /\ x.pc = "rows" /\ x.ended = b /\ x.after = reader[r].after
      BY <1>0, <3>1 DEF Reader
    <3>4. b => state[r] \in Ending
      BY <1>0, <1>3, <2>1 DEF ReadRun
    <3> QED  BY <1>0, <3>2, <3>3, <3>4
  <2>3. CASE ~Visible(r)
    <3>1. PICK x : x = [reader[r] EXCEPT !.pc = "closed", !.broken = TRUE]
      OBVIOUS
    <3>2. reader' = [reader EXCEPT ![r] = x]
      BY <1>3, <2>3, <3>1 DEF ReadRun, SetReader
    <3>3. x \in Reader /\ x.pc = "closed" /\ x.broken /\ x.after = reader[r].after
      BY <1>0, <3>1 DEF Reader
    <3> QED  BY <1>0, <3>2, <3>3
  <2> QED  BY <2>2, <2>3
<1>4. ASSUME NEW n \in Nat, n <= Len(log[r]), NEW b \in BOOLEAN, reader[r].pc = "rows",
             ~b => n = NextPage(r), SetReader(r, AfterPage(r, n, b))
      PROVE  Goal
  <2>1. PICK x : x = AfterPage(r, n, b)
    OBVIOUS
  <2>2. reader[r].ended \in BOOLEAN
    BY <1>0 DEF Reader
  <2>3. /\ x.pc = IF reader[r].ended THEN "closed" ELSE "run"
        /\ x.after = n /\ x.ended = FALSE /\ x.broken = (b /\ reader[r].ended) /\ x \in Reader
    BY <2>1, <2>2 DEF AfterPage, NewReader, EndedWhenRead, Reader
  <2>4. reader' = [reader EXCEPT ![r] = x]
    BY <1>4, <2>1 DEF SetReader
  <2> QED  BY <1>4, <2>3, <2>4
<1>5. ASSUME ReadRows(r)  PROVE Goal
  BY <1>2, <1>4, <1>5 DEF ReadRows
<1>6. ASSUME ReadBreaks(r)  PROVE Goal
  <2>1. PICK n \in reader[r].after..NextPage(r) :
           \/ SetReader(r, [NewReader EXCEPT !.pc = "closed", !.after = n, !.broken = TRUE])
           \/ reader[r].pc = "rows" /\ SetReader(r, AfterPage(r, n, TRUE))
    BY <1>6 DEF ReadBreaks
  <2>2. n \in Nat /\ n <= Len(log[r])
    BY <1>0, <1>2
  <2>3. CASE SetReader(r, [NewReader EXCEPT !.pc = "closed", !.after = n, !.broken = TRUE])
    <3>1. PICK x : x = [NewReader EXCEPT !.pc = "closed", !.after = n, !.broken = TRUE]
      OBVIOUS
    <3>2. x \in Reader /\ x.pc = "closed" /\ x.broken /\ x.after = n
      BY <2>2, <3>1 DEF Reader, NewReader
    <3>3. reader' = [reader EXCEPT ![r] = x]
      BY <2>3, <3>1 DEF SetReader
    <3> QED  BY <2>2, <3>2, <3>3
  <2> QED  BY <1>4, <2>1, <2>2, <2>3
<1>7. ASSUME Reopen(r)  PROVE Goal
  <2>1. PICK x \in {[NewReader EXCEPT !.after = reader[r].after], [NewReader EXCEPT !.pc = "told"],
                    [NewReader EXCEPT !.pc = "denied"]} : reader' = [reader EXCEPT ![r] = x]
    BY <1>7 DEF Reopen, SetReader
  <2>2. NewReader.pc = "run" /\ NewReader.after = 0 /\ NewReader \in Reader
    BY DEF NewReader, Reader
  <2>3. /\ x \in Reader
        /\ x.pc \in {"run", "told", "denied"} /\ (x.after = reader[r].after \/ x.after = 0)
    <3>1. CASE x = [NewReader EXCEPT !.after = reader[r].after]
      BY <1>0, <2>2, <3>1 DEF Reader
    <3>2. ASSUME NEW p \in {"told", "denied"}, x = [NewReader EXCEPT !.pc = p]
          PROVE  x \in Reader /\ x.pc = p /\ x.after = 0
      BY <2>2, <3>2 DEF Reader
    <3> QED  BY <2>1, <2>2, <3>1, <3>2
  <2>4. x.after <= Len(log[r])
    BY <1>0, <2>3
  <2> QED  BY <2>1, <2>3, <2>4
<1> HIDE DEF Goal
<1>8. Goal
  BY <1>3, <1>5, <1>6, <1>7
<1> QED  BY <1>1, <1>8 DEF Goal

-----------------------------------------------------------------------------
(* The types *)

\* A step that adds events to the log of one run keeps the logs' type, and no
\* reader is past the end.
LEMMA Extend ==
    ASSUME TypeOK, NEW r \in Run, NEW b \in Seq(Event),
           log' = [log EXCEPT ![r] = log[r] \o b]
    PROVE  /\ log' \in [Run -> Seq(Event)]
           /\ \A q \in Run : Len(log'[q]) >= Len(log[q])
           /\ \A q \in Run : reader[q].after <= Len(log'[q])
<1>1. PICK s : s = log[r] \o b
  OBVIOUS
<1>2. s \in Seq(Event) /\ Len(s) = Len(log[r]) + Len(b)
  BY <1>1, ConcatProperties DEF TypeOK
<1>3. log' = [log EXCEPT ![r] = s] /\ log \in [Run -> Seq(Event)]
  BY <1>1 DEF TypeOK
<1>4. ASSUME NEW q \in Run  PROVE Len(log'[q]) >= Len(log[q])
  BY <1>2, <1>3
<1>5. ASSUME NEW q \in Run
      PROVE  reader[q].after \in Nat /\ reader[q].after <= Len(log[q])
  BY DEF TypeOK, Reader
<1>6. log' \in [Run -> Seq(Event)]
  BY <1>2, <1>3
<1>7. \A q \in Run : Len(log'[q]) \in Nat /\ Len(log[q]) \in Nat
  BY <1>3, <1>6
<1> QED  BY <1>4, <1>5, <1>6, <1>7

LEMMA ExtendOne ==
    ASSUME TypeOK, NEW r \in Run, NEW e \in Event,
           log' = [log EXCEPT ![r] = Append(log[r], e)]
    PROVE  /\ log' \in [Run -> Seq(Event)]
           /\ \A q \in Run : reader[q].after <= Len(log'[q])
<1>1. log[r] \in Seq(Event)
  BY DEF TypeOK
<1>2. Append(log[r], e) = log[r] \o <<e>> /\ <<e>> \in Seq(Event)
  BY <1>1, AppendIsConcat
<1> QED  BY <1>2, Extend

LEMMA SameLog ==
    ASSUME TypeOK, UNCHANGED log
    PROVE  /\ log' \in [Run -> Seq(Event)]
           /\ \A q \in Run : reader[q].after <= Len(log'[q])
BY DEF TypeOK

\* The types of what the log does not limit.
Others ==
    /\ state \in [Run -> {"NONE"} \cup Open \cup Ending]
    /\ owner \in [Run -> Instance \cup {None}]
    /\ \A r \in Run : state[r] = "NONE" <=> owner[r] = None
    /\ cancelled \subseteq Run /\ answered \subseteq Run
    /\ deadline \subseteq Run /\ current \subseteq Run /\ revoked \subseteq Run
    /\ lease \in [Instance -> {"live", "expired", "stopped"}]
    /\ tools \in [Run -> 0..MaxTool]
    /\ paid \subseteq Run
    /\ costs \in [Run -> 0..MaxCosts]
    /\ orphan \subseteq Run
    /\ trouble \in 0..MaxTrouble

Minds == g \in [Run -> [pc : Step, answer : BOOLEAN, failed : BOOLEAN, stopped : BOOLEAN]]
Readers == reader \in [Run -> Reader]
Ups == up \in [Instance -> BOOLEAN]
Logs == log \in [Run -> Seq(Event)] /\ \A r \in Run : reader[r].after <= Len(log[r])

LEMMA Parts == TypeOK <=> Others /\ Minds /\ Readers /\ Ups /\ Logs
BY DEF TypeOK, Others, Minds, Readers, Ups, Logs

\* What a step can do to the goroutines: a goroutine that does not exist begins
\* only when its run is submitted.
LEMMA MindsKept ==
    ASSUME Base, [Next]_vars
    PROVE  /\ Minds'
           /\ \A q \in Run : g[q].pc = "none" /\ state[q] = "NONE" =>
                        g'[q].pc = "none" \/ state'[q] = "QUEUED"
<1> USE DEF row, scope, inst, ledger
<1> DEFINE Mind == [pc : Step, answer : BOOLEAN, failed : BOOLEAN, stopped : BOOLEAN]
           Goal == /\ Minds'
                   /\ \A q \in Run : g[q].pc = "none" /\ state[q] = "NONE" =>
                        g'[q].pc = "none" \/ state'[q] = "QUEUED"
<1>0. g \in [Run -> Mind] /\ state \in [Run -> {"NONE"} \cup Open \cup Ending]
  BY DEF Base, TypeOK
<1>1. ASSUME NEW r \in Run, NEW p \in Step, g' = To(r, p),
             g[r].pc # "none" \/ state'[r] = "QUEUED"
      PROVE  Goal
  <2>1. [g[r] EXCEPT !.pc = p] \in Mind
    BY <1>0
  <2>2. g' = [g EXCEPT ![r] = [g[r] EXCEPT !.pc = p]]
    BY <1>0, <1>1 DEF To
  <2> QED  BY <1>0, <1>1, <2>1, <2>2 DEF Minds
<1>2. ASSUME NEW r \in Run, g' = Failed(r), g[r].pc # "none"
      PROVE  Goal
  <2>1. [[g[r] EXCEPT !.pc = "finish"] EXCEPT !.failed = TRUE] \in Mind
    BY <1>0 DEF Step
  <2>2. g' = [g EXCEPT ![r] = [[g[r] EXCEPT !.pc = "finish"] EXCEPT !.failed = TRUE]]
    BY <1>0, <1>2 DEF Failed
  <2> QED  BY <1>0, <1>2, <2>1, <2>2 DEF Minds
<1>3. ASSUME UNCHANGED g  PROVE Goal
  BY <1>0, <1>3 DEF Minds
<1> HIDE DEF Goal
<1>4. ASSUME NEW i \in Instance, NEW r \in Run, CreateQuery(i, r)  PROVE Goal
  <2>1. state'[r] = "QUEUED"
    BY <1>0, <1>4 DEF CreateQuery
  <2>2. "start" \in Step /\ (g' = To(r, "start") \/ UNCHANGED g)
    BY <1>4 DEF CreateQuery, Step
  <2> QED  BY <1>1, <1>3, <2>1, <2>2
<1>4a. ASSUME NEW r \in Run, g' = Gone(r), g[r].pc # "none"  PROVE Goal
  <2>1. Returned \in Mind
    BY DEF Returned, NoGoroutine, Step
  <2> QED  BY <1>0, <1>4a, <2>1 DEF Gone, Goal, Minds
<1>5. ASSUME NEW r \in Run, Start(r) \/ Plan(r) \/ StreamEnds(r)  PROVE Goal
  <2>1. g[r].pc # "none"
    BY <1>5 DEF Start, Plan, StreamEnds, Goroutine
  <2>2. \/ g' = To(r, "announce") \/ g' = To(r, "stream") \/ g' = To(r, "finish")
        \/ g' = Failed(r) \/ g' = Gone(r)
    BY <1>5 DEF Start, Plan, StreamEnds
  <2>3. {"announce", "stream", "finish"} \subseteq Step
    BY DEF Step
  <2> QED  BY <1>1, <1>2, <1>4a, <2>1, <2>2, <2>3
<1>6. ASSUME NEW r \in Run, Announce(r) \/ FinishRun(r) \/ FinishFails(r)  PROVE Goal
  <2>1. g[r].pc # "none"
    BY <1>6 DEF Announce, FinishRun, FinishFails, Goroutine
  <2>2. (\E p \in Step : g' = To(r, p)) \/ g' = Gone(r)
    BY <1>6 DEF Announce, FinishRun, FinishFails, Step
  <2> QED  BY <1>1, <1>4a, <2>1, <2>2
<1>7. ASSUME NEW r \in Run, RuntimeEvent(r)  PROVE Goal
  <2>1. g[r].pc # "none"
    BY <1>7 DEF RuntimeEvent, Goroutine
  <2>2. CASE g' = Failed(r)
    BY <1>2, <2>1, <2>2
  <2>3. CASE g' # Failed(r)
    <3>1. PICK b \in BOOLEAN : g' = [g EXCEPT ![r].failed = b]
      <4>1. PICK e \in {"TOOL", "ERROR"} : g' = [g EXCEPT ![r].failed = @ \/ e = "ERROR"]
        BY <1>7, <2>3 DEF RuntimeEvent
      <4>2. (g[r].failed \/ e = "ERROR") \in BOOLEAN
        OBVIOUS
      <4> QED  BY <1>0, <4>1, <4>2
    <3>2. [g[r] EXCEPT !.failed = b] \in Mind /\ [g[r] EXCEPT !.failed = b].pc = g[r].pc
      BY <1>0
    <3> QED  BY <1>0, <3>1, <3>2 DEF Goal, Minds
  <2> QED  BY <2>2, <2>3
<1>8. ASSUME NEW r \in Run, AnswerEvent(r)  PROVE Goal
  <2>1. g' = [g EXCEPT ![r].answer = TRUE]
    BY <1>8 DEF AnswerEvent
  <2>2. [g[r] EXCEPT !.answer = TRUE] \in Mind /\ [g[r] EXCEPT !.answer = TRUE].pc = g[r].pc
    BY <1>0
  <2> QED  BY <1>0, <2>1, <2>2 DEF Goal, Minds
<1>9. ASSUME NEW i \in Instance, NEW r \in Run, CancelQuery(i, r)  PROVE Goal
  <2>1. PICK b \in BOOLEAN : g' = [g EXCEPT ![r].stopped = b]
    <3>1. (g[r].stopped \/ (i = owner[r] /\ Working(r))) \in BOOLEAN
      OBVIOUS
    <3>2. g' = [g EXCEPT ![r].stopped = (g[r].stopped \/ (i = owner[r] /\ Working(r)))]
      BY <1>0, <1>9 DEF CancelQuery
    <3> QED  BY <3>1, <3>2
  <2>2. [g[r] EXCEPT !.stopped = b] \in Mind /\ [g[r] EXCEPT !.stopped = b].pc = g[r].pc
    BY <1>0
  <2> QED  BY <1>0, <2>1, <2>2 DEF Goal, Minds
<1>10. ASSUME NEW i \in Instance, StopWork(i)  PROVE Goal
  <2>1. g' = [r \in Run |-> IF owner[r] = i /\ Working(r)
                              THEN [g[r] EXCEPT !.stopped = TRUE] ELSE g[r]]
    BY <1>10 DEF StopWork
  <2>2. ASSUME NEW r \in Run
        PROVE  [g[r] EXCEPT !.stopped = TRUE] \in Mind /\ [g[r] EXCEPT !.stopped = TRUE].pc = g[r].pc
    BY <1>0
  <2> QED  BY <1>0, <2>1, <2>2 DEF Goal, Minds
<1>10a. ASSUME NEW i \in Instance, Crash(i)  PROVE Goal
  <2>1. /\ g' = [r \in Run |-> IF owner[r] = i THEN Returned ELSE g[r]]
        /\ UNCHANGED state /\ Returned \in Mind
    BY <1>10a DEF Crash, Returned, NoGoroutine, Step
  <2>2. g' \in [Run -> Mind]
    BY <1>0, <2>1
  <2>3. ASSUME NEW q \in Run, g[q].pc = "none", state[q] = "NONE"  PROVE g'[q].pc = "none"
    <3>1. owner[q] # i
      BY <1>10a, <2>3, RunAssumption DEF Base, TypeOK
    <3> QED  BY <2>1, <2>3, <3>1
  <2> QED  BY <2>2, <2>3 DEF Goal, Minds
<1>11. ASSUME NEW r \in Run,
              \/ PassDeadline(r) \/ LoseScope(r) \/ ReserveCall(r) \/ LedgerEvent(r)
              \/ ReadRun(r) \/ ReadRows(r) \/ ReadBreaks(r) \/ Reopen(r)
       PROVE  Goal
  BY <1>3, <1>11 DEF PassDeadline, LoseScope, ReserveCall, LedgerEvent, ReadRun, ReadRows,
                     ReadBreaks, Reopen
<1>12. ASSUME NEW i \in Instance, Expire(i) \/ Stop(i) \/ RecoverOwnedWork(i)
       PROVE  Goal
  BY <1>3, <1>12 DEF Expire, Stop, RecoverOwnedWork
<1>13. ASSUME UNCHANGED vars  PROVE Goal
  BY <1>3, <1>13 DEF vars
<1>14. Goal
  BY <1>4, <1>5, <1>6, <1>7, <1>8, <1>9, <1>10, <1>10a, <1>11, <1>12, <1>13 DEF Next, Drive
<1> QED  BY <1>14 DEF Goal

\* Only a run that exists pays for a call.
LEMMA NewlyPaid ==
    ASSUME [Next]_vars
    PROVE  paid' \subseteq paid \cup {r \in Run : state[r] # "NONE"}
<1> USE DEF ledger
<1>1. ASSUME NEW r \in Run, ReserveCall(r)
      PROVE  paid' \subseteq paid \cup {q \in Run : state[q] # "NONE"}
  BY <1>1 DEF ReserveCall
<1>2. ASSUME NEW r \in Run,
             \/ Start(r) \/ Announce(r) \/ Plan(r) \/ RuntimeEvent(r) \/ AnswerEvent(r)
             \/ StreamEnds(r) \/ FinishRun(r) \/ FinishFails(r) \/ PassDeadline(r) \/ LoseScope(r)
             \/ LedgerEvent(r) \/ ReadRun(r) \/ ReadRows(r) \/ ReadBreaks(r) \/ Reopen(r)
      PROVE  paid' = paid
  BY <1>2 DEF Start, Announce, Plan, RuntimeEvent, AnswerEvent, StreamEnds, FinishRun, FinishFails,
              PassDeadline, LoseScope, LedgerEvent, ReadRun, ReadRows, ReadBreaks, Reopen
<1>3. ASSUME NEW i \in Instance, NEW r \in Run, CreateQuery(i, r) \/ CancelQuery(i, r)
      PROVE  paid' = paid
  BY <1>3 DEF CreateQuery, CancelQuery
<1>4. ASSUME NEW i \in Instance,
             Crash(i) \/ Expire(i) \/ StopWork(i) \/ Stop(i) \/ RecoverOwnedWork(i)
      PROVE  paid' = paid
  BY <1>4 DEF Crash, Expire, StopWork, Stop, RecoverOwnedWork
<1>5. CASE UNCHANGED vars
  BY <1>5 DEF vars
<1> QED  BY <1>1, <1>2, <1>3, <1>4, <1>5 DEF Next, Drive

LEMMA UnbornKept ==
    ASSUME Base, [Next]_vars
    PROVE  Unborn'
<1>1. Shape
  BY StepShape
<1>2. ASSUME NEW q \in Run, state'[q] = "NONE"
      PROVE  log'[q] = <<>> /\ g'[q].pc = "none" /\ q \notin paid'
  <2>1. \A r \in Run, e \in Ending : ~(Ended(r, e) /\ state'[r] = "NONE")
    BY DEF Ended, Ending
  <2>2. Quiet(q) \/ Progress(q)
    BY <1>1, <1>2, <2>1 DEF Shape, Submitted, OneEnding
  <2>3. state[q] = "NONE" /\ log'[q] = log[q]
    BY <1>2, <2>2 DEF Quiet, Progress, Open
  <2>4. log[q] = <<>> /\ g[q].pc = "none" /\ q \notin paid
    BY <2>3 DEF Base, Unborn
  <2>5. paid' \subseteq paid \cup {r \in Run : state[r] # "NONE"}
    BY NewlyPaid
  <2> QED  BY <1>2, <2>3, <2>4, <2>5, MindsKept
<1> QED  BY <1>2 DEF Unborn

LEMMA LogsKept == Base /\ [Next]_vars => Logs'
<1> SUFFICES ASSUME Base, [Next]_vars  PROVE Logs'
  OBVIOUS
<1> USE DEF row, scope, inst, ledger
<1> DEFINE Grown == /\ log' \in [Run -> Seq(Event)]
                    /\ \A q \in Run : reader[q].after <= Len(log'[q])
<1>0. TypeOK
  BY DEF Base
<1>1. ASSUME Grown, UNCHANGED reader  PROVE Logs'
  BY <1>1 DEF Logs
<1>2. ASSUME UNCHANGED <<log, reader>>  PROVE Logs'
  BY <1>0, <1>2 DEF TypeOK, Logs
<1> HIDE DEF Grown
<1>3. ASSUME NEW i \in Instance, NEW r \in Run, CreateQuery(i, r)  PROVE Logs'
  <2>1. log[r] = <<>>
    BY <1>3 DEF CreateQuery, Base, Unborn
  <2>2. log' = [log EXCEPT ![r] = Append(log[r], "STATUS")] /\ "STATUS" \in Event
    BY <1>3, <2>1 DEF CreateQuery, Event
  <2>3. Grown
    BY <1>0, <2>2, ExtendOne DEF Grown
  <2> QED  BY <1>1, <1>3, <2>3 DEF CreateQuery
<1>4. ASSUME NEW r \in Run, Announce(r) \/ RuntimeEvent(r) \/ LedgerEvent(r)  PROVE Logs'
  <2>1. CASE UNCHANGED log
    BY <1>2, <1>4, <2>1 DEF Announce, RuntimeEvent, LedgerEvent
  <2>2. CASE log' # log
    <3>1. PICK e \in Event : log' = [log EXCEPT ![r] = Append(log[r], e)]
      BY <1>0, <1>4, <2>2 DEF Announce, RuntimeEvent, LedgerEvent, Append2, Event, TypeOK
    <3>2. Grown
      BY <1>0, <3>1, ExtendOne DEF Grown
    <3> QED  BY <1>1, <1>4, <3>2 DEF Announce, RuntimeEvent, LedgerEvent
  <2> QED  BY <2>1, <2>2
<1>5. ASSUME NEW r \in Run, FinishRun(r)  PROVE Logs'
  <2>1. CASE ~Finishable(r)
    BY <1>2, <1>5, <2>1 DEF FinishRun
  <2>2. CASE Finishable(r)
    <3>1. PICK valid \in BOOLEAN, late \in BOOLEAN :
             log' = [log EXCEPT ![r] = @ \o FinalBatch(r, valid, late)]
      BY <1>5, <2>2, Zenon DEF FinishRun
    <3>2. PICK b : b = FinalBatch(r, valid, late)
      OBVIOUS
    <3>3. b \in Seq(Event)
      <4>1. <<"ANSWER_DELTA", "DONE">> \in Seq(Event) /\ <<"ERROR", "DONE">> \in Seq(Event)
        BY DEF Event
      <4>2. b = <<"ANSWER_DELTA", "DONE">> \/ b = <<"ERROR", "DONE">>
        BY <3>2, FinalIs
      <4> QED  BY <4>1, <4>2, Zenon
    <3>4. log' = [log EXCEPT ![r] = log[r] \o b]
      BY <3>1, <3>2
    <3>5. Grown
      BY <1>0, <3>3, <3>4, Extend DEF Grown
    <3> QED  BY <1>1, <1>5, <3>5 DEF FinishRun
  <2> QED  BY <2>1, <2>2
<1>6. ASSUME NEW i \in Instance, NEW r \in Run, CancelQuery(i, r)  PROVE Logs'
  <2>1. CASE state[r] \in Open
    <3>1. log' = [log EXCEPT ![r] = Append(log[r], "DONE")] /\ "DONE" \in Event
      BY <1>6, <2>1 DEF CancelQuery, Append2, Event
    <3>2. Grown
      BY <1>0, <3>1, ExtendOne DEF Grown
    <3> QED  BY <1>1, <1>6, <3>2 DEF CancelQuery
  <2>2. CASE state[r] \notin Open
    BY <1>2, <1>6, <2>2 DEF CancelQuery
  <2> QED  BY <2>1, <2>2
<1>7. ASSUME NEW i \in Instance, RecoverOwnedWork(i)  PROVE Logs'
  <2>1. PICK S : log' = [r \in Run |-> IF r \in S THEN log[r] \o <<"ERROR", "DONE">> ELSE log[r]]
    BY <1>7 DEF RecoverOwnedWork
  <2>2. ASSUME NEW r \in Run
        PROVE  log'[r] \in Seq(Event) /\ Len(log'[r]) >= Len(log[r])
    <3>1. log[r] \in Seq(Event) /\ <<"ERROR", "DONE">> \in Seq(Event)
      BY <1>0 DEF TypeOK, Event
    <3>2. /\ (log[r] \o <<"ERROR", "DONE">>) \in Seq(Event)
          /\ Len(log[r] \o <<"ERROR", "DONE">>) >= Len(log[r])
      BY <3>1
    <3> QED  BY <2>1, <3>1, <3>2
  <2>3. ASSUME NEW r \in Run  PROVE reader[r].after <= Len(log'[r])
    <3>1. reader[r].after \in Nat /\ reader[r].after <= Len(log[r]) /\ log[r] \in Seq(Event)
      BY <1>0 DEF TypeOK, Reader
    <3>2. Len(log[r]) \in Nat /\ Len(log'[r]) \in Nat
      BY <2>2, <3>1
    <3> QED  BY <2>2, <3>1, <3>2
  <2>4. log' \in [Run -> Seq(Event)]
    BY <2>1, <2>2
  <2>5. Grown
    BY <2>3, <2>4 DEF Grown
  <2> QED  BY <1>1, <1>7, <2>5 DEF RecoverOwnedWork
<1>8. ASSUME NEW r \in Run, ReadRun(r) \/ ReadRows(r) \/ ReadBreaks(r) \/ Reopen(r)  PROVE Logs'
  <2>1. PICK x \in Reader : reader' = [reader EXCEPT ![r] = x] /\ x.after <= Len(log[r])
    BY <1>8, ReadStep
  <2>2. UNCHANGED log
    BY <1>8, ReadStep
  <2> QED  BY <1>0, <2>1, <2>2 DEF TypeOK, Logs
<1>9. ASSUME NEW r \in Run,
             \/ Start(r) \/ Plan(r) \/ AnswerEvent(r) \/ StreamEnds(r) \/ FinishFails(r)
             \/ PassDeadline(r) \/ LoseScope(r) \/ ReserveCall(r)
      PROVE  Logs'
  BY <1>2, <1>9 DEF Start, Plan, AnswerEvent, StreamEnds, FinishFails, PassDeadline, LoseScope,
                    ReserveCall
<1>10. ASSUME NEW i \in Instance, Crash(i) \/ Expire(i) \/ StopWork(i) \/ Stop(i)  PROVE Logs'
  BY <1>2, <1>10 DEF Crash, Expire, StopWork, Stop
<1>11. CASE UNCHANGED vars
  BY <1>2, <1>11 DEF vars
<1> QED  BY <1>3, <1>4, <1>5, <1>6, <1>7, <1>8, <1>9, <1>10, <1>11 DEF Next, Drive

LEMMA ReadersKept == Base /\ [Next]_vars => Readers' /\ Ups'
<1> SUFFICES ASSUME Base, [Next]_vars  PROVE Readers' /\ Ups'
  OBVIOUS
<1> USE DEF row, scope, inst, ledger
<1>0. reader \in [Run -> Reader] /\ up \in [Instance -> BOOLEAN]
  BY DEF Base, TypeOK
<1>1. ASSUME UNCHANGED <<reader, up>>  PROVE Readers' /\ Ups'
  BY <1>0, <1>1 DEF Readers, Ups
<1>2. ASSUME NEW r \in Run, ReadRun(r) \/ ReadRows(r) \/ ReadBreaks(r) \/ Reopen(r)
      PROVE  Readers' /\ Ups'
  <2>1. (\E x \in Reader : reader' = [reader EXCEPT ![r] = x]) /\ UNCHANGED up
    BY <1>2, ReadStep
  <2> QED  BY <1>0, <2>1 DEF Readers, Ups
<1>4. ASSUME NEW i \in Instance, Crash(i) \/ Stop(i)  PROVE Readers' /\ Ups'
  BY <1>0, <1>4 DEF Crash, Stop, Readers, Ups
<1>5. ASSUME NEW r \in Run,
             \/ Start(r) \/ Announce(r) \/ Plan(r) \/ RuntimeEvent(r) \/ AnswerEvent(r)
             \/ StreamEnds(r) \/ FinishRun(r) \/ FinishFails(r) \/ PassDeadline(r) \/ LoseScope(r)
             \/ ReserveCall(r) \/ LedgerEvent(r)
      PROVE  Readers' /\ Ups'
  BY <1>1, <1>5 DEF Start, Announce, Plan, RuntimeEvent, AnswerEvent, StreamEnds, FinishRun,
                    FinishFails, PassDeadline, LoseScope, ReserveCall, LedgerEvent
<1>6. ASSUME NEW i \in Instance, NEW r \in Run, CreateQuery(i, r) \/ CancelQuery(i, r)
      PROVE  Readers' /\ Ups'
  BY <1>1, <1>6 DEF CreateQuery, CancelQuery
<1>7. ASSUME NEW i \in Instance, Expire(i) \/ StopWork(i) \/ RecoverOwnedWork(i)
      PROVE  Readers' /\ Ups'
  BY <1>1, <1>7 DEF Expire, StopWork, RecoverOwnedWork
<1>8. CASE UNCHANGED vars
  BY <1>1, <1>8 DEF vars
<1> QED  BY <1>2, <1>4, <1>5, <1>6, <1>7, <1>8 DEF Next, Drive

LEMMA OthersKept == Base /\ [Next]_vars => Others'
<1> SUFFICES ASSUME Base, [Next]_vars  PROVE Others'
  OBVIOUS
<1> USE DEF row, scope, inst, ledger
<1>0. Others /\ {MaxTool, MaxCosts, MaxTrouble} \subseteq Nat /\ None \notin Instance
  BY Parts, RunAssumption DEF Base
<1> USE DEF Others
<1>1. ASSUME NEW i \in Instance, NEW r \in Run, CreateQuery(i, r)  PROVE Others'
  <2>1. "QUEUED" \in Open /\ "NONE" \notin Open
    BY DEF Open
  <2>2. /\ state' = [state EXCEPT ![r] = "QUEUED"] /\ owner' = [owner EXCEPT ![r] = i]
        /\ orphan' \subseteq orphan \cup {r}
        /\ trouble' = trouble \/ (trouble < MaxTrouble /\ trouble' = trouble + 1)
        /\ UNCHANGED <<cancelled, answered, deadline, current, revoked, lease, tools, paid, costs>>
    BY <1>1 DEF CreateQuery
  <2>3. trouble' \in 0..MaxTrouble
    BY <1>0, <2>2
  <2>4. \A q \in Run : state'[q] = "NONE" <=> owner'[q] = None
    BY <1>0, <2>2
  <2>5. /\ state' \in [Run -> {"NONE"} \cup Open \cup Ending]
        /\ owner' \in [Run -> Instance \cup {None}]
    BY <1>0, <2>1, <2>2
  <2> QED  BY <1>0, <2>2, <2>3, <2>4, <2>5
<1>2. ASSUME UNCHANGED owner,
             state' \in [Run -> {"NONE"} \cup Open \cup Ending],
             \A q \in Run : state'[q] = "NONE" <=> state[q] = "NONE",
             cancelled' \subseteq Run, answered' \subseteq Run, deadline' \subseteq Run,
             UNCHANGED <<current, revoked, tools, paid, costs, trouble, orphan>>,
             lease' \in [Instance -> {"live", "expired", "stopped"}]
      PROVE  Others'
  BY <1>0, <1>2
<1>3. ASSUME NEW r \in Run, Start(r)  PROVE Others'
  <2>1. state' \in [Run -> {"NONE"} \cup Open \cup Ending]
    BY <1>0, <1>3 DEF Start, Open
  <2>2. \A q \in Run : state'[q] = "NONE" <=> state[q] = "NONE"
    BY <1>0, <1>3 DEF Start, Launchable
  <2> QED  BY <1>0, <1>2, <1>3, <2>1, <2>2 DEF Start
<1>4. ASSUME NEW r \in Run, FinishRun(r)  PROVE Others'
  <2>1. CASE ~Finishable(r)
    BY <1>0, <1>2, <1>4, <2>1 DEF FinishRun
  <2>2. CASE Finishable(r)
    <3>1. PICK valid \in BOOLEAN, late \in BOOLEAN :
             /\ deadline' = IF late THEN deadline \cup {r} ELSE deadline
             /\ state' = [state EXCEPT ![r] = FinalState(r, valid, late)]
             /\ answered' = IF FinalState(r, valid, late) = "COMPLETED"
                              THEN answered \cup {r} ELSE answered
      BY <1>4, <2>2, Zenon DEF FinishRun
    <3>2. PICK e : e = FinalState(r, valid, late)
      OBVIOUS
    <3>3. e \in Ending /\ e # "NONE" /\ state[r] # "NONE"
      BY <2>2, <3>2, FinalIs DEF Ending, Finishable, Open
    <3>4. state' = [state EXCEPT ![r] = e] /\ answered' \subseteq answered \cup {r}
          /\ deadline' \subseteq deadline \cup {r}
      BY <3>1, <3>2
    <3>5. UNCHANGED <<owner, cancelled, current, revoked, lease, tools, paid, costs, orphan, trouble>>
      BY <1>4 DEF FinishRun
    <3>6. state' \in [Run -> {"NONE"} \cup Open \cup Ending]
      BY <1>0, <3>3, <3>4
    <3>7. \A q \in Run : state'[q] = "NONE" <=> state[q] = "NONE"
      BY <1>0, <3>3, <3>4
    <3> QED  BY <1>0, <1>2, <3>4, <3>5, <3>6, <3>7
  <2> QED  BY <2>1, <2>2
<1>5. ASSUME NEW i \in Instance, NEW r \in Run, CancelQuery(i, r)  PROVE Others'
  <2>1. state' \in [Run -> {"NONE"} \cup Open \cup Ending]
    BY <1>0, <1>5 DEF CancelQuery, Ending
  <2>2. \A q \in Run : state'[q] = "NONE" <=> state[q] = "NONE"
    BY <1>0, <1>5 DEF CancelQuery
  <2>3. cancelled' \subseteq Run
    BY <1>0, <1>5 DEF CancelQuery
  <2> QED  BY <1>0, <1>2, <1>5, <2>1, <2>2, <2>3 DEF CancelQuery
<1>6. ASSUME NEW i \in Instance, RecoverOwnedWork(i)  PROVE Others'
  <2>1. PICK S : /\ S = {r \in Run : state[r] \in Open /\ Lost(owner[r])}
                 /\ state' = [r \in Run |-> IF r \in S THEN "INTERRUPTED" ELSE state[r]]
    BY <1>6 DEF RecoverOwnedWork
  <2>2. state' \in [Run -> {"NONE"} \cup Open \cup Ending]
    BY <1>0, <2>1 DEF Ending
  <2>3. \A q \in Run : state'[q] = "NONE" <=> state[q] = "NONE"
    BY <1>0, <2>1 DEF Open
  <2>4. lease' \in [Instance -> {"live", "expired", "stopped"}]
    BY <1>0, <1>6 DEF RecoverOwnedWork
  <2> QED  BY <1>0, <1>2, <1>6, <2>2, <2>3, <2>4 DEF RecoverOwnedWork
<1>7. ASSUME NEW r \in Run, PassDeadline(r) \/ RuntimeEvent(r)  PROVE Others'
  BY <1>0, <1>7 DEF PassDeadline, RuntimeEvent
<1>8. ASSUME NEW r \in Run, FinishFails(r) \/ LoseScope(r)  PROVE Others'
  BY <1>0, <1>8 DEF FinishFails, LoseScope
<1>8a. ASSUME NEW r \in Run, ReserveCall(r) \/ LedgerEvent(r)  PROVE Others'
  BY <1>0, <1>8a DEF ReserveCall, LedgerEvent
<1>8b. ASSUME NEW r \in Run, ReadRun(r) \/ ReadRows(r) \/ ReadBreaks(r) \/ Reopen(r)
       PROVE  Others'
  <2>1. /\ UNCHANGED <<row, deadline, scope, inst, tools, ledger, orphan>>
        /\ trouble' \in {trouble, trouble + 1} /\ (trouble' # trouble => trouble < MaxTrouble)
    BY <1>8b, ReadStep
  <2> QED  BY <1>0, <2>1
<1>9. ASSUME NEW r \in Run, Announce(r) \/ Plan(r) \/ AnswerEvent(r) \/ StreamEnds(r)
      PROVE  Others'
  BY <1>0, <1>9 DEF Announce, Plan, AnswerEvent, StreamEnds
<1>10. ASSUME NEW i \in Instance, Crash(i) \/ Expire(i) \/ StopWork(i) \/ Stop(i)  PROVE Others'
  BY <1>0, <1>10 DEF Crash, Expire, StopWork, Stop
<1>11. CASE UNCHANGED vars
  BY <1>0, <1>11 DEF vars
<1> QED  BY <1>1, <1>3, <1>4, <1>5, <1>6, <1>7, <1>8, <1>8a, <1>8b, <1>9, <1>10, <1>11
         DEF Next, Drive

LEMMA InitBase == Init => Base
<1> SUFFICES ASSUME Init  PROVE Base
  OBVIOUS
<1>1. Others
  BY RunAssumption DEF Init, Others
<1>2. Minds /\ Unborn
  BY DEF Init, Minds, Unborn, NoGoroutine, Step
<1>3. Readers
  BY DEF Init, Readers, Reader, NewReader
<1>4. Ups
  BY DEF Init, Ups
<1>5. Logs
  <2>1. \A r \in Run : log[r] = <<>> /\ reader[r].after = 0
    BY DEF Init, NewReader
  <2> QED  BY <2>1 DEF Init, Logs, Event
<1> QED  BY <1>1, <1>2, <1>3, <1>4, <1>5, Parts DEF Base

LEMMA BaseKept == Base /\ [Next]_vars => Base'
<1> SUFFICES ASSUME Base, [Next]_vars  PROVE Base'
  OBVIOUS
<1>1. Minds' /\ Unborn'
  BY MindsKept, UnbornKept
<1>2. Others' /\ Logs' /\ Readers' /\ Ups'
  BY OthersKept, LogsKept, ReadersKept
<1>3. TypeOK'
  BY <1>1, <1>2, Parts, Zenon DEF TypeOK, Others, Minds, Readers, Ups, Logs
<1> QED  BY <1>1, <1>3 DEF Base

LEMMA Typed == Spec => []Base
BY InitBase, BaseKept, PTL DEF Spec

\* Every variable keeps to its type, for any runs, instances and bounds; no
\* client is ever given more events than the run has.
THEOREM TypeCorrect == Spec => []TypeOK
<1>1. Base => TypeOK
  BY DEF Base
<1> QED  BY <1>1, Typed, PTL

-----------------------------------------------------------------------------
(* After a takeover *)

\* A lease that was lost stays lost, and a run keeps its owner.
LEMMA LostStaysLost ==
    ASSUME Base, [Next]_vars, NEW r \in Run, state[r] # "NONE", ~OwnerLive(r)
    PROVE  ~OwnerLive(r)'
<1> USE DEF row, scope, inst, ledger
<1>0. /\ owner \in [Run -> Instance \cup {None}] /\ owner[r] \in Instance
      /\ lease \in [Instance -> {"live", "expired", "stopped"}] /\ lease[owner[r]] # "live"
  BY DEF Base, TypeOK, OwnerLive
<1>1. owner'[r] = owner[r]
  <2>1. ASSUME NEW i \in Instance, NEW q \in Run, CreateQuery(i, q)  PROVE owner'[r] = owner[r]
    BY <1>0, <2>1 DEF CreateQuery
  <2>2. ASSUME NEW i \in Instance, NEW q \in Run, CancelQuery(i, q)  PROVE owner'[r] = owner[r]
    BY <2>2 DEF CancelQuery
  <2>3. ASSUME NEW q \in Run,
               \/ Start(q) \/ Announce(q) \/ Plan(q) \/ RuntimeEvent(q) \/ AnswerEvent(q)
               \/ StreamEnds(q) \/ FinishRun(q) \/ FinishFails(q) \/ PassDeadline(q) \/ LoseScope(q)
               \/ ReserveCall(q) \/ LedgerEvent(q)
               \/ ReadRun(q) \/ ReadRows(q) \/ ReadBreaks(q) \/ Reopen(q)
        PROVE  owner'[r] = owner[r]
    BY <2>3 DEF Start, Announce, Plan, RuntimeEvent, AnswerEvent, StreamEnds, FinishRun, FinishFails,
                PassDeadline, LoseScope, ReserveCall, LedgerEvent, ReadRun, ReadRows, ReadBreaks, Reopen
  <2>4. ASSUME NEW i \in Instance,
               Crash(i) \/ Expire(i) \/ StopWork(i) \/ Stop(i) \/ RecoverOwnedWork(i)
        PROVE  owner'[r] = owner[r]
    BY <2>4 DEF Crash, Expire, StopWork, Stop, RecoverOwnedWork
  <2>5. CASE UNCHANGED vars
    BY <2>5 DEF vars
  <2> QED  BY <2>1, <2>2, <2>3, <2>4, <2>5 DEF Next, Drive
<1>2. ASSUME NEW i \in Instance, lease[i] # "live"  PROVE lease'[i] # "live"
  <2>1. ASSUME NEW j \in Instance, Expire(j) \/ Stop(j) \/ RecoverOwnedWork(j)
        PROVE  lease'[i] # "live"
    BY <1>0, <1>2, <2>1 DEF Expire, Stop, RecoverOwnedWork
  <2>2. ASSUME NEW j \in Instance, Crash(j) \/ StopWork(j)  PROVE lease'[i] # "live"
    BY <1>2, <2>2 DEF Crash, StopWork
  <2>3. ASSUME NEW q \in Run,
               \/ Start(q) \/ Announce(q) \/ Plan(q) \/ RuntimeEvent(q) \/ AnswerEvent(q)
               \/ StreamEnds(q) \/ FinishRun(q) \/ FinishFails(q) \/ PassDeadline(q) \/ LoseScope(q)
               \/ ReserveCall(q) \/ LedgerEvent(q)
               \/ ReadRun(q) \/ ReadRows(q) \/ ReadBreaks(q) \/ Reopen(q)
        PROVE  lease'[i] # "live"
    BY <1>2, <2>3 DEF Start, Announce, Plan, RuntimeEvent, AnswerEvent, StreamEnds, FinishRun,
                FinishFails, PassDeadline, LoseScope, ReserveCall, LedgerEvent, ReadRun, ReadRows,
                ReadBreaks, Reopen
  <2>4. ASSUME NEW j \in Instance, NEW q \in Run, CreateQuery(j, q) \/ CancelQuery(j, q)
        PROVE  lease'[i] # "live"
    BY <1>2, <2>4 DEF CreateQuery, CancelQuery
  <2>5. CASE UNCHANGED vars
    BY <1>2, <2>5 DEF vars
  <2> QED  BY <2>1, <2>2, <2>3, <2>4, <2>5 DEF Next, Drive
<1> QED  BY <1>0, <1>1, <1>2 DEF OwnerLive

\* Only a run whose owner has lost its lease is taken over.
TakenFromTheLost == \A r \in Run : state[r] = "INTERRUPTED" => ~OwnerLive(r)

LEMMA TakenKept == Base /\ TakenFromTheLost /\ [Next]_vars => TakenFromTheLost'
<1> SUFFICES ASSUME Base, TakenFromTheLost, [Next]_vars, NEW r \in Run, state'[r] = "INTERRUPTED"
             PROVE  ~OwnerLive(r)'
  BY DEF TakenFromTheLost
<1>1. CASE state[r] = "INTERRUPTED"
  BY <1>1, LostStaysLost DEF TakenFromTheLost
<1>2. CASE state[r] # "INTERRUPTED"
  <2>1. Shape
    BY StepShape
  <2>2. Ended(r, "INTERRUPTED")
    BY <1>2, <2>1 DEF Shape, OneEnding, Quiet, Progress, Submitted, Ended, Open
  <2> QED  BY <2>2, LostStaysLost DEF Ended, Open
<1> QED  BY <1>1, <1>2

\* Only an open run is given an answer, and no answer is taken back.
LEMMA NewlyAnswered ==
    ASSUME [Next]_vars
    PROVE  /\ answered \subseteq answered'
           /\ \A r \in answered' \ answered : state[r] \in Open
<1> USE DEF row
<1> DEFINE Goal == /\ answered \subseteq answered'
                   /\ \A r \in answered' \ answered : state[r] \in Open
<1>1. ASSUME NEW r \in Run, FinishRun(r)  PROVE Goal
  <2>1. CASE ~Finishable(r)
    BY <1>1, <2>1 DEF FinishRun
  <2>2. CASE Finishable(r)
    <3>1. PICK valid \in BOOLEAN, late \in BOOLEAN :
             answered' = IF FinalState(r, valid, late) = "COMPLETED"
                           THEN answered \cup {r} ELSE answered
      BY <1>1, <2>2, Zenon DEF FinishRun
    <3>2. state[r] \in Open
      BY <2>2 DEF Finishable
    <3> QED  BY <3>1, <3>2
  <2> QED  BY <2>1, <2>2
<1>2. ASSUME UNCHANGED answered  PROVE Goal
  BY <1>2
<1> HIDE DEF Goal
<1>3. ASSUME NEW r \in Run,
             \/ Start(r) \/ Announce(r) \/ Plan(r) \/ RuntimeEvent(r) \/ AnswerEvent(r)
             \/ StreamEnds(r) \/ FinishFails(r) \/ PassDeadline(r) \/ LoseScope(r)
             \/ ReserveCall(r) \/ LedgerEvent(r)
             \/ ReadRun(r) \/ ReadRows(r) \/ ReadBreaks(r) \/ Reopen(r)
      PROVE  Goal
  BY <1>2, <1>3 DEF Start, Announce, Plan, RuntimeEvent, AnswerEvent, StreamEnds, FinishFails,
                    PassDeadline, LoseScope, ReserveCall, LedgerEvent, ReadRun, ReadRows,
                    ReadBreaks, Reopen
<1>4. ASSUME NEW i \in Instance, NEW r \in Run, CreateQuery(i, r) \/ CancelQuery(i, r)
      PROVE  Goal
  BY <1>2, <1>4 DEF CreateQuery, CancelQuery
<1>5. ASSUME NEW i \in Instance,
             Crash(i) \/ Expire(i) \/ StopWork(i) \/ Stop(i) \/ RecoverOwnedWork(i)
      PROVE  Goal
  BY <1>2, <1>5 DEF Crash, Expire, StopWork, Stop, RecoverOwnedWork
<1>6. ASSUME UNCHANGED vars  PROVE Goal
  BY <1>2, <1>6 DEF vars
<1>7. Goal
  BY <1>1, <1>3, <1>4, <1>5, <1>6 DEF Next, Drive
<1> QED  BY <1>7 DEF Goal

\* After a takeover the state and the answer of a run stay and its log takes
\* only what the ledger reports, whatever the goroutine of the lost process
\* still does: its lease cannot come back.
THEOREM TakeoverFinal == Spec => TakenOverIsFinal
<1> DEFINE Final == \A r \in Run : state[r] = "INTERRUPTED" =>
                        /\ state'[r] = "INTERRUPTED" /\ (r \in answered' <=> r \in answered)
                        /\ log'[r] = log[r] \/ log'[r] = Append(log[r], "COST")
<1>1. Init => TakenFromTheLost
  BY DEF Init, TakenFromTheLost
<1>2. Base /\ TakenFromTheLost /\ [Next]_vars => [Final]_vars
  <2> SUFFICES ASSUME Base, TakenFromTheLost, [Next]_vars, NEW r \in Run,
                      state[r] = "INTERRUPTED"
               PROVE  /\ state'[r] = "INTERRUPTED" /\ (r \in answered' <=> r \in answered)
                      /\ log'[r] = log[r] \/ log'[r] = Append(log[r], "COST")
    OBVIOUS
  <2>1. r \in answered' <=> r \in answered
    BY NewlyAnswered DEF Open
  <2>2. Quiet(r) \/ Progress(r)
    BY StepShape DEF Shape, OneEnding, Submitted, Ended, Open
  <2>3. ~OwnerLive(r)
    BY DEF TakenFromTheLost
  <2> QED  BY <2>1, <2>2, <2>3 DEF Quiet, Progress, Open
<1> HIDE DEF Final
<1>3. Spec => [][Final]_vars
  BY <1>1, <1>2, TakenKept, Typed, PTL DEF Spec
<1> QED  BY <1>3 DEF Final, TakenOverIsFinal

-----------------------------------------------------------------------------
(* The answer *)

\* An answer is stored only while it is still due, whatever has changed since
\* the run began: finishRun looks at everything again in its transaction.
THEOREM AnswersInTime == Spec => AnswerInTime
<1> USE DEF row, scope, inst, ledger
<1> DEFINE Due == \A r \in answered' \ answered :
                      /\ r \notin deadline' /\ r \in current /\ r \notin cancelled
                      /\ lease[owner[r]] = "live"
<1>1. Base /\ [Next]_vars => [Due]_vars
  <2> SUFFICES ASSUME Base, [Next]_vars  PROVE Due
    OBVIOUS
  <2>1. ASSUME NEW r \in Run, FinishRun(r)  PROVE Due
    <3>1. CASE ~Finishable(r)
      BY <2>1, <3>1 DEF FinishRun
    <3>2. CASE Finishable(r)
      <4>1. PICK valid \in BOOLEAN, late \in BOOLEAN :
               /\ deadline' = IF late THEN deadline \cup {r} ELSE deadline
               /\ answered' = IF FinalState(r, valid, late) = "COMPLETED"
                                THEN answered \cup {r} ELSE answered
        BY <2>1, <3>2, Zenon DEF FinishRun
      <4>2. CASE FinalState(r, valid, late) = "COMPLETED"
        <5>1. Verdict(r, valid) = "COMPLETED" /\ ~late
          BY <4>2 DEF FinalState
        <5>2. r \notin cancelled /\ r \notin deadline /\ Accepts(r, valid)
          BY <5>1 DEF Verdict
        <5> QED  BY <3>2, <4>1, <4>2, <5>1, <5>2 DEF Accepts, Finishable, OwnedRow, OwnerLive
      <4>3. CASE FinalState(r, valid, late) # "COMPLETED"
        BY <4>1, <4>3
      <4> QED  BY <4>2, <4>3
    <3> QED  BY <3>1, <3>2
  <2>2. ASSUME UNCHANGED answered  PROVE Due
    BY <2>2
  <2> HIDE DEF Due
  <2>3. ASSUME NEW r \in Run,
               \/ Start(r) \/ Announce(r) \/ Plan(r) \/ RuntimeEvent(r) \/ AnswerEvent(r)
               \/ StreamEnds(r) \/ FinishFails(r) \/ PassDeadline(r) \/ LoseScope(r)
               \/ ReserveCall(r) \/ LedgerEvent(r)
               \/ ReadRun(r) \/ ReadRows(r) \/ ReadBreaks(r) \/ Reopen(r)
        PROVE  Due
    BY <2>2, <2>3 DEF Start, Announce, Plan, RuntimeEvent, AnswerEvent, StreamEnds, FinishFails,
                      PassDeadline, LoseScope, ReserveCall, LedgerEvent, ReadRun, ReadRows,
                      ReadBreaks, Reopen
  <2>4. ASSUME NEW i \in Instance, NEW r \in Run, CreateQuery(i, r) \/ CancelQuery(i, r)
        PROVE  Due
    BY <2>2, <2>4 DEF CreateQuery, CancelQuery
  <2>5. ASSUME NEW i \in Instance,
               Crash(i) \/ Expire(i) \/ StopWork(i) \/ Stop(i) \/ RecoverOwnedWork(i)
        PROVE  Due
    BY <2>2, <2>5 DEF Crash, Expire, StopWork, Stop, RecoverOwnedWork
  <2>6. ASSUME UNCHANGED vars  PROVE Due
    BY <2>2, <2>6 DEF vars
  <2> QED  BY <2>1, <2>3, <2>4, <2>5, <2>6 DEF Next, Drive
<1> HIDE DEF Due
<1>2. Spec => [][Due]_vars
  BY <1>1, Typed, PTL DEF Spec
<1> QED  BY <1>2 DEF Due, AnswerInTime

-----------------------------------------------------------------------------
(* The event stream *)

HasDone(r) == \E k \in DOMAIN log[r] : log[r][k] = "DONE"

\* The end of a run and its DONE event become visible together.
Told == \A r \in Run : state[r] \in Ending => HasDone(r)

\* What a reader was told, and what it has been given.
Given ==
    \A r \in Run :
        /\ reader[r].pc = "rows" /\ reader[r].ended => HasDone(r)
        /\ reader[r].pc = "closed" /\ ~reader[r].broken =>
              \E k \in 1..reader[r].after : log[r][k] = "DONE"

\* The longest log: the submission, the start, the runtime's events, those of
\* the ledger, the end.
Began(r) == IF state[r] = "NONE" THEN 0 ELSE 1
Said(r) == IF g[r].pc \in {"plan", "stream", "finish", "gone"} THEN 1 ELSE 0
Over(r) == IF state[r] \in Ending THEN 2 ELSE 0
Size(r) == Began(r) + Said(r) + tools[r] + costs[r] + Over(r)
Fits == \A r \in Run : Len(log[r]) <= Size(r)

\* A log only grows.
LEMMA LogGrows ==
    ASSUME Base, [Next]_vars, NEW r \in Run
    PROVE  /\ Len(log[r]) <= Len(log'[r])
           /\ \A k \in 1..Len(log[r]) : log'[r][k] = log[r][k]
           /\ state'[r] \in Ending => state[r] \in Ending \/ HasDone(r)'
<1>1. PICK s, t : s = log[r] /\ t = log'[r]
  OBVIOUS
<1>2. s \in Seq(Event) /\ Len(s) \in Nat
  BY <1>1 DEF Base, TypeOK
<1>3. Shape /\ state \in [Run -> {"NONE"} \cup Open \cup Ending]
  BY StepShape DEF Base, TypeOK
<1>4. Quiet(r) \/ Progress(r) \/ Submitted(r) \/ \E e \in Ending : Ended(r, e)
  BY <1>3 DEF Shape, OneEnding
<1> DEFINE Goal == /\ Len(s) <= Len(t)
                   /\ \A k \in 1..Len(s) : t[k] = s[k]
                   /\ \/ state'[r] \in Ending => state[r] \in Ending
                      \/ \E k \in DOMAIN t : t[k] = "DONE"
<1>5. CASE Quiet(r)
  <2>1. Goal
    BY <1>1, <1>2, <1>3, <1>5 DEF Quiet, Open, Ending
  <2> QED  BY <1>1, <2>1 DEF HasDone
<1>6. CASE Progress(r)
  <2>1. PICK e \in Event : t = Append(s, e)
    <3>1. {"STATUS", "TOOL", "ERROR", "COST"} \subseteq Event
      BY DEF Event
    <3> QED  BY <1>1, <1>6, <3>1 DEF Progress
  <2>2. Goal
    BY <1>2, <1>6, <2>1 DEF Progress
  <2> QED  BY <1>1, <2>2 DEF HasDone
<1>7. CASE Submitted(r)
  <2>1. s = <<>> /\ t = <<"STATUS">> /\ state'[r] \notin Ending
    BY <1>1, <1>7 DEF Submitted, Ending
  <2> QED  BY <1>1, <2>1 DEF HasDone
<1>8. ASSUME NEW e \in Ending, Ended(r, e)  PROVE Goal
  <2>1. CASE t = Append(s, "DONE")
    <3>1. Len(t) = Len(s) + 1 /\ t[Len(s) + 1] = "DONE" /\ \A k \in 1..Len(s) : t[k] = s[k]
      BY <1>2, <2>1
    <3>2. DOMAIN t = 1..Len(t)
      BY <1>2, <2>1
    <3> QED  BY <1>2, <3>1, <3>2
  <2>2. ASSUME NEW x \in Event, t = s \o <<x, "DONE">>  PROVE Goal
    <3>1. t \in Seq(Event) /\ Len(t) = Len(s) + 2 /\ t[Len(s) + 2] = "DONE"
      BY <1>2, <2>2 DEF Event
    <3>2. \A k \in 1..Len(s) : t[k] = s[k]
      BY <1>2, <2>2
    <3> QED  BY <1>2, <3>1, <3>2
  <2>3. "ERROR" \in Event /\ "ANSWER_DELTA" \in Event
    BY DEF Event
  <2> HIDE DEF Goal
  <2> QED  BY <1>1, <1>8, <2>1, <2>2, <2>3 DEF Ended
<1>9. CASE \E e \in Ending : Ended(r, e)
  <2>1. Goal
    BY <1>8, <1>9
  <2> QED  BY <1>1, <2>1 DEF HasDone
<1> QED  BY <1>4, <1>5, <1>6, <1>7, <1>9

LEMMA DoneStays ==
    ASSUME Base, [Next]_vars, NEW r \in Run, HasDone(r)
    PROVE  HasDone(r)'
<1>1. /\ Len(log[r]) <= Len(log'[r]) /\ \A k \in 1..Len(log[r]) : log'[r][k] = log[r][k]
  BY LogGrows
<1>2. log[r] \in Seq(Event) /\ log'[r] \in Seq(Event)
  <2>1. log \in [Run -> Seq(Event)] /\ log' \in [Run -> Seq(Event)]
    BY BaseKept DEF Base, TypeOK
  <2> QED  BY <2>1
<1>3. PICK k \in 1..Len(log[r]) : log[r][k] = "DONE"
  BY <1>2 DEF HasDone
<1>4. k \in DOMAIN log'[r]
  BY <1>1, <1>2, <1>3
<1> QED  BY <1>1, <1>3, <1>4 DEF HasDone

LEMMA ToldKept == Base /\ Told /\ [Next]_vars => Told'
<1> SUFFICES ASSUME Base, Told, [Next]_vars, NEW r \in Run, state'[r] \in Ending
             PROVE  HasDone(r)'
  BY DEF Told
<1> QED  BY LogGrows, DoneStays DEF Told

\* Where an event may find room.
LEMMA Room ==
    ASSUME NEW l \in Nat, NEW m \in Nat, NEW b \in Nat, NEW s \in Nat, NEW t \in Nat,
           NEW c \in Nat, NEW o \in Nat,
           l <= b + s + t + c + o, m <= l + 1
    PROVE  /\ m <= b + (s + 1) + t + c + o
           /\ m <= b + s + (t + 1) + c + o
           /\ m <= b + s + t + (c + 1) + o
OBVIOUS

LEMMA FitsKept == Base /\ Fits /\ [Next]_vars => Fits'
<1> SUFFICES ASSUME Base, Fits, [Next]_vars  PROVE Fits'
  OBVIOUS
<1> USE DEF row, scope, inst, ledger
<1> DEFINE Mind == [pc : Step, answer : BOOLEAN, failed : BOOLEAN, stopped : BOOLEAN]
           FitsNext(q) == Len(log'[q]) <= Size(q)'
<1>0. /\ tools \in [Run -> 0..MaxTool] /\ costs \in [Run -> 0..MaxCosts] /\ log \in [Run -> Seq(Event)]
      /\ state \in [Run -> {"NONE"} \cup Open \cup Ending] /\ g \in [Run -> Mind]
      /\ tools' \in [Run -> 0..MaxTool] /\ costs' \in [Run -> 0..MaxCosts] /\ log' \in [Run -> Seq(Event)]
  BY BaseKept DEF Base, TypeOK
<1>1. ASSUME NEW q \in Run
      PROVE  /\ Len(log[q]) \in Nat /\ Len(log'[q]) \in Nat
             /\ tools[q] \in Nat /\ tools'[q] \in Nat
             /\ costs[q] \in Nat /\ costs'[q] \in Nat
             /\ Began(q) \in 0..1 /\ Said(q) \in 0..1 /\ Over(q) \in {0, 2}
             /\ Began(q)' \in 0..1 /\ Said(q)' \in 0..1 /\ Over(q)' \in {0, 2}
             /\ Len(log[q]) <= Began(q) + Said(q) + tools[q] + costs[q] + Over(q)
  BY <1>0 DEF Fits, Size, Began, Said, Over
<1>2. ASSUME NEW q \in Run, log'[q] = log[q], tools'[q] = tools[q] /\ costs'[q] = costs[q], Began(q)' = Began(q),
             Over(q)' = Over(q), Said(q) <= Said(q)'
      PROVE  FitsNext(q)
  BY <1>1, <1>2 DEF Size
<1>3. ASSUME NEW q \in Run, state'[q] = state[q]
      PROVE  Began(q)' = Began(q) /\ Over(q)' = Over(q)
  BY <1>3 DEF Began, Over
<1>4. ASSUME NEW q \in Run, g'[q].pc = g[q].pc  PROVE Said(q)' = Said(q)
  BY <1>4 DEF Said
<1>4a. ASSUME NEW r \in Run, NEW q \in Run,
              \/ g' = Failed(r) \/ g' = Gone(r) \/ g' = To(r, "stream") \/ g' = To(r, "finish")
              \/ g' = To(r, "announce") /\ g[r].pc = "start"
       PROVE  Said(q) <= Said(q)'
  <2>1. CASE q # r
    <3>1. g'[q] = g[q]
      BY <1>0, <1>4a, <2>1 DEF To, Failed, Gone
    <3> QED  BY <1>1, <1>4, <3>1
  <2>2. CASE q = r
    <3>1. \/ g'[r].pc \in {"finish", "stream", "gone"}
          \/ g'[r].pc = "announce" /\ g[r].pc = "start"
      BY <1>0, <1>4a DEF To, Failed, Gone, Returned, NoGoroutine
    <3> QED  BY <2>2, <3>1 DEF Said
  <2> QED  BY <2>1, <2>2
<1>5. ASSUME NEW q \in Run, log'[q] = log[q], tools'[q] = tools[q] /\ costs'[q] = costs[q], state'[q] = state[q],
             g'[q].pc = g[q].pc
      PROVE  FitsNext(q)
  BY <1>1, <1>2, <1>3, <1>4, <1>5
<1>6. ASSUME NEW q \in Run, state[q] \in Open, state'[q] \in Ending, tools'[q] = tools[q] /\ costs'[q] = costs[q],
             Said(q)' = Said(q), Len(log'[q]) <= Len(log[q]) + 2
      PROVE  FitsNext(q)
  <2>1. Began(q)' = 1 /\ Began(q) = 1 /\ Over(q) = 0 /\ Over(q)' = 2
    BY <1>6 DEF Began, Over, Open, Ending
  <2> QED  BY <1>1, <1>6, <2>1 DEF Size
<1> HIDE DEF FitsNext
<1>7. ASSUME NEW i \in Instance, NEW r \in Run, CreateQuery(i, r), NEW q \in Run  PROVE FitsNext(q)
  <2>1. CASE q # r
    <3>1. log'[q] = log[q] /\ state'[q] = state[q] /\ tools'[q] = tools[q] /\ costs'[q] = costs[q] /\ g'[q].pc = g[q].pc
      BY <1>0, <1>7, <2>1 DEF CreateQuery, To
    <3> QED  BY <1>5, <3>1
  <2>2. CASE q = r
    <3>1. log'[r] = <<"STATUS">> /\ state'[r] = "QUEUED"
      BY <1>0, <1>7 DEF CreateQuery
    <3>2. Began(q)' = 1 /\ Len(log'[q]) = 1
      BY <2>2, <3>1 DEF Began
    <3>3. tools'[q] \in Nat /\ costs'[q] \in Nat /\ Said(q)' \in 0..1 /\ Over(q)' \in {0, 2}
      BY <1>1
    <3>4. Len(log'[q]) <= Began(q)' + Said(q)' + tools'[q] + costs'[q] + Over(q)'
      BY <3>2, <3>3
    <3> QED  BY <3>4 DEF FitsNext, Size
  <2> QED  BY <2>1, <2>2
<1>8. ASSUME NEW r \in Run, Announce(r), NEW q \in Run  PROVE FitsNext(q)
  <2>1. CASE q # r
    <3>1. log'[q] = log[q] /\ state'[q] = state[q] /\ tools'[q] = tools[q] /\ costs'[q] = costs[q] /\ g'[q].pc = g[q].pc
      BY <1>0, <1>8, <2>1 DEF Announce, To
    <3> QED  BY <1>5, <3>1
  <2>2. CASE q = r
    <3>1. state'[q] = state[q] /\ tools'[q] = tools[q] /\ costs'[q] = costs[q]
      BY <1>8 DEF Announce
    <3>2. Said(q) = 0 /\ Said(q)' = 1
      BY <1>0, <1>8, <2>2 DEF Announce, Goroutine, To, Said
    <3>3. Len(log'[q]) <= Len(log[q]) + 1
      <4>1. log'[q] = log[q] \/ log'[q] = Append(log[q], "STATUS")
        BY <1>0, <1>8, <2>2 DEF Announce, Append2
      <4> QED  BY <1>0, <1>1, <4>1
    <3>4. Began(q)' = Began(q) /\ Over(q)' = Over(q)
      BY <1>3, <3>1
    <3>5. Len(log'[q]) <= Began(q) + (Said(q) + 1) + tools[q] + costs[q] + Over(q)
      <4>1. Began(q) \in Nat /\ Said(q) \in Nat /\ Over(q) \in Nat
        BY <1>1
      <4> QED  BY <1>1, <3>3, <4>1, Room
    <3> QED  BY <3>1, <3>2, <3>4, <3>5 DEF FitsNext, Size
  <2> QED  BY <2>1, <2>2
<1>9. ASSUME NEW r \in Run, RuntimeEvent(r), NEW q \in Run  PROVE FitsNext(q)
  <2>1. CASE q # r
    <3>1. log'[q] = log[q] /\ state'[q] = state[q] /\ tools'[q] = tools[q] /\ costs'[q] = costs[q] /\ g'[q].pc = g[q].pc
      BY <1>0, <1>9, <2>1 DEF RuntimeEvent, Failed
    <3> QED  BY <1>5, <3>1
  <2>2. CASE q = r
    <3>1. state'[q] = state[q] /\ tools'[q] = tools[q] + 1 /\ costs'[q] = costs[q]
      BY <1>0, <1>9, <2>2 DEF RuntimeEvent
    <3>2. Said(q) = 1 /\ Said(q)' = 1
      <4>1. g[r].pc = "stream" /\ g'[r].pc \in {"stream", "finish"}
        <5>1. g[r].pc = "stream"
          BY <1>9 DEF RuntimeEvent, Goroutine
        <5>2. CASE g' = Failed(r)
          BY <1>0, <5>1, <5>2 DEF Failed
        <5>3. CASE g' # Failed(r)
          <6>1. PICK e \in {"TOOL", "ERROR"} : g' = [g EXCEPT ![r].failed = @ \/ e = "ERROR"]
            BY <1>9, <5>3 DEF RuntimeEvent
          <6> QED  BY <1>0, <5>1, <6>1
        <5> QED  BY <5>1, <5>2, <5>3
      <4> QED  BY <2>2, <4>1 DEF Said
    <3>3. Len(log'[q]) <= Len(log[q]) + 1
      <4>1. log'[q] = log[q] \/ \E e \in {"TOOL", "ERROR"} : log'[q] = Append(log[q], e)
        BY <1>0, <1>9, <2>2 DEF RuntimeEvent, Append2
      <4> QED  BY <1>0, <1>1, <4>1
    <3>4. Began(q)' = Began(q) /\ Over(q)' = Over(q)
      BY <1>3, <3>1
    <3>5. Len(log'[q]) <= Began(q) + Said(q) + (tools[q] + 1) + costs[q] + Over(q)
      <4>1. Began(q) \in Nat /\ Said(q) \in Nat /\ Over(q) \in Nat
        BY <1>1
      <4> QED  BY <1>1, <3>3, <4>1, Room
    <3> QED  BY <3>1, <3>2, <3>4, <3>5 DEF FitsNext, Size
  <2> QED  BY <2>1, <2>2
<1>10. ASSUME NEW r \in Run, FinishRun(r), NEW q \in Run  PROVE FitsNext(q)
  <2>1. tools'[q] = tools[q] /\ costs'[q] = costs[q] /\ g' = Gone(r) /\ g[r].pc = "finish"
    BY <1>10 DEF FinishRun, Goroutine
  <2>2. Said(q)' = Said(q)
    <3>1. CASE q = r
      <4>1. g'[q].pc = "gone"
        BY <1>0, <2>1, <3>1 DEF Gone, Returned, NoGoroutine
      <4> QED  BY <2>1, <3>1, <4>1 DEF Said
    <3>2. CASE q # r
      BY <1>0, <2>1, <3>2 DEF Gone, Said
    <3> QED  BY <3>1, <3>2
  <2>3. CASE ~Finishable(r)
    <3>1. log'[q] = log[q] /\ state'[q] = state[q]
      BY <1>10, <2>3 DEF FinishRun
    <3> QED  BY <1>1, <1>2, <1>3, <2>1, <2>2, <3>1
  <2>4. CASE Finishable(r)
    <3>1. PICK valid \in BOOLEAN, late \in BOOLEAN :
             /\ state' = [state EXCEPT ![r] = FinalState(r, valid, late)]
             /\ log' = [log EXCEPT ![r] = @ \o FinalBatch(r, valid, late)]
      BY <1>10, <2>4, Zenon DEF FinishRun
    <3>2. PICK e, b : e = FinalState(r, valid, late) /\ b = FinalBatch(r, valid, late)
      OBVIOUS
    <3>3. state' = [state EXCEPT ![r] = e] /\ log' = [log EXCEPT ![r] = log[r] \o b]
      BY <3>1, <3>2
    <3>4. CASE q # r
      <4>1. log'[q] = log[q] /\ state'[q] = state[q]
        BY <1>0, <3>3, <3>4
      <4> QED  BY <1>1, <1>2, <1>3, <2>1, <2>2, <4>1
    <3>5. CASE q = r
      <4>1. e \in Ending /\ (b = <<"ANSWER_DELTA", "DONE">> \/ b = <<"ERROR", "DONE">>)
        BY <3>2, FinalIs DEF Ending
      <4>2. b \in Seq(Event) /\ Len(b) = 2
        <5>1. <<"ANSWER_DELTA", "DONE">> \in Seq(Event) /\ Len(<<"ANSWER_DELTA", "DONE">>) = 2
          BY DEF Event
        <5>2. <<"ERROR", "DONE">> \in Seq(Event) /\ Len(<<"ERROR", "DONE">>) = 2
          BY DEF Event
        <5> QED  BY <4>1, <5>1, <5>2, Zenon
      <4>3. state'[q] = e /\ log'[q] = log[q] \o b /\ log[q] \in Seq(Event)
        BY <1>0, <3>3, <3>5
      <4>4. Len(log'[q]) <= Len(log[q]) + 2
        <5>1. PICK s : s = log[q]
          OBVIOUS
        <5>2. Len(s \o b) = Len(s) + Len(b)
          BY <4>2, <4>3, <5>1, ConcatProperties
        <5>3. Len(log'[q]) = Len(log[q]) + 2
          BY <4>2, <4>3, <5>1, <5>2
        <5> QED  BY <1>1, <5>3
      <4>5. state[q] \in Open
        BY <2>4, <3>5 DEF Finishable
      <4> QED  BY <1>6, <2>1, <2>2, <4>1, <4>3, <4>4, <4>5
    <3> QED  BY <3>4, <3>5
  <2> QED  BY <2>3, <2>4
<1>11. ASSUME NEW i \in Instance, NEW r \in Run, CancelQuery(i, r), NEW q \in Run  PROVE FitsNext(q)
  <2>1. tools'[q] = tools[q] /\ costs'[q] = costs[q] /\ g'[q].pc = g[q].pc
    BY <1>0, <1>11 DEF CancelQuery
  <2>2. CASE q # r \/ state[r] \notin Open
    <3>1. log'[q] = log[q] /\ state'[q] = state[q]
      BY <1>0, <1>11, <2>2 DEF CancelQuery
    <3> QED  BY <1>5, <2>1, <3>1
  <2>3. CASE q = r /\ state[r] \in Open
    <3>1. state'[q] = "CANCELLED" /\ log'[q] = Append(log[q], "DONE")
      BY <1>0, <1>11, <2>3 DEF CancelQuery, Append2
    <3>2. Len(log'[q]) <= Len(log[q]) + 2 /\ state'[q] \in Ending
      BY <1>0, <1>1, <3>1 DEF Ending
    <3> QED  BY <1>4, <1>6, <2>1, <2>3, <3>2
  <2> QED  BY <2>2, <2>3
<1>12. ASSUME NEW i \in Instance, RecoverOwnedWork(i), NEW q \in Run  PROVE FitsNext(q)
  <2>1. tools'[q] = tools[q] /\ costs'[q] = costs[q] /\ g'[q].pc = g[q].pc
    BY <1>12 DEF RecoverOwnedWork
  <2>2. PICK S : /\ S = {r \in Run : state[r] \in Open /\ Lost(owner[r])}
                 /\ state' = [r \in Run |-> IF r \in S THEN "INTERRUPTED" ELSE state[r]]
                 /\ log' = [r \in Run |-> IF r \in S THEN log[r] \o <<"ERROR", "DONE">> ELSE log[r]]
    BY <1>12 DEF RecoverOwnedWork
  <2>3. CASE q \notin S
    <3>1. log'[q] = log[q] /\ state'[q] = state[q]
      BY <2>2, <2>3
    <3> QED  BY <1>5, <2>1, <3>1
  <2>4. CASE q \in S
    <3>1. state'[q] = "INTERRUPTED" /\ log'[q] = log[q] \o <<"ERROR", "DONE">> /\ state[q] \in Open
      BY <2>2, <2>4
    <3>2. <<"ERROR", "DONE">> \in Seq(Event) /\ Len(<<"ERROR", "DONE">>) = 2
      BY DEF Event
    <3>3. Len(log'[q]) <= Len(log[q]) + 2 /\ state'[q] \in Ending
      BY <1>0, <1>1, <3>1, <3>2, ConcatProperties DEF Ending
    <3> QED  BY <1>4, <1>6, <2>1, <3>1, <3>3
  <2> QED  BY <2>3, <2>4
<1>13. ASSUME NEW r \in Run, Start(r), NEW q \in Run  PROVE FitsNext(q)
  <2>1. log'[q] = log[q] /\ tools'[q] = tools[q] /\ costs'[q] = costs[q]
    BY <1>13 DEF Start
  <2>2. Began(q)' = Began(q) /\ Over(q)' = Over(q)
    BY <1>0, <1>13 DEF Start, Launchable, Began, Over, Ending
  <2>3. Said(q) <= Said(q)'
    <3>1. g[r].pc = "start"
      BY <1>13 DEF Start, Goroutine
    <3>2. g' = Failed(r) \/ g' = Gone(r) \/ g' = To(r, "announce")
      BY <1>13 DEF Start
    <3> QED  BY <1>4a, <3>1, <3>2
  <2> QED  BY <1>2, <2>1, <2>2, <2>3
<1>14. ASSUME NEW r \in Run, Plan(r) \/ StreamEnds(r) \/ FinishFails(r), NEW q \in Run
       PROVE  FitsNext(q)
  <2>1. log'[q] = log[q] /\ tools'[q] = tools[q] /\ costs'[q] = costs[q] /\ state'[q] = state[q]
    BY <1>14 DEF Plan, StreamEnds, FinishFails
  <2>2. Said(q) <= Said(q)'
    <3>1. g' = Failed(r) \/ g' = Gone(r) \/ g' = To(r, "stream") \/ g' = To(r, "finish")
      BY <1>14 DEF Plan, StreamEnds, FinishFails
    <3> QED  BY <1>4a, <3>1
  <2> QED  BY <1>2, <1>3, <2>1, <2>2
<1>15. ASSUME NEW r \in Run, AnswerEvent(r), NEW q \in Run  PROVE FitsNext(q)
  <2>1. log'[q] = log[q] /\ tools'[q] = tools[q] /\ costs'[q] = costs[q] /\ state'[q] = state[q] /\ g'[q].pc = g[q].pc
    <3>1. log'[q] = log[q] /\ tools'[q] = tools[q] /\ costs'[q] = costs[q] /\ state'[q] = state[q]
      BY <1>15 DEF AnswerEvent
    <3>2. g'[q].pc = g[q].pc
      BY <1>0, <1>15 DEF AnswerEvent
    <3> QED  BY <3>1, <3>2
  <2> QED  BY <1>5, <2>1
<1>16. ASSUME NEW i \in Instance, StopWork(i), NEW q \in Run  PROVE FitsNext(q)
  <2>1. log'[q] = log[q] /\ tools'[q] = tools[q] /\ costs'[q] = costs[q] /\ state'[q] = state[q] /\ g'[q].pc = g[q].pc
    BY <1>0, <1>16 DEF StopWork
  <2> QED  BY <1>5, <2>1
<1>16a. ASSUME NEW i \in Instance, Crash(i), NEW q \in Run  PROVE FitsNext(q)
  <2>1. log'[q] = log[q] /\ tools'[q] = tools[q] /\ costs'[q] = costs[q] /\ state'[q] = state[q]
    BY <1>16a DEF Crash
  <2>2. Said(q) <= Said(q)'
    <3>1. g'[q] = Returned \/ g'[q] = g[q]
      BY <1>16a DEF Crash
    <3> QED  BY <1>1, <3>1 DEF Returned, NoGoroutine, Said
  <2> QED  BY <1>2, <1>3, <2>1, <2>2
<1>16b. ASSUME NEW r \in Run, LedgerEvent(r), NEW q \in Run  PROVE FitsNext(q)
  <2>1. tools'[q] = tools[q] /\ state'[q] = state[q] /\ g'[q].pc = g[q].pc
    BY <1>16b DEF LedgerEvent
  <2>2. CASE q # r
    BY <1>0, <1>5, <1>16b, <2>1, <2>2 DEF LedgerEvent
  <2>3. CASE q = r
    <3>1. costs'[q] = costs[q] + 1 /\ log'[q] = Append(log[q], "COST")
      BY <1>0, <1>16b, <2>3 DEF LedgerEvent, Append2
    <3>2. Len(log'[q]) = Len(log[q]) + 1
      BY <1>0, <3>1
    <3>3. Began(q)' = Began(q) /\ Over(q)' = Over(q) /\ Said(q)' = Said(q)
      BY <1>3, <1>4, <2>1
    <3>4. Len(log'[q]) <= Began(q) + Said(q) + tools[q] + (costs[q] + 1) + Over(q)
      <4>1. Began(q) \in Nat /\ Said(q) \in Nat /\ Over(q) \in Nat /\ Len(log'[q]) <= Len(log[q]) + 1
        BY <1>1, <3>2
      <4> QED  BY <1>1, <4>1, Room
    <3> QED  BY <2>1, <3>1, <3>3, <3>4 DEF FitsNext, Size
  <2> QED  BY <2>2, <2>3
<1>17. ASSUME UNCHANGED <<state, log, tools, costs, g>>, NEW q \in Run  PROVE FitsNext(q)
  BY <1>5, <1>17
<1>18. ASSUME NEW r \in Run,
              \/ PassDeadline(r) \/ LoseScope(r) \/ ReserveCall(r)
              \/ ReadRun(r) \/ ReadRows(r) \/ ReadBreaks(r) \/ Reopen(r), NEW q \in Run
       PROVE  FitsNext(q)
  BY <1>17, <1>18 DEF PassDeadline, LoseScope, ReserveCall, ReadRun, ReadRows, ReadBreaks, Reopen
<1>19. ASSUME NEW i \in Instance, Expire(i) \/ Stop(i), NEW q \in Run
       PROVE  FitsNext(q)
  BY <1>17, <1>19 DEF Expire, Stop
<1>20. ASSUME UNCHANGED vars, NEW q \in Run  PROVE FitsNext(q)
  BY <1>17, <1>20 DEF vars
<1>21. ASSUME NEW q \in Run  PROVE FitsNext(q)
  BY <1>7, <1>8, <1>9, <1>10, <1>11, <1>12, <1>13, <1>14, <1>15, <1>16, <1>16a, <1>16b,
     <1>18, <1>19, <1>20
     DEF Next, Drive
<1> QED  BY <1>21 DEF FitsNext, Fits

LEMMA GivenKept == Base /\ Told /\ Fits /\ Given /\ [Next]_vars => Given'
<1> SUFFICES ASSUME Base, Told, Fits, Given, [Next]_vars  PROVE Given'
  OBVIOUS
<1> USE DEF ledger
<1> DEFINE GivenTo(q) ==
        /\ reader'[q].pc = "rows" /\ reader'[q].ended => HasDone(q)'
        /\ reader'[q].pc = "closed" /\ ~reader'[q].broken =>
              \E k \in 1..reader'[q].after : log'[q][k] = "DONE"
<1>0. /\ reader \in [Run -> Reader]
      /\ log \in [Run -> Seq(Event)] /\ \A q \in Run : reader[q].after <= Len(log[q])
      /\ tools \in [Run -> 0..MaxTool] /\ costs \in [Run -> 0..MaxCosts]
      /\ \A q \in Run : reader[q].after \in Nat
  BY DEF Base, TypeOK, Reader
<1>1. ASSUME NEW q \in Run, reader'[q] = reader[q]  PROVE GivenTo(q)
  <2>1. CASE reader[q].pc = "rows" /\ reader[q].ended
    BY <1>1, <2>1, DoneStays DEF Given
  <2>2. CASE reader[q].pc = "closed" /\ ~reader[q].broken
    <3>1. PICK k \in 1..reader[q].after : log[q][k] = "DONE"
      BY <2>2 DEF Given
    <3>2. k \in 1..Len(log[q])
      <4>1. reader[q].after \in Nat /\ Len(log[q]) \in Nat
        BY <1>0
      <4> QED  BY <1>0, <3>1, <4>1
    <3>3. log'[q][k] = "DONE"
      BY <3>1, <3>2, LogGrows
    <3> QED  BY <1>1, <2>2, <3>1, <3>3
  <2> QED  BY <1>1, <2>1, <2>2
<1>2. ASSUME UNCHANGED reader, NEW q \in Run  PROVE GivenTo(q)
  BY <1>1, <1>2
<1> HIDE DEF GivenTo
<1>3. ASSUME NEW r \in Run, ReadRun(r) \/ ReadRows(r) \/ ReadBreaks(r) \/ Reopen(r), NEW q \in Run
      PROVE  GivenTo(q)
  <2>0. UNCHANGED log
    BY <1>3, ReadStep
  <2>1. PICK x \in Reader :
           /\ reader' = [reader EXCEPT ![r] = x]
           /\ x.pc = "rows" /\ x.ended => state[r] \in Ending
           /\ x.pc = "closed" /\ ~x.broken =>
                 reader[r].pc = "rows" /\ reader[r].ended /\ x.after = NextPage(r)
    BY <1>3, ReadStep
  <2>2. CASE q # r
    <3>1. reader'[q] = reader[q]
      BY <1>0, <2>1, <2>2
    <3> QED  BY <1>1, <3>1
  <2>3. CASE q = r
    <3>1. reader'[q] = x
      BY <1>0, <2>1, <2>3
    <3>2. ASSUME x.pc = "rows", x.ended  PROVE HasDone(q)'
      BY <2>1, <2>3, <3>2, DoneStays DEF Told
    <3>3. ASSUME x.pc = "closed", ~x.broken  PROVE \E k \in 1..x.after : log'[q][k] = "DONE"
      <4>1. NextPage(r) = Len(log[r])
        <5>1. Size(r) \in Nat /\ Size(r) <= MaxTool + MaxCosts + 4
          <6>1. /\ tools[r] \in 0..MaxTool /\ MaxTool \in Nat
                /\ costs[r] \in 0..MaxCosts /\ MaxCosts \in Nat
            BY <1>0, RunAssumption
          <6>2. Began(r) \in 0..1 /\ Said(r) \in 0..1 /\ Over(r) \in {0, 2}
            BY DEF Began, Said, Over
          <6> QED  BY <6>1, <6>2 DEF Size
        <5>2. Len(log[r]) \in Nat /\ reader[r].after \in Nat /\ Len(log[r]) <= Size(r)
          BY <1>0 DEF Fits
        <5>3. PageLimit \in Nat /\ MaxTool \in Nat /\ MaxCosts \in Nat
              /\ MaxTool + MaxCosts + 4 <= PageLimit
          BY RunAssumption
        <5>4. Len(log[r]) - reader[r].after <= PageLimit
          BY <5>1, <5>2, <5>3
        <5> QED  BY <5>2, <5>3, <5>4 DEF NextPage
      <4>2. HasDone(r)
        BY <2>1, <3>3 DEF Given
      <4>3. PICK k \in DOMAIN log[r] : log[r][k] = "DONE"
        BY <4>2 DEF HasDone
      <4>4. DOMAIN log[r] = 1..Len(log[r])
        BY <1>0
      <4> QED  BY <2>0, <2>1, <2>3, <3>3, <4>1, <4>3, <4>4
    <3> QED  BY <3>1, <3>2, <3>3 DEF GivenTo
  <2> QED  BY <2>2, <2>3
<1>5. ASSUME NEW r \in Run,
             \/ Start(r) \/ Announce(r) \/ Plan(r) \/ RuntimeEvent(r) \/ AnswerEvent(r)
             \/ StreamEnds(r) \/ FinishRun(r) \/ FinishFails(r) \/ PassDeadline(r) \/ LoseScope(r)
             \/ ReserveCall(r) \/ LedgerEvent(r),
             NEW q \in Run
      PROVE  GivenTo(q)
  BY <1>2, <1>5 DEF Start, Announce, Plan, RuntimeEvent, AnswerEvent, StreamEnds, FinishRun,
                    FinishFails, PassDeadline, LoseScope, ReserveCall, LedgerEvent
<1>6. ASSUME NEW i \in Instance, NEW r \in Run, CreateQuery(i, r) \/ CancelQuery(i, r), NEW q \in Run
      PROVE  GivenTo(q)
  BY <1>2, <1>6 DEF CreateQuery, CancelQuery
<1>7. ASSUME NEW i \in Instance,
             Crash(i) \/ Expire(i) \/ StopWork(i) \/ Stop(i) \/ RecoverOwnedWork(i), NEW q \in Run
      PROVE  GivenTo(q)
  BY <1>2, <1>7 DEF Crash, Expire, StopWork, Stop, RecoverOwnedWork
<1>8. ASSUME UNCHANGED vars, NEW q \in Run  PROVE GivenTo(q)
  BY <1>2, <1>8 DEF vars
<1>9. ASSUME NEW q \in Run  PROVE GivenTo(q)
  BY <1>3, <1>5, <1>6, <1>7, <1>8 DEF Next, Drive
<1> QED  BY <1>9 DEF GivenTo, Given

\* A stream that closes unbroken has delivered DONE: the state was read before
\* the rows, nothing is ever taken from the log, and one page holds every log,
\* with whatever the ledger added to it.
THEOREM StreamsEndWithDone == Spec => []StreamEndsWithDone
<1>1. Init => Told /\ Fits /\ Given
  <2> SUFFICES ASSUME Init  PROVE Told /\ Fits /\ Given
    OBVIOUS
  <2>1. Told
    BY DEF Init, Told, Ending
  <2>2. Given
    BY DEF Init, Given, NewReader
  <2>3. ASSUME NEW r \in Run  PROVE Len(log[r]) <= Size(r)
    <3>1. log[r] = <<>> /\ tools[r] = 0 /\ costs[r] = 0
      BY DEF Init
    <3>2. Began(r) \in 0..1 /\ Said(r) \in 0..1 /\ Over(r) \in {0, 2}
      BY DEF Began, Said, Over
    <3> QED  BY <3>1, <3>2 DEF Size
  <2> QED  BY <2>1, <2>2, <2>3 DEF Fits
<1>2. Given => StreamEndsWithDone
  BY DEF Given, StreamEndsWithDone
<1> QED  BY <1>1, <1>2, ToldKept, FitsKept, GivenKept, Typed, PTL DEF Spec

-----------------------------------------------------------------------------
(* RunLifecycle implements RunOutcome *)

\* The number of events e in a sequence.
Occurs(s, e) == Cardinality({k \in DOMAIN s : s[k] = e})

LEMMA OccursAppend ==
    ASSUME NEW s \in Seq(Event), NEW x \in Event, NEW e
    PROVE  /\ Occurs(s, e) \in Nat
           /\ Occurs(Append(s, x), e) = IF x = e THEN Occurs(s, e) + 1 ELSE Occurs(s, e)
<1>1. PICK t, S, T : /\ t = Append(s, x) /\ S = {k \in DOMAIN s : s[k] = e}
                     /\ T = {k \in DOMAIN t : t[k] = e}
  OBVIOUS
<1>2. /\ Len(s) \in Nat /\ DOMAIN s = 1..Len(s) /\ DOMAIN t = 1..(Len(s) + 1)
      /\ t[Len(s) + 1] = x /\ \A k \in 1..Len(s) : t[k] = s[k]
  BY <1>1
<1>3. IsFiniteSet(S) /\ Cardinality(S) \in Nat /\ Len(s) + 1 \notin S
  <2>1. IsFiniteSet(1..Len(s))
    BY <1>2, FS_Interval
  <2>2. S \in SUBSET (1..Len(s))
    BY <1>1, <1>2
  <2>3. IsFiniteSet(S)
    BY <2>1, <2>2, FS_Subset
  <2> QED  BY <1>2, <2>2, <2>3, FS_CardinalityType
<1>4. CASE x = e
  <2>1. T = S \cup {Len(s) + 1}
    BY <1>1, <1>2, <1>4
  <2>2. Cardinality(T) = Cardinality(S) + 1
    BY <1>3, <2>1, FS_AddElement
  <2> QED  BY <1>1, <1>3, <1>4, <2>2 DEF Occurs
<1>5. CASE x # e
  <2>1. T = S
    BY <1>1, <1>2, <1>5
  <2> QED  BY <1>1, <1>3, <1>5, <2>1 DEF Occurs
<1> QED  BY <1>4, <1>5

LEMMA OccursTwo ==
    ASSUME NEW s \in Seq(Event), NEW x \in Event, NEW y \in Event, NEW e
    PROVE  Occurs(s \o <<x, y>>, e)
              = Occurs(s, e) + (IF x = e THEN 1 ELSE 0) + (IF y = e THEN 1 ELSE 0)
<1>1. PICK t : t = Append(s, x)
  OBVIOUS
<1>2. t \in Seq(Event) /\ s \o <<x, y>> = Append(t, y)
  BY <1>1
<1>3. Occurs(s, e) \in Nat /\ Occurs(t, e) = Occurs(s, e) + (IF x = e THEN 1 ELSE 0)
  <2>1. Occurs(s, e) \in Nat /\ Occurs(t, e) = IF x = e THEN Occurs(s, e) + 1 ELSE Occurs(s, e)
    BY <1>1, OccursAppend
  <2> QED  BY <2>1
<1>4. Occurs(Append(t, y), e) = IF y = e THEN Occurs(t, e) + 1 ELSE Occurs(t, e)
  BY <1>2, OccursAppend
<1>5. Occurs(s \o <<x, y>>, e) = Occurs(Append(t, y), e)
  BY <1>2, Zenon
<1>6. PICK a, b, c : a = Occurs(s, e) /\ b = Occurs(t, e) /\ c = Occurs(s \o <<x, y>>, e)
  OBVIOUS
<1>7. a \in Nat /\ b = a + (IF x = e THEN 1 ELSE 0) /\ c = IF y = e THEN b + 1 ELSE b
  BY <1>3, <1>4, <1>5, <1>6
<1>8. c = a + (IF x = e THEN 1 ELSE 0) + (IF y = e THEN 1 ELSE 0)
  BY <1>7
<1> QED  BY <1>6, <1>8

\* RunOutcome's view of a run.
Phase(r) == IF state[r] = "NONE" THEN "absent" ELSE IF state[r] \in Open THEN "open" ELSE state[r]

LEMMA CountIs ==
    ASSUME NEW r, NEW e
    PROVE  Count(r, e) = Occurs(log[r], e) /\ Count(r, e)' = Occurs(log'[r], e)
BY DEF Count, Occurs

LEMMA KeepsView ==
    ASSUME Base, NEW r \in Run, Quiet(r) \/ Progress(r)
    PROVE  /\ Phase(r)' = Phase(r)
           /\ Count(r, "DONE")' = Count(r, "DONE")
           /\ Count(r, "ANSWER_DELTA")' = Count(r, "ANSWER_DELTA")
<1>1. Phase(r)' = Phase(r)
  BY DEF Phase, Quiet, Progress, Open
<1>2. CASE Quiet(r)
  BY <1>1, <1>2 DEF Count, Quiet
<1>3. CASE Progress(r)
  <2>1. PICK s, t : s = log[r] /\ t = log'[r]
    OBVIOUS
  <2>2. PICK x \in {"STATUS", "TOOL", "ERROR", "COST"} : t = Append(s, x)
    BY <1>3, <2>1 DEF Progress
  <2>3. s \in Seq(Event) /\ x \in Event
    BY <2>1 DEF Base, TypeOK, Event
  <2>4. ASSUME NEW e \in {"DONE", "ANSWER_DELTA"}  PROVE Occurs(t, e) = Occurs(s, e)
    BY <2>2, <2>3, OccursAppend
  <2>5. Occurs(t, "DONE") = Occurs(s, "DONE") /\ Occurs(t, "ANSWER_DELTA") = Occurs(s, "ANSWER_DELTA")
    BY <2>4
  <2> QED  BY <1>1, <2>1, <2>5, CountIs
<1> QED  BY <1>2, <1>3

LEMMA EndsView ==
    ASSUME Base, NEW r \in Run, NEW e \in Ending, Ended(r, e)
    PROVE  /\ Phase(r) = "open" /\ Phase(r)' = e
           /\ Count(r, "DONE")' = Count(r, "DONE") + 1
           /\ Count(r, "ANSWER_DELTA")' =
                 IF e = "COMPLETED" THEN Count(r, "ANSWER_DELTA") + 1 ELSE Count(r, "ANSWER_DELTA")
<1>1. Phase(r) = "open" /\ Phase(r)' = e
  BY DEF Phase, Ended, Open, Ending
<1>2. PICK s, t : s = log[r] /\ t = log'[r]
  OBVIOUS
<1>3. s \in Seq(Event) /\ {"DONE", "ERROR", "ANSWER_DELTA"} \subseteq Event
  BY <1>2 DEF Base, TypeOK, Event
<1>4. Occurs(s, "DONE") \in Nat /\ Occurs(s, "ANSWER_DELTA") \in Nat
  BY <1>3, OccursAppend
<1>5. CASE t = Append(s, "DONE") /\ e # "COMPLETED"
  <2>1. /\ Occurs(t, "DONE") = Occurs(s, "DONE") + 1
        /\ Occurs(t, "ANSWER_DELTA") = Occurs(s, "ANSWER_DELTA")
    BY <1>3, <1>5, OccursAppend
  <2> QED  BY <1>1, <1>2, <1>5, <2>1, CountIs
<1>6. CASE t = s \o <<"ERROR", "DONE">> /\ e # "COMPLETED"
  <2>1. /\ Occurs(t, "DONE") = Occurs(s, "DONE") + 1
        /\ Occurs(t, "ANSWER_DELTA") = Occurs(s, "ANSWER_DELTA")
    BY <1>3, <1>4, <1>6, OccursTwo
  <2> QED  BY <1>1, <1>2, <1>6, <2>1, CountIs
<1>7. CASE t = s \o <<"ANSWER_DELTA", "DONE">> /\ e = "COMPLETED"
  <2>1. /\ Occurs(t, "DONE") = Occurs(s, "DONE") + 1
        /\ Occurs(t, "ANSWER_DELTA") = Occurs(s, "ANSWER_DELTA") + 1
    BY <1>3, <1>4, <1>7, OccursTwo
  <2> QED  BY <1>1, <1>2, <1>7, <2>1, CountIs
<1> QED  BY <1>2, <1>5, <1>6, <1>7 DEF Ended

LEMMA SubmitsView ==
    ASSUME Base, NEW r \in Run, Submitted(r)
    PROVE  /\ Phase(r) = "absent" /\ Phase(r)' = "open"
           /\ Count(r, "DONE")' = Count(r, "DONE")
           /\ Count(r, "ANSWER_DELTA")' = Count(r, "ANSWER_DELTA")
<1>1. Phase(r) = "absent" /\ Phase(r)' = "open"
  BY DEF Phase, Submitted, Open
<1>2. PICK s, t : s = log[r] /\ t = log'[r]
  OBVIOUS
<1>3. s \in Seq(Event) /\ t = Append(s, "STATUS") /\ "STATUS" \in Event
  BY <1>2 DEF Base, TypeOK, Submitted, Event
<1>4. Occurs(t, "DONE") = Occurs(s, "DONE") /\ Occurs(t, "ANSWER_DELTA") = Occurs(s, "ANSWER_DELTA")
  BY <1>3, OccursAppend
<1> QED  BY <1>1, <1>2, <1>4, CountIs

LEMMA OutcomeInit == Init => Outcome!Init
<1> SUFFICES ASSUME Init  PROVE Outcome!Init
  OBVIOUS
<1>1. ASSUME NEW r \in Run, NEW e  PROVE Count(r, e) = 0
  <2>1. {k \in DOMAIN log[r] : log[r][k] = e} = {}
    BY DEF Init
  <2> QED  BY <2>1, FS_EmptySet DEF Count
<1>2. \A r \in Run : state[r] = "NONE"
  BY DEF Init
<1> QED  BY <1>1, <1>2 DEF Outcome!Init

LEMMA OutcomeStep == Base /\ [Next]_vars => [Outcome!Next]_(Outcome!vars)
<1> SUFFICES ASSUME Base, [Next]_vars  PROVE [Outcome!Next]_(Outcome!vars)
  OBVIOUS
<1> DEFINE phase == [r \in Run |-> IF state[r] = "NONE" THEN "absent"
                                  ELSE IF state[r] \in Open THEN "open" ELSE state[r]]
           dones == [r \in Run |-> Count(r, "DONE")]
           answers == [r \in Run |-> Count(r, "ANSWER_DELTA")]
<1>0. /\ \A r \in Run : phase[r] = Phase(r) /\ phase'[r] = Phase(r)'
      /\ \A r \in Run : dones[r] = Count(r, "DONE") /\ dones'[r] = Count(r, "DONE")'
      /\ \A r \in Run : answers[r] = Count(r, "ANSWER_DELTA")
                         /\ answers'[r] = Count(r, "ANSWER_DELTA")'
      /\ phase = [r \in Run |-> phase[r]] /\ phase' = [r \in Run |-> phase'[r]]
      /\ dones = [r \in Run |-> dones[r]] /\ dones' = [r \in Run |-> dones'[r]]
      /\ answers = [r \in Run |-> answers[r]] /\ answers' = [r \in Run |-> answers'[r]]
  BY DEF Phase
<1>1. Shape
  BY StepShape
<1>2. CASE \A r \in Run : Quiet(r) \/ Progress(r)
  <2>1. ASSUME NEW r \in Run
        PROVE  phase'[r] = phase[r] /\ dones'[r] = dones[r] /\ answers'[r] = answers[r]
    BY <1>0, <1>2, KeepsView
  <2>2. phase' = phase /\ dones' = dones /\ answers' = answers
    <3> HIDE DEF phase, dones, answers
    <3> QED  BY <1>0, <2>1
  <2> QED  BY <2>2 DEF Outcome!vars
<1>3. ASSUME NEW r \in Run, Submitted(r), \A q \in Run \ {r} : Quiet(q)
      PROVE  Outcome!Next
  <2>1. ASSUME NEW q \in Run
        PROVE  /\ phase'[q] = IF q = r THEN "open" ELSE phase[q]
               /\ dones'[q] = dones[q] /\ answers'[q] = answers[q]
    <3>1. CASE q = r
      BY <1>0, <1>3, <3>1, SubmitsView
    <3>2. CASE q # r
      BY <1>0, <1>3, <3>2, KeepsView
    <3> QED  BY <3>1, <3>2
  <2>2. phase[r] = "absent"
    BY <1>0, <1>3, SubmitsView
  <2>3. phase' = [phase EXCEPT ![r] = "open"] /\ dones' = dones /\ answers' = answers
    <3> HIDE DEF phase, dones, answers
    <3> QED  BY <1>0, <2>1
  <2>4. Outcome!Submit(r)
    BY <2>2, <2>3 DEF Outcome!Submit
  <2> QED  BY <2>4 DEF Outcome!Next
<1>4. ASSUME NEW e \in Ending, NEW S \in SUBSET Run, S # {}, \A r \in S : Ended(r, e),
             \A r \in Run \ S : Quiet(r)
      PROVE  Outcome!Next
  <2>1. ASSUME NEW r \in Run
        PROVE  /\ r \in S => phase[r] = "open"
               /\ phase'[r] = IF r \in S THEN e ELSE phase[r]
               /\ dones'[r] = IF r \in S THEN dones[r] + 1 ELSE dones[r]
               /\ answers'[r] = IF r \in S /\ e = "COMPLETED" THEN answers[r] + 1 ELSE answers[r]
    <3>1. CASE r \in S
      BY <1>0, <1>4, <3>1, EndsView
    <3>2. CASE r \notin S
      BY <1>0, <1>4, <3>2, KeepsView
    <3> QED  BY <3>1, <3>2
  <2>2. /\ phase' = [r \in Run |-> IF r \in S THEN e ELSE phase[r]]
        /\ dones' = [r \in Run |-> IF r \in S THEN dones[r] + 1 ELSE dones[r]]
        /\ answers' = [r \in Run |-> IF r \in S /\ e = "COMPLETED" THEN answers[r] + 1 ELSE answers[r]]
    <3> HIDE DEF phase, dones, answers
    <3> QED  BY <1>0, <2>1
  <2>3. Outcome!End(S, e)
    BY <1>4, <2>1, <2>2 DEF Outcome!End
  <2> QED  BY <1>4, <2>3 DEF Outcome!Next
<1> QED  BY <1>1, <1>2, <1>3, <1>4 DEF Shape, OneEnding

\* RunLifecycle keeps the promise of RunOutcome for any number of runs and
\* instances: one ending, one DONE with it, an answer exactly if COMPLETED.
THEOREM ImplementsOutcome == Spec => ImplementsRunOutcome
BY OutcomeInit, OutcomeStep, Typed, PTL DEF ImplementsRunOutcome, Spec, Outcome!Spec

=============================================================================
