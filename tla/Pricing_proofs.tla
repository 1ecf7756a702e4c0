--------------------------- MODULE Pricing_proofs ---------------------------
(***************************************************************************)
(* Proofs about Pricing, for any sizes of requests, any counts of tokens   *)
(* and calls of any length that start at any half hour from a Monday on.   *)
(* Everything rests on one fact about the calendar: m3PriceWindow's next   *)
(* transition is the first instant at which the tariff changes.            *)
(***************************************************************************)
EXTENDS Pricing, TLAPS

-----------------------------------------------------------------------------
(* The calendar *)

LEMMA Calendar ==
    ASSUME NEW t \in Nat
    PROVE  /\ t \div 48 \in Nat /\ HalfHour(t) \in 0..47 /\ Day(t) \in 0..6
           /\ t = 48 * (t \div 48) + HalfHour(t)
BY SMTT(30) DEF HalfHour, Day

\* An instant is determined by its day and its half hour.
LEMMA SameDay ==
    ASSUME NEW d \in Nat, NEW t \in Nat, 48 * d <= t, t < 48 * (d + 1)
    PROVE  t \div 48 = d /\ HalfHour(t) = t - 48 * d
BY SMTT(30) DEF HalfHour

LEMMA WindowEndIs ==
    ASSUME NEW t \in Nat, HalfHour(t) < 36
    PROVE  WindowEnd(t) = IF HalfHour(t) < 18 THEN 18
                          ELSE IF HalfHour(t) < 24 THEN 24
                          ELSE IF HalfHour(t) < 28 THEN 28 ELSE 36
<1>1. HalfHour(t) \in 0..35  BY Calendar
<1> DEFINE IsEnd(e) == /\ HalfHour(t) < e
                       /\ \A d \in WindowEnds : HalfHour(t) < d => e <= d
           end == IF HalfHour(t) < 18 THEN 18
                  ELSE IF HalfHour(t) < 24 THEN 24
                  ELSE IF HalfHour(t) < 28 THEN 28 ELSE 36
<1>2. end \in WindowEnds /\ IsEnd(end)  BY <1>1 DEF WindowEnds
<1>3. \A e \in WindowEnds : IsEnd(e) => e = end  BY <1>1, <1>2 DEF WindowEnds
<1>4. WindowEnd(t) = CHOOSE e \in WindowEnds : IsEnd(e)  BY DEF WindowEnd
<1>5. (CHOOSE e \in WindowEnds : IsEnd(e)) \in WindowEnds
      /\ IsEnd(CHOOSE e \in WindowEnds : IsEnd(e))
  <2> HIDE DEF IsEnd, end
  <2> QED  BY <1>2
<1> QED  BY <1>3, <1>4, <1>5

\* Go and the runtime have the same factor at every instant.
LEMMA OneTariff ==
    ASSUME NEW t \in Nat
    PROVE  WindowFactor(t) = Factor(t)
<1>1. HalfHour(t) \in 0..47 /\ Day(t) \in 0..6  BY Calendar
<1>2. CASE InDay(t)
  <2>1. Day(t) < 5 /\ HalfHour(t) < 36  BY <1>2 DEF InDay
  <2> QED  BY <1>1, <1>2, <2>1, WindowEndIs DEF WindowFactor, Factor, Peak
<1>3. CASE ~InDay(t)
  BY <1>1, <1>3 DEF WindowFactor, Factor, Peak, InDay
<1> QED  BY <1>2, <1>3

\* Before the next transition the tariff is the one at s.
LEMMA NoEarlierChange ==
    ASSUME NEW s \in Nat, NEW t \in Nat, s <= t, t < NextTransition(s)
    PROVE  Factor(t) = Factor(s)
<1> DEFINE d == s \div 48
<1>1. d \in Nat /\ HalfHour(s) \in 0..47 /\ Day(s) = d % 7 /\ s = 48 * d + HalfHour(s)
  BY Calendar DEF Day
<1>2. CASE InDay(s)
  <2>1. t < 48 * d + WindowEnd(s)  BY <1>2 DEF NextTransition
  <2>2. HalfHour(s) < 36 /\ WindowEnd(s) \in {18, 24, 28, 36}
    BY <1>1, <1>2, WindowEndIs DEF InDay
  <2>3. t \div 48 = d /\ HalfHour(t) = t - 48 * d
    BY <1>1, <2>1, <2>2, SameDay
  <2>4. Day(t) = Day(s)  BY <2>3 DEF Day
  <2>5. HalfHour(t) \in HalfHour(s)..(WindowEnd(s) - 1)
    BY <1>1, <2>1, <2>2, <2>3
  <2>6. Peak(t) = Peak(s)
    <3>1. HalfHour(t) \in 18..23 \/ HalfHour(t) \in 28..35
            <=> HalfHour(s) \in 18..23 \/ HalfHour(s) \in 28..35
      BY <1>1, <2>2, <2>5, WindowEndIs
    <3> QED  BY <2>4, <3>1 DEF Peak
  <2> QED  BY <2>6 DEF Factor
<1>3. CASE ~InDay(s)
  <2>1. t < 48 * (d + DaysAhead(s)) + 18  BY <1>3 DEF NextTransition
  <2>2. ~Peak(s)  BY <1>1, <1>3 DEF InDay, Peak
  <2>3. ~Peak(t)
    <3> DEFINE e == t \div 48
    <3>1. e \in Nat /\ HalfHour(t) \in 0..47 /\ Day(t) = e % 7 /\ t = 48 * e + HalfHour(t)
      BY Calendar DEF Day
    <3>2. DaysAhead(s) \in 1..3  BY DEF DaysAhead
    <3>3. d <= e /\ e <= d + DaysAhead(s)
      BY <1>1, <2>1, <3>1, <3>2
    <3>4. CASE e = d + DaysAhead(s)
      BY <2>1, <3>1, <3>2, <3>4 DEF Peak
    <3>5. CASE e = d
      <4>1. HalfHour(s) <= HalfHour(t)  BY <1>1, <3>1, <3>5
      <4> QED  BY <1>1, <1>3, <3>1, <3>5, <4>1 DEF Peak, InDay
    <3>6. CASE d < e /\ e < d + DaysAhead(s)
      <4>1. \/ d % 7 = 4 /\ DaysAhead(s) = 3
            \/ d % 7 = 5 /\ DaysAhead(s) = 2
        BY <1>1, <3>1, <3>6 DEF DaysAhead
      <4>2. e % 7 \in {5, 6}  BY <1>1, <3>1, <3>6, <4>1
      <4> QED  BY <3>1, <4>2 DEF Peak
    <3> QED  BY <1>1, <3>1, <3>2, <3>3, <3>4, <3>5, <3>6
  <2> QED  BY <2>2, <2>3 DEF Factor
<1> QED  BY <1>2, <1>3

\* At the next transition the tariff changes.
LEMMA ChangesThere ==
    ASSUME NEW s \in Nat
    PROVE  /\ NextTransition(s) \in Nat /\ s < NextTransition(s)
           /\ Peak(NextTransition(s)) # Peak(s)
<1> DEFINE d == s \div 48
           n == NextTransition(s)
<1>1. d \in Nat /\ HalfHour(s) \in 0..47 /\ Day(s) = d % 7 /\ s = 48 * d + HalfHour(s)
  BY Calendar DEF Day
<1>2. CASE InDay(s)
  <2>1. n = 48 * d + WindowEnd(s)  BY <1>2 DEF NextTransition
  <2>2. HalfHour(s) < 36  BY <1>2 DEF InDay
  <2>3. WindowEnd(s) = IF HalfHour(s) < 18 THEN 18
                       ELSE IF HalfHour(s) < 24 THEN 24
                       ELSE IF HalfHour(s) < 28 THEN 28 ELSE 36
    BY <2>2, WindowEndIs
  <2>4. n \in Nat /\ s < n /\ 48 * d <= n /\ n < 48 * (d + 1)
    BY <1>1, <2>1, <2>2, <2>3
  <2>5. n \div 48 = d /\ HalfHour(n) = WindowEnd(s)
    <3> HIDE DEF d, n
    <3>1. n \div 48 = d /\ HalfHour(n) = n - 48 * d  BY <1>1, <2>4, SameDay
    <3>2. WindowEnd(s) \in Nat  BY <2>3
    <3> QED  BY <1>1, <2>1, <3>1, <3>2
  <2>6. Day(n) = Day(s)  BY <2>5 DEF Day
  <2>7. Day(s) < 5  BY <1>2 DEF InDay
  <2>8. Peak(n) # Peak(s)
    <3>1. Peak(n) <=> HalfHour(n) \in 18..23 \/ HalfHour(n) \in 28..35
      BY <2>6, <2>7 DEF Peak
    <3>2. Peak(s) <=> HalfHour(s) \in 18..23 \/ HalfHour(s) \in 28..35
      BY <2>7 DEF Peak
    <3>3. ~((HalfHour(n) \in 18..23 \/ HalfHour(n) \in 28..35)
              <=> (HalfHour(s) \in 18..23 \/ HalfHour(s) \in 28..35))
      BY <1>1, <2>2, <2>3, <2>5
    <3>4. Peak(n) \in BOOLEAN /\ Peak(s) \in BOOLEAN  BY DEF Peak
    <3> QED  BY <3>1, <3>2, <3>3, <3>4
  <2> QED  BY <2>4, <2>8
<1>3. CASE ~InDay(s)
  <2> DEFINE e == d + DaysAhead(s)
  <2>1. n = 48 * e + 18  BY <1>3 DEF NextTransition
  <2>2. ~Peak(s)  BY <1>1, <1>3 DEF InDay, Peak
  <2>3. DaysAhead(s) \in 1..3 /\ e \in Nat  BY <1>1 DEF DaysAhead
  <2>4. e % 7 < 5
    <3>1. CASE d % 7 = 4  BY <1>1, <3>1 DEF DaysAhead
    <3>2. CASE d % 7 = 5  BY <1>1, <3>2 DEF DaysAhead
    <3>3. CASE d % 7 \notin {4, 5}  BY <1>1, <3>3 DEF DaysAhead
    <3> QED  BY <3>1, <3>2, <3>3
  <2>5. n \in Nat /\ s < n /\ 48 * e <= n /\ n < 48 * (e + 1)
    BY <1>1, <2>1, <2>3
  <2>6. n \div 48 = e /\ HalfHour(n) = 18
    <3> HIDE DEF d, e, n
    <3>1. n \div 48 = e /\ HalfHour(n) = n - 48 * e  BY <2>3, <2>5, SameDay
    <3> QED  BY <2>1, <2>3, <3>1
  <2>7. Peak(n)  BY <2>4, <2>6 DEF Peak, Day
  <2> QED  BY <2>2, <2>5, <2>7
<1> QED  BY <1>2, <1>3

-----------------------------------------------------------------------------
(* Usage and cost *)

LEMMA CostIsNumber ==
    ASSUME NEW u \in Usage, NEW s, NEW f
    PROVE  EstimateCost(u, s, f) \in Nat \cup {None}
<1>1. SUFFICES ASSUME Estimable(u, s, f)
               PROVE  Charge(Factor(s), Miss(u), Hit(u), u.output) \in Nat
  BY DEF EstimateCost
<1>2. Miss(u) \in Nat /\ Hit(u) \in Nat /\ u.output \in Nat
  BY <1>1 DEF Estimable, Known
<1>3. Factor(s) \in {1, 2}
  BY DEF Factor
<1> QED  BY <1>2, <1>3 DEF Charge

\* A verified amount is the cost at the tariff of every instant of the call.
LEMMA VerifiedAtAnyInstant ==
    ASSUME NEW u \in Usage, NEW l, NEW a, NEW s \in Nat, NEW f \in Nat,
           Verified(u, l, s, f, a), NEW t \in s..f
    PROVE  a = Charge(Factor(t), u.miss, u.hit, u.output)
<1>1. t \in Nat /\ s <= t /\ t < NextTransition(s)
  BY ChangesThere DEF Verified, OneWindow
<1>2. Factor(t) = WindowFactor(s)
  BY <1>1, NoEarlierChange, OneTariff
<1> QED  BY <1>2 DEF Verified

\* A verified amount above the bound needs more input than the bound allows.
LEMMA VerifiedOverrun ==
    ASSUME NEW u \in Usage, NEW b \in Nat, NEW l \in Nat, NEW s, NEW f, NEW a,
           Verified(u, l, s, f, a), a > ColdUpper(b, l)
    PROVE  u.prompt > 2 * b + 4096
<1>1. \A k \in {"prompt", "hit", "miss", "output", "total"} : u[k] \in Nat
  BY DEF Verified, ReadUsage, Known, Counts
<1>2. u.output <= l /\ u.hit <= u.prompt /\ u.prompt - u.hit = u.miss
  BY DEF Verified, ReadUsage
<1>3. 100 * u.miss + 2 * u.hit + 400 * u.output <= 100 * u.prompt + 400 * l
  BY <1>1, <1>2
<1>4. WindowFactor(s) \in {1, 2}
  BY DEF WindowFactor
<1>5. a \in Int /\ a <= 200 * u.prompt + 800 * l
  BY <1>1, <1>3, <1>4 DEF Verified, Charge
<1> QED  BY <1>1, <1>5 DEF ColdUpper

\* What DetailsAgree says of any usage.
Agrees(u) ==
    /\ u.cached # Absent => u.cached = u.hit
    /\ u.reasoning # Absent => Known(u.reasoning) /\ u.reasoning <= u.output

\* The runtime's checks of the details come to this when the counts are full.
LEMMA ConsistentIsAgreed ==
    ASSUME NEW u \in Usage, \A k \in Counts : Known(u[k]),
           u.hit + u.miss = u.prompt, u.prompt + u.output = u.total
    PROVE  /\ Prompt(u) = u.prompt /\ Hit(u) = u.hit /\ Miss(u) = u.miss
           /\ Consistent(u) <=> Agrees(u)
<1>1. \A k \in {"prompt", "hit", "miss", "output", "total"} : u[k] \in Nat /\ Known(u[k])
  BY DEF Counts, Known
<1>2. Given(u) = u.hit
  BY <1>1 DEF Given
<1>3. Prompt(u) = u.prompt /\ Hit(u) = u.hit /\ Miss(u) = u.miss
  BY <1>1, <1>2 DEF Prompt, Hit, Miss, Filled
<1>4. /\ u.cached \in Nat \cup {Absent, Malformed}
      /\ u.reasoning \in Nat \cup {Absent, Malformed}
      /\ DOMAIN u = {"prompt", "hit", "miss", "output", "total", "cached", "reasoning"}
  BY DEF Usage, Field
<1>5. ASSUME Consistent(u)  PROVE Agrees(u)
  <2>1. u.cached # Malformed /\ u.reasoning # Malformed
    BY <1>4, <1>5 DEF Consistent
  <2>2. u.cached # Absent => Known(u.cached)
    BY <1>4, <2>1 DEF Known
  <2>3. u.reasoning # Absent => Known(u.reasoning)
    BY <1>4, <2>1 DEF Known
  <2> QED  BY <1>1, <1>2, <1>5, <2>2, <2>3 DEF Consistent, Agrees
<1>6. ASSUME Agrees(u)  PROVE Consistent(u)
  <2>1. u.cached # Malformed /\ u.reasoning # Malformed
    BY <1>1, <1>6, PricingAssumption DEF Agrees, Known
  <2>2. \A k \in DOMAIN u : u[k] # Malformed
    BY <1>1, <1>4, <2>1, PricingAssumption
  <2>3. Known(u.cached) => u.cached = u.hit
    BY <1>6, PricingAssumption DEF Agrees, Known
  <2>4. Known(u.reasoning) => u.reasoning <= u.output
    BY <1>6, PricingAssumption DEF Agrees, Known
  <2> QED  BY <1>1, <1>2, <1>3, <2>2, <2>3, <2>4 DEF Consistent
<1> QED  BY <1>3, <1>5, <1>6

\* Full usage within one window is estimated if the details agree, and only
\* then; the estimate is verified.
LEMMA EstimateIsVerified ==
    ASSUME NEW u \in Usage, NEW l, NEW s \in Nat, NEW f \in Nat, s <= f,
           \A k \in Counts : Known(u[k]),
           u.hit + u.miss = u.prompt, u.prompt + u.output = u.total, u.output <= l,
           \A t \in s..f : Peak(t) = Peak(s)
    PROVE  /\ EstimateCost(u, s, f) # None <=> Agrees(u)
           /\ Agrees(u) => Verified(u, l, s, f, EstimateCost(u, s, f))
<1>1. \A k \in {"prompt", "hit", "miss", "output", "total"} : u[k] \in Nat /\ Known(u[k])
  BY DEF Counts, Known
<1>2. Prompt(u) = u.prompt /\ Hit(u) = u.hit /\ Miss(u) = u.miss
  BY ConsistentIsAgreed
<1>3. Consistent(u) <=> Agrees(u)
  BY ConsistentIsAgreed
<1>4. Factor(f) = Factor(s)
  BY DEF Factor
<1>5. Estimable(u, s, f) <=> Agrees(u)
  BY <1>1, <1>2, <1>3, <1>4 DEF Estimable
<1>6. EstimateCost(u, s, f) = IF Agrees(u) THEN Charge(Factor(s), u.miss, u.hit, u.output) ELSE None
  BY <1>2, <1>5 DEF EstimateCost
<1>7. OneWindow(s, f)
  <2>1. SUFFICES ASSUME ~(f < NextTransition(s))  PROVE FALSE
    BY DEF OneWindow
  <2>2. NextTransition(s) \in s..f
    BY <2>1, ChangesThere
  <2> QED  BY <2>2, ChangesThere
<1>8. ReadUsage(u, l)
  BY <1>1 DEF ReadUsage, Counts
<1>9. Agrees(u) => Verified(u, l, s, f, EstimateCost(u, s, f))
  BY <1>6, <1>7, <1>8, OneTariff DEF Verified
<1>10. Charge(Factor(s), u.miss, u.hit, u.output) # None
  BY <1>1 DEF None, Charge, Factor
<1> QED  BY <1>6, <1>9, <1>10

-----------------------------------------------------------------------------
(* The call *)

\* What is settled has been accepted as estimated, and whatever is estimated
\* and accepted has been settled.
Decided ==
    /\ pc # "done" => state # "SETTLED" /\ amount = None
    /\ pc = "sent" => state = "RESERVED"
    /\ pc \in {"answered", "done"} => estimate = EstimateCost(usage, started, finished)
    /\ state = "SETTLED" => Accepted /\ amount = estimate
    /\ pc = "done" /\ Accepted => state = "SETTLED"

IInv == TypeOK /\ Decided

LEMMA InitInvariant == Init => IInv
<1> SUFFICES ASSUME Init  PROVE IInv
  OBVIOUS
<1>1. NoUsage \in Usage
  BY DEF NoUsage, Usage, Field
<1>2. now \in Nat
  BY PricingAssumption DEF Init
<1>3. TypeOK
  <2>1. halted \in BOOLEAN /\ usage \in Usage
    BY <1>1, Zenon DEF Init
  <2>2. started = now /\ finished = now /\ bytes = 0 /\ limit = 0
    BY DEF Init
  <2>3. pc = "idle" /\ state = "none" /\ estimate = None /\ amount = None
    BY DEF Init
  <2> QED  BY <1>2, <2>1, <2>2, <2>3 DEF TypeOK
<1>4. Decided
  BY DEF Init, Decided
<1> QED  BY <1>3, <1>4 DEF IInv

LEMMA NextInvariant == IInv /\ [Next]_vars => IInv'
<1> SUFFICES ASSUME IInv, [Next]_vars  PROVE IInv'
  OBVIOUS
<1>1. CASE Tick
  BY <1>1 DEF Tick, IInv, TypeOK, Decided
<1>2. CASE ReserveCall
  BY <1>2, PricingAssumption DEF ReserveCall, IInv, TypeOK, Decided
<1>3. CASE Respond
  <2>1. PICK u \in Usage : usage' = u /\ estimate' = EstimateCost(u, started, now)
    BY <1>3, ReportsAssumption DEF Respond
  <2>2. estimate' \in Nat \cup {None}
    BY <2>1, CostIsNumber
  <2>3. /\ pc = "sent" /\ pc' = "answered" /\ finished' = now
        /\ UNCHANGED <<now, started, bytes, limit, state, amount, halted>>
    BY <1>3 DEF Respond
  <2>4. state = "RESERVED" /\ amount = None
    BY <2>3 DEF IInv, Decided
  <2>5. TypeOK'
    BY <2>1, <2>2, <2>3, <2>4 DEF IInv, TypeOK
  <2>6. Decided'
    BY <2>1, <2>3, <2>4 DEF Decided
  <2> QED  BY <2>5, <2>6 DEF IInv
<1>4. CASE SettleCall
  <2>1. TypeOK'
    <3>1. halted' \in BOOLEAN
      <4>1. (estimate > ColdUpper(bytes, limit)) \in BOOLEAN
        OBVIOUS
      <4>2. \/ halted' = (estimate > ColdUpper(bytes, limit))
            \/ halted' = TRUE
        BY <1>4, Zenon DEF SettleCall
      <4> QED  BY <4>1, <4>2, Zenon
    <3>2. amount' \in Nat \cup {None} /\ state' \in {"SETTLED", "UNKNOWN"} /\ pc' = "done"
      BY <1>4 DEF SettleCall, IInv, TypeOK
    <3> QED  BY <1>4, <3>1, <3>2 DEF SettleCall, IInv, TypeOK
  <2>2. /\ pc = "answered" /\ pc' = "done"
        /\ UNCHANGED <<now, started, finished, bytes, limit, usage, estimate>>
    BY <1>4 DEF SettleCall
  <2>3. Accepted' <=> Accepted
    BY <2>2 DEF Accepted
  <2>4. IF Accepted THEN state' = "SETTLED" /\ amount' = estimate ELSE state' = "UNKNOWN"
    BY <1>4 DEF SettleCall
  <2>5. Decided'
    BY <2>2, <2>3, <2>4 DEF IInv, Decided
  <2> QED  BY <2>1, <2>5 DEF IInv
<1>5. CASE UNCHANGED vars
  BY <1>5 DEF vars, IInv, TypeOK, Decided, Accepted
<1> QED  BY <1>1, <1>2, <1>3, <1>4, <1>5 DEF Next

LEMMA Invariant == Spec => []IInv
BY InitInvariant, NextInvariant, PTL DEF Spec

-----------------------------------------------------------------------------
(* The theorems *)

\* The records of a call are well formed; what is estimated is never negative.
THEOREM TypeCorrect == Spec => []TypeOK
<1>1. IInv => TypeOK
  BY DEF IInv
<1> QED  BY <1>1, Invariant, PTL

\* A settled amount is the cost at the tariff of every instant of the call, for
\* a call of any length that starts at any time.
THEOREM SettledRight == Spec => []SettledAtAnyInstant
<1>1. IInv => SettledAtAnyInstant
  BY VerifiedAtAnyInstant DEF IInv, TypeOK, Decided, Accepted, SettledAtAnyInstant
<1> QED  BY <1>1, Invariant, PTL

\* Whatever the provider reports, only the input can exceed what was reserved.
THEOREM OverrunOnlyByInput == Spec => []OverrunMeansInput
<1>1. IInv => OverrunMeansInput
  BY VerifiedOverrun DEF IInv, TypeOK, Decided, Accepted, OverrunMeansInput
<1> QED  BY <1>1, Invariant, PTL

\* A call with full usage within one window of the tariff is settled exactly if
\* the provider's details agree with its counts, whatever the counts are and
\* whenever the call is made.
THEOREM EstimateSettles == Spec => []CopiesAgree
<1>1. IInv => CopiesAgree
  <2>1. SUFFICES ASSUME IInv, pc = "done", FullUsage,
                        \A t \in started..finished : Peak(t) = Peak(started)
                 PROVE  state = "SETTLED" <=> DetailsAgree
    BY DEF CopiesAgree
  <2>2. /\ usage \in Usage /\ started \in Nat /\ finished \in Nat /\ started <= finished
        /\ estimate = EstimateCost(usage, started, finished)
        /\ Accepted <=> state = "SETTLED"
    BY <2>1 DEF IInv, TypeOK, Decided
  <2>3. DetailsAgree <=> Agrees(usage)
    BY DEF DetailsAgree, Agrees
  <2>4. /\ EstimateCost(usage, started, finished) # None <=> Agrees(usage)
        /\ Agrees(usage) => Verified(usage, limit, started, finished,
                                     EstimateCost(usage, started, finished))
    BY <2>1, <2>2, EstimateIsVerified DEF FullUsage
  <2>5. Accepted <=> Agrees(usage)
    BY <2>2, <2>4 DEF Accepted
  <2> QED  BY <2>2, <2>3, <2>5
<1> QED  BY <1>1, Invariant, PTL

=============================================================================
