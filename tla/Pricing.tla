------------------------------ MODULE Pricing ------------------------------
(***************************************************************************)
(* What one paid call may cost and what it did cost: the upper bound Go    *)
(* reserves (modelColdUpper), the runtime's estimate from the provider's   *)
(* usage and the tariff (normalize_usage, estimate_cost, select_rates),    *)
(* and Go's own verification of that estimate before it settles the call   *)
(* (m3ReadUsage, m3PriceWindow, m3VerifiedCostAtLimit).                    *)
(*                                                                         *)
(* The tariff is doubled on weekdays from 9 to 12 and from 14 to 18, China *)
(* time.  Instants are half hours from a Monday 0:00 on: the boundaries    *)
(* and a moment between any two.  Money is counted in 10^-8 CNY.  Calls    *)
(* are of the M3 experiment; others settle the estimate unverified.        *)
(*                                                                         *)
(* The provider's usage is five counts and two details.  A field is a      *)
(* number below 2^63, absent or null, or malformed: negative, a fraction,  *)
(* a string.  The runtime checks the details as well, Go reads the counts  *)
(* only.  Bounds: MaxSpan, and the constant sets below.                    *)
(***************************************************************************)
EXTENDS Integers

CONSTANTS
    StartTime,     \* instants at which a call may start
    MaxSpan,       \* bound: half hours a call may take
    RequestBytes,  \* sizes of a request
    OutputLimit,   \* max_tokens of a request
    Reports,       \* usage that the provider may report
    Absent,        \* a field it does not report
    Malformed      \* a field that is no count

ASSUME PricingAssumption ==
    /\ StartTime \subseteq Nat /\ MaxSpan \in Nat
    /\ RequestBytes \subseteq Nat /\ OutputLimit \subseteq Nat \ {0}
    /\ Absent \notin Int /\ Malformed \notin Int /\ Absent # Malformed

VARIABLES
    now,
    pc,
    started, finished,  \* started_at, finished_at of the record
    bytes, limit,       \* of the request
    usage,              \* raw_usage
    estimate,           \* cost.amount of the record; None: status unknown
    state, amount, halted   \* llm_calls.state and amount_cny; halted_reason

vars == <<now, pc, started, finished, bytes, limit, usage, estimate, state,
          amount, halted>>

None == -1

Field == Nat \cup {Absent, Malformed}

\* cached: prompt_tokens_details.cached_tokens; reasoning:
\* completion_tokens_details.reasoning_tokens, part of the output.
Usage == [prompt : Field, hit : Field, miss : Field, output : Field, total : Field,
          cached : Field, reasoning : Field]
NoUsage == [prompt |-> Absent, hit |-> Absent, miss |-> Absent, output |-> Absent,
            total |-> Absent, cached |-> Absent, reasoning |-> Absent]

ASSUME ReportsAssumption == Reports \subseteq Usage

Known(x) == x \in Nat

-----------------------------------------------------------------------------
(* The reservation *)

\* Seeded fault: the output is reserved at the rate outside the peak.
ColdUpperHalf(b, l) == (2 * b + 4096) * 200 + l * 400

\* Twice the bytes and 4096 tokens of input, all missing the cache, and the
\* whole output, at the peak rate.
ColdUpper(b, l) == (2 * b + 4096) * 200 + l * 800

-----------------------------------------------------------------------------
(* The tariff, in the runtime *)

Day(t) == (t \div 48) % 7               \* 0 is Monday
HalfHour(t) == t % 48

\* Seeded fault: the peak hours apply at weekends, too.
PeakEveryDay(t) == HalfHour(t) \in 18..23 \/ HalfHour(t) \in 28..35

\* select_rates
Peak(t) == Day(t) < 5 /\ (HalfHour(t) \in 18..23 \/ HalfHour(t) \in 28..35)
Factor(t) == IF Peak(t) THEN 2 ELSE 1

Charge(f, miss, hit, output) == f * (100 * miss + 2 * hit + 400 * output)

-----------------------------------------------------------------------------
(* The estimate, in the runtime *)

\* normalize_usage: the cached tokens stand for hits if neither hits nor misses
\* are there ...
Given(u) == IF ~Known(u.hit) /\ ~Known(u.miss) /\ Known(u.cached) THEN u.cached ELSE u.hit

\* ... then it fills in the one count that two others give.
Prompt(u) == IF ~Known(u.prompt) /\ Known(Given(u)) /\ Known(u.miss)
             THEN Given(u) + u.miss ELSE u.prompt
Filled(u, one, other) ==
    IF ~Known(one) /\ Known(other) /\ Known(Prompt(u)) /\ other <= Prompt(u)
    THEN Prompt(u) - other ELSE one
Hit(u) == Filled(u, Given(u), u.miss)
Miss(u) == Filled(u, u.miss, Given(u))

\* None of its issues INVALID_, INCONSISTENT_ and CONFLICTING_.
Consistent(u) ==
    /\ \A k \in DOMAIN u : u[k] # Malformed
    /\ Known(u.cached) /\ Known(Given(u)) => u.cached = Given(u)
    /\ Known(u.reasoning) /\ Known(u.output) => u.reasoning <= u.output
    /\ Known(u.total) /\ Known(Prompt(u)) /\ Known(u.output)
           => u.total = Prompt(u) + u.output
    /\ Known(Prompt(u)) => /\ Known(Hit(u)) => Hit(u) <= Prompt(u)
                           /\ Known(Miss(u)) => Miss(u) <= Prompt(u)
                           /\ Known(Hit(u)) /\ Known(Miss(u))
                                  => Hit(u) + Miss(u) = Prompt(u)

Estimable(u, s, f) ==
    /\ Factor(f) = Factor(s)
    /\ Known(Hit(u)) /\ Known(Miss(u)) /\ Known(u.output)
    /\ Consistent(u)

EstimateCost(u, s, f) ==
    IF Estimable(u, s, f) THEN Charge(Factor(s), Miss(u), Hit(u), u.output)
                          ELSE None

-----------------------------------------------------------------------------
(* The verification, in Go *)

Counts == {"prompt", "hit", "miss", "output", "total"}

\* m3ReadUsage: every count is there, and they agree.
ReadUsage(u, l) ==
    /\ \A k \in Counts : Known(u[k])
    /\ u.output <= l
    /\ u.hit <= u.prompt /\ u.prompt - u.hit = u.miss
    /\ u.output <= u.total /\ u.total - u.output = u.prompt

\* The ends of the windows of a weekday; the last one ends at 18:00.
WindowEnds == {18, 24, 28, 36}
WindowEnd(t) == CHOOSE e \in WindowEnds :
    /\ HalfHour(t) < e
    /\ \A d \in WindowEnds : HalfHour(t) < d => e <= d

InDay(t) == Day(t) < 5 /\ HalfHour(t) < 36
DaysAhead(t) == CASE Day(t) = 4 -> 3 [] Day(t) = 5 -> 2 [] OTHER -> 1

\* m3PriceWindow: the factor at t, and the next instant at which it changes.
WindowFactor(t) == IF InDay(t) /\ WindowEnd(t) \in {24, 36} THEN 2 ELSE 1
NextTransition(t) ==
    IF InDay(t) THEN 48 * (t \div 48) + WindowEnd(t)
                ELSE 48 * (t \div 48 + DaysAhead(t)) + 18

\* Seeded fault: only the ends of the call are compared.
SameRateAtEnds(s, f) == WindowFactor(s) = WindowFactor(f)

OneWindow(s, f) == f < NextTransition(s)

\* m3VerifiedCostAtLimit; only an estimated cost gets here.
Verified(u, l, s, f, a) ==
    /\ ReadUsage(u, l)
    /\ OneWindow(s, f)
    /\ a = Charge(WindowFactor(s), u.miss, u.hit, u.output)

-----------------------------------------------------------------------------
(* One call *)

Init ==
    /\ now \in StartTime /\ started = now /\ finished = now
    /\ pc = "idle"
    /\ bytes = 0 /\ limit = 0
    /\ usage = NoUsage
    /\ estimate = None
    /\ state = "none" /\ amount = None /\ halted = FALSE

Tick ==
    /\ pc = "sent" /\ now < started + MaxSpan
    /\ now' = now + 1
    /\ UNCHANGED <<pc, started, finished, bytes, limit, usage, estimate, state,
                   amount, halted>>

ReserveCall ==
    /\ pc = "idle"
    /\ pc' = "sent" /\ state' = "RESERVED"
    /\ bytes' \in RequestBytes /\ limit' \in OutputLimit
    /\ UNCHANGED <<now, started, finished, usage, estimate, amount, halted>>

\* The reply, the estimate, and the record of both.
Respond ==
    /\ pc = "sent"
    /\ pc' = "answered"
    /\ finished' = now
    /\ \E u \in Reports : /\ usage' = u
                          /\ estimate' = EstimateCost(u, started, now)
    /\ UNCHANGED <<now, started, bytes, limit, state, amount, halted>>

Accepted == /\ estimate # None
            /\ Verified(usage, limit, started, finished, estimate)

SettleCall ==
    /\ pc = "answered"
    /\ pc' = "done"
    /\ IF Accepted
         THEN /\ state' = "SETTLED" /\ amount' = estimate
              /\ halted' = (estimate > ColdUpper(bytes, limit))
         ELSE state' = "UNKNOWN" /\ halted' = TRUE /\ UNCHANGED amount
    /\ UNCHANGED <<now, started, finished, bytes, limit, usage, estimate>>

Next ==
    \/ Tick
    \/ ReserveCall
    \/ Respond
    \/ SettleCall

Spec == Init /\ [][Next]_vars

-----------------------------------------------------------------------------
(* Properties *)

TypeOK ==
    /\ now \in Nat /\ started \in Nat /\ finished \in Nat
    /\ started <= finished /\ finished <= now
    /\ pc \in {"idle", "sent", "answered", "done"}
    /\ bytes \in Nat /\ limit \in Nat
    /\ usage \in Usage
    /\ estimate \in Nat \cup {None} /\ amount \in Nat \cup {None}
    /\ state \in {"none", "RESERVED", "SETTLED", "UNKNOWN"}
    /\ halted \in BOOLEAN
    /\ pc = "answered" => state = "RESERVED" /\ amount = None

\* A settled amount is what the call costs at whatever instant of it the
\* provider takes the rate, the peak hours between its ends included: the rule
\* of the provider is not known (m3PriceWindow, m3VerifiedCostAtLimit).
SettledAtAnyInstant ==
    state = "SETTLED" =>
        \A t \in started..finished :
            amount = Charge(Factor(t), usage.miss, usage.hit, usage.output)

\* A settled amount exceeds the reservation only if the request held more
\* tokens than twice its bytes and 4096: neither the peak rate, nor a cold
\* cache, nor a long answer can do it (modelColdUpper).
OverrunMeansInput ==
    state = "SETTLED" /\ amount > ColdUpper(bytes, limit) =>
        usage.prompt > 2 * bytes + 4096

\* The counts are all there, add up, and keep to the limit of the request.
FullUsage ==
    /\ \A k \in Counts : Known(usage[k])
    /\ usage.hit + usage.miss = usage.prompt
    /\ usage.prompt + usage.output = usage.total
    /\ usage.output <= limit

\* The details say the same as the counts, or nothing.
DetailsAgree ==
    /\ usage.cached # Absent => usage.cached = usage.hit
    /\ usage.reasoning # Absent => Known(usage.reasoning) /\ usage.reasoning <= usage.output

\* The runtime and Go hold two copies of the tariff and of the arithmetic.  A
\* call with full usage that stays within one window of the tariff is settled,
\* and does not halt the experiment as unknown, unless the provider's own
\* details contradict its counts; then it is never settled, although Go does
\* not look at them (estimate_cost, m3VerifiedCostAtLimit).
CopiesAgree ==
    pc = "done" /\ FullUsage /\ (\A t \in started..finished : Peak(t) = Peak(started))
        => (state = "SETTLED" <=> DetailsAgree)
=============================================================================
