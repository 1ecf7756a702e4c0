------------------------------ MODULE PaidCall ------------------------------
(***************************************************************************)
(* What the control plane promises about paid model requests, with no      *)
(* tables, sweeps or settlement records: a request may cost money only     *)
(* while money is held for it, and the hold is closed once, for exactly    *)
(* what the provider charged.  CallLedger implements this specification.   *)
(***************************************************************************)
EXTENDS Naturals

CONSTANT Call

VARIABLES phase,    \* phase[c]: no hold yet, held, or closed for good
          spent,    \* spent[c]: what the provider charges for c
          paid      \* paid[c]:  what the closed hold was settled at

vars == <<phase, spent, paid>>

Init ==
    /\ phase = [c \in Call |-> "none"]
    /\ spent = [c \in Call |-> 0]
    /\ paid  = [c \in Call |-> 0]

\* Money is set aside before anything can be dispatched.
Hold(c) ==
    /\ phase[c] = "none"
    /\ phase' = [phase EXCEPT ![c] = "held"]
    /\ UNCHANGED <<spent, paid>>

\* The request reaches the provider, which charges for it.
Spend(c) ==
    /\ phase[c] = "held"
    /\ spent[c] = 0
    /\ spent' \in [Call -> Nat]
    /\ \A d \in Call \ {c} : spent'[d] = spent[d]
    /\ UNCHANGED <<phase, paid>>

\* The hold is closed at the charge.
Close(c) ==
    /\ phase[c] = "held"
    /\ phase' = [phase EXCEPT ![c] = "closed"]
    /\ paid' = [paid EXCEPT ![c] = spent[c]]
    /\ UNCHANGED spent

Next == \E c \in Call : Hold(c) \/ Spend(c) \/ Close(c)

Spec == Init /\ [][Next]_vars
=============================================================================
