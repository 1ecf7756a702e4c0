----------------------------- MODULE RunOutcome -----------------------------
(***************************************************************************)
(* What a client of a foreground run is promised: the run ends once, the   *)
(* ending is announced by one DONE event that becomes visible together     *)
(* with it, and an answer is given with the ending COMPLETED and with no   *)
(* other.  RunLifecycle implements this specification.                     *)
(***************************************************************************)
EXTENDS Naturals

CONSTANTS Run, Ending

VARIABLES
    phase,    \* absent, open, or how the run ended
    dones,    \* number of DONE events of the run
    answers   \* number of answers given

vars == <<phase, dones, answers>>

Init ==
    /\ phase   = [r \in Run |-> "absent"]
    /\ dones   = [r \in Run |-> 0]
    /\ answers = [r \in Run |-> 0]

Submit(r) ==
    /\ phase[r] = "absent"
    /\ phase' = [phase EXCEPT ![r] = "open"]
    /\ UNCHANGED <<dones, answers>>

\* Several runs may be ended by one takeover.
End(S, e) ==
    /\ S # {} /\ \A r \in S : phase[r] = "open"
    /\ phase'   = [r \in Run |-> IF r \in S THEN e ELSE phase[r]]
    /\ dones'   = [r \in Run |-> IF r \in S THEN dones[r] + 1 ELSE dones[r]]
    /\ answers' = [r \in Run |-> IF r \in S /\ e = "COMPLETED"
                                 THEN answers[r] + 1 ELSE answers[r]]

Next ==
    \/ \E r \in Run : Submit(r)
    \/ \E S \in SUBSET Run, e \in Ending : End(S, e)

Spec == Init /\ [][Next]_vars
=============================================================================
