----------------------------- MODULE DurableJob -----------------------------
(***************************************************************************)
(* What the control plane promises about a background extraction job, with *)
(* no leases, workers, sweeps or reports: one extraction request at most,  *)
(* one result that is never replaced, and one ending.  Only the answer to  *)
(* the request can be published.  JobLifecycle implements this             *)
(* specification.                                                          *)
(***************************************************************************)
EXTENDS Naturals

CONSTANTS Job, None

VARIABLES phase,       \* absent, open, published or ended
          requests,    \* extraction requests sent to the provider
          result       \* None, the content of the answer, or a failure

vars == <<phase, requests, result>>

Init ==
    /\ phase    = [j \in Job |-> "absent"]
    /\ requests = [j \in Job |-> 0]
    /\ result   = [j \in Job |-> None]

Create(j) ==
    /\ phase[j] = "absent"
    /\ phase' = [phase EXCEPT ![j] = "open"]
    /\ UNCHANGED <<requests, result>>

\* A worker that was admitted may dispatch after its job has ended.
Request(j) ==
    /\ phase[j] # "absent"
    /\ requests[j] = 0
    /\ requests' = [requests EXCEPT ![j] = 1]
    /\ UNCHANGED <<phase, result>>

Record(j) ==
    /\ phase[j] = "open"
    /\ result[j] = None
    /\ \E r \in {"failed"} \cup (IF requests[j] = 1 THEN {"content"} ELSE {}) :
          result' = [result EXCEPT ![j] = r]
    /\ UNCHANGED <<phase, requests>>

Publish(j) ==
    /\ phase[j] = "open"
    /\ result[j] = "content"
    /\ phase' = [phase EXCEPT ![j] = "published"]
    /\ UNCHANGED <<requests, result>>

\* Several jobs of a run may be ended by one cancellation.
End(S) ==
    /\ S # {} /\ \A j \in S : phase[j] = "open"
    /\ phase' = [j \in Job |-> IF j \in S THEN "ended" ELSE phase[j]]
    /\ UNCHANGED <<requests, result>>

Next ==
    \/ \E j \in Job : Create(j) \/ Request(j) \/ Record(j) \/ Publish(j)
    \/ \E S \in SUBSET Job : End(S)

Spec == Init /\ [][Next]_vars
=============================================================================
