--------------------------- MODULE MCJobLifecycle ---------------------------
(***************************************************************************)
(* Small instances of JobLifecycle.                                        *)
(***************************************************************************)
EXTENDS JobLifecycle

CONSTANTS i1, i2, w1, w2

\* Each worker is served by an instance of its own, or by any.
ServedByOne == [w \in Worker |-> IF w = w1 THEN {i1} ELSE {i2}]
ServedByAll == [w \in Worker |-> Instance]
=============================================================================
