------------------------- MODULE CallLedger_proofs -------------------------
(***************************************************************************)
(* Proofs about CallLedger, for every set of calls, runs, jobs, instances  *)
(* and experiments and every table of requests and limits.                 *)
(***************************************************************************)
EXTENDS CallLedger, FiniteSetTheorems, TLAPS

-----------------------------------------------------------------------------
(* Sums over finite sets *)

\* g adds up f over every subset of S, one chosen element at a time.
Pick(T) == CHOOSE x \in T : TRUE
Sums(f, S, g) ==
    g = [T \in SUBSET S |-> IF T = {} THEN 0 ELSE f[Pick(T)] + g[T \ {Pick(T)}]]
Total(f, S) == (CHOOSE g : Sums(f, S, g))[S]

LEMMA PickMember == ASSUME NEW T, T # {} PROVE Pick(T) \in T
BY DEF Pick

\* Among finite sets there is one that contains no other: the induction that
\* the lemmas on sums rest on.
LEMMA SmallestSet ==
    ASSUME NEW S, IsFiniteSet(S), NEW B \in SUBSET SUBSET S, B # {}
    PROVE  \E T \in B : \A U \in B : U \subseteq T => U = T
<1>1. B \subseteq FiniteSubsetsOf(S)
  BY FS_Subset DEF FiniteSubsetsOf
<1>2. PICK T \in B : \A U \in B : <<U, T>> \notin StrictSubsetOrdering(S)
  <2> HIDE DEF StrictSubsetOrdering, FiniteSubsetsOf
  <2> QED BY <1>1, FS_StrictSubsetOrderingWellFounded, WFMin
<1>3. \A U \in B : U \subseteq T => U = T
  BY <1>2 DEF StrictSubsetOrdering
<1> QED BY <1>3

\* Two such functions agree wherever both are defined.
LEMMA SumsAgree ==
    ASSUME NEW f, NEW g, NEW h, NEW S, NEW R, IsFiniteSet(S),
           Sums(f, S, g), Sums(f, R, h)
    PROVE  \A T \in (SUBSET S) \cap SUBSET R : g[T] = h[T]
<1> DEFINE B == {T \in (SUBSET S) \cap SUBSET R : g[T] # h[T]}
<1> SUFFICES ASSUME B # {} PROVE FALSE
  OBVIOUS
<1>1. PICK T \in B : \A U \in B : U \subseteq T => U = T
  <2>1. B \in SUBSET SUBSET S
    OBVIOUS
  <2> HIDE DEF B
  <2> QED BY <2>1, SmallestSet
<1>2. T # {} => Pick(T) \in T
  BY PickMember
<1>3. T # {} => g[T \ {Pick(T)}] = h[T \ {Pick(T)}]
  BY <1>1, <1>2
<1>4. /\ g[T] = IF T = {} THEN 0 ELSE f[Pick(T)] + g[T \ {Pick(T)}]
      /\ h[T] = IF T = {} THEN 0 ELSE f[Pick(T)] + h[T \ {Pick(T)}]
  BY <1>1 DEF Sums
<1>5. T \in SUBSET S /\ g[T] # h[T]
  BY <1>1
<1>6. CASE T = {}
  BY <1>4, <1>5, <1>6
<1>7. CASE T # {}
  BY <1>3, <1>4, <1>5, <1>7
<1> QED BY <1>6, <1>7

\* A finite set has such a function: it is put together from those of its
\* smaller subsets.
LEMMA SumsExist ==
    ASSUME NEW f, NEW S, IsFiniteSet(S)
    PROVE  \E g : Sums(f, S, g)
<1> DEFINE B == {T \in SUBSET S : ~ \E g : Sums(f, T, g)}
<1> SUFFICES ASSUME B # {} PROVE FALSE
  OBVIOUS
<1>1. PICK T \in B : \A U \in B : U \subseteq T => U = T
  <2>1. B \in SUBSET SUBSET S
    OBVIOUS
  <2> HIDE DEF B
  <2> QED BY <2>1, SmallestSet
<1> DEFINE Part(U) == CHOOSE g : Sums(f, U, g)
           Small == (SUBSET T) \ {T}
           Val(U) == IF U = {} THEN 0 ELSE f[Pick(U)] + Part(U \ {Pick(U)})[U \ {Pick(U)}]
           g == [U \in SUBSET T |-> Val(U)]
<1>2. \A U \in Small : IsFiniteSet(U) /\ Sums(f, U, Part(U))
  <2> TAKE U \in Small
  <2>1. IsFiniteSet(U) /\ U \notin B /\ U \in SUBSET S
    BY <1>1, FS_Subset
  <2>2. \E q : Sums(f, U, q)
    BY <2>1
  <2>3. Sums(f, U, Part(U))
    BY <2>2
  <2> QED BY <2>1, <2>3
<1>3. \A U \in Small : g[U] = Part(U)[U]
  <2> TAKE U \in Small
  <2>1. CASE U = {}
    <3>1. Sums(f, U, Part(U))
      BY <1>2
    <3>2. Part(U)[U] = 0
      <4> HIDE DEF Part
      <4> QED BY <2>1, <3>1 DEF Sums
    <3>3. g[U] = 0
      <4> HIDE DEF Part
      <4> QED BY <2>1
    <3> QED BY <3>2, <3>3
  <2>2. CASE U # {}
    <3> DEFINE V == U \ {Pick(U)}
    <3>1. Pick(U) \in U /\ V \in Small /\ V \in SUBSET U
      BY <2>2, PickMember
    <3>2. Sums(f, U, Part(U)) /\ Sums(f, V, Part(V)) /\ IsFiniteSet(U)
      BY <1>2, <3>1
    <3>3. Part(U)[V] = Part(V)[V]
      <4> HIDE DEF Part, V
      <4> QED BY <3>1, <3>2, SumsAgree
    <3>4. Part(U)[U] = f[Pick(U)] + Part(U)[V]
      <4> HIDE DEF Part
      <4> QED BY <2>2, <3>2 DEF Sums
    <3>5. g[U] = f[Pick(U)] + Part(V)[V]
      <4> HIDE DEF Part
      <4> QED BY <2>2
    <3> QED BY <3>3, <3>4, <3>5
  <2> QED BY <2>1, <2>2
<1>4. Sums(f, T, g)
  <2>1. \A U \in SUBSET T : U # {} => U \ {Pick(U)} \in Small
    BY PickMember
  <2>2. \A U \in SUBSET T : g[U] = IF U = {} THEN 0 ELSE f[Pick(U)] + g[U \ {Pick(U)}]
    <3> TAKE U \in SUBSET T
    <3>1. CASE U = {}
      BY <3>1
    <3>2. CASE U # {}
      <4> DEFINE V == U \ {Pick(U)}
      <4>1. g[V] = Part(V)[V]
        BY <1>3, <2>1, <3>2
      <4>2. g[U] = f[Pick(U)] + Part(V)[V]
        <5> HIDE DEF Part
        <5> QED BY <3>2
      <4> QED BY <3>2, <4>1, <4>2
    <3> QED BY <3>1, <3>2
  <2>3. g = [U \in SUBSET T |-> g[U]]
    OBVIOUS
  <2> HIDE DEF g
  <2>4. g = [U \in SUBSET T |-> IF U = {} THEN 0 ELSE f[Pick(U)] + g[U \ {Pick(U)}]]
    BY <2>2, <2>3
  <2> QED BY <2>4 DEF Sums
<1> QED BY <1>1, <1>4

\* How a total is computed.
LEMMA TotalStep ==
    ASSUME NEW f, NEW S, IsFiniteSet(S)
    PROVE  Total(f, S) = IF S = {} THEN 0 ELSE f[Pick(S)] + Total(f, S \ {Pick(S)})
<1> DEFINE g == CHOOSE g : Sums(f, S, g)
<1>1. Sums(f, S, g) /\ Total(f, S) = g[S]
  BY SumsExist DEF Total
<1>2. CASE S = {}
  BY <1>1, <1>2 DEF Sums
<1>3. CASE S # {}
  <2> DEFINE R == S \ {Pick(S)}
             h == CHOOSE h : Sums(f, R, h)
  <2>1. R \subseteq S /\ IsFiniteSet(R)
    BY FS_Subset
  <2>2. Sums(f, R, h) /\ Total(f, R) = h[R]
    BY <2>1, SumsExist DEF Total
  <2>3. g[R] = h[R]
    <3> HIDE DEF g, h, R
    <3> QED BY <1>1, <2>1, <2>2, SumsAgree
  <2>4. g[S] = f[Pick(S)] + g[R]
    <3> HIDE DEF g
    <3> QED BY <1>1, <1>3 DEF Sums
  <2> QED BY <1>1, <1>3, <2>2, <2>3, <2>4
<1> QED BY <1>2, <1>3

\* A total depends on the values of the elements only.
LEMMA TotalSame ==
    ASSUME NEW f, NEW g, NEW S, IsFiniteSet(S), \A x \in S : f[x] = g[x]
    PROVE  Total(f, S) = Total(g, S)
<1> DEFINE B == {T \in SUBSET S : Total(f, T) # Total(g, T)}
<1> SUFFICES ASSUME B # {} PROVE FALSE
  OBVIOUS
<1>1. PICK T \in B : \A U \in B : U \subseteq T => U = T
  <2>1. B \in SUBSET SUBSET S
    OBVIOUS
  <2> HIDE DEF B
  <2> QED BY <2>1, SmallestSet
<1>2. T \in SUBSET S /\ IsFiniteSet(T) /\ Total(f, T) # Total(g, T)
  BY <1>1, FS_Subset
<1>3. T # {}
  BY <1>2, TotalStep
<1>4. Pick(T) \in T
  BY <1>3, PickMember
<1>5. f[Pick(T)] = g[Pick(T)] /\ Total(f, T \ {Pick(T)}) = Total(g, T \ {Pick(T)})
  BY <1>1, <1>2, <1>4
<1>6. /\ Total(f, T) = f[Pick(T)] + Total(f, T \ {Pick(T)})
      /\ Total(g, T) = g[Pick(T)] + Total(g, T \ {Pick(T)})
  BY <1>2, <1>3, TotalStep
<1> QED BY <1>2, <1>5, <1>6

\* A total of amounts is an amount.
LEMMA TotalNat ==
    ASSUME NEW f, NEW S, IsFiniteSet(S), \A x \in S : f[x] \in Nat
    PROVE  Total(f, S) \in Nat
<1> DEFINE B == {T \in SUBSET S : Total(f, T) \notin Nat}
<1> SUFFICES ASSUME B # {} PROVE FALSE
  OBVIOUS
<1>1. PICK T \in B : \A U \in B : U \subseteq T => U = T
  <2>1. B \in SUBSET SUBSET S
    OBVIOUS
  <2> HIDE DEF B
  <2> QED BY <2>1, SmallestSet
<1>2. T \in SUBSET S /\ IsFiniteSet(T) /\ Total(f, T) \notin Nat
  BY <1>1, FS_Subset
<1>3. T # {}
  BY <1>2, TotalStep
<1>4. Pick(T) \in T
  BY <1>3, PickMember
<1>5. f[Pick(T)] \in Nat /\ Total(f, T \ {Pick(T)}) \in Nat
  BY <1>1, <1>2, <1>4
<1>6. Total(f, T) = f[Pick(T)] + Total(f, T \ {Pick(T)})
  BY <1>2, <1>3, TotalStep
<1> QED BY <1>2, <1>5, <1>6

\* Any element can be taken out first.
LEMMA TotalRemove ==
    ASSUME NEW f, NEW S, IsFiniteSet(S), \A x \in S : f[x] \in Nat, NEW c \in S
    PROVE  Total(f, S) = f[c] + Total(f, S \ {c})
<1> DEFINE B == {T \in SUBSET S : \E x \in T : Total(f, T) # f[x] + Total(f, T \ {x})}
<1> SUFFICES ASSUME B # {} PROVE FALSE
  OBVIOUS
<1>1. PICK T \in B : \A U \in B : U \subseteq T => U = T
  <2>1. B \in SUBSET SUBSET S
    OBVIOUS
  <2> HIDE DEF B
  <2> QED BY <2>1, SmallestSet
<1>2. PICK a \in T : Total(f, T) # f[a] + Total(f, T \ {a})
  BY <1>1
<1>3. T \in SUBSET S
  BY <1>1
<1> DEFINE d == Pick(T)
<1>4. d \in T
  BY <1>2, PickMember
<1> HIDE DEF d
<1>5. IsFiniteSet(T) /\ IsFiniteSet((T \ {a}) \ {d})
  BY <1>3, FS_Subset
<1>6. Total(f, T) = f[d] + Total(f, T \ {d})
  BY <1>2, <1>5, TotalStep DEF d
<1>7. a # d
  BY <1>2, <1>6
<1>8. Total(f, T \ {d}) = f[a] + Total(f, (T \ {d}) \ {a})
  <2>1. T \ {d} \in SUBSET S /\ T \ {d} \notin B /\ a \in T \ {d}
    BY <1>1, <1>2, <1>3, <1>4, <1>7
  <2> QED BY <2>1
<1>9. Total(f, T \ {a}) = f[d] + Total(f, (T \ {a}) \ {d})
  <2>1. T \ {a} \in SUBSET S /\ T \ {a} \notin B /\ d \in T \ {a}
    BY <1>1, <1>2, <1>3, <1>4, <1>7
  <2> QED BY <2>1
<1>10. (T \ {d}) \ {a} = (T \ {a}) \ {d}
  OBVIOUS
<1> DEFINE rest == Total(f, (T \ {a}) \ {d})
<1>11. /\ Total(f, T \ {d}) = f[a] + rest
       /\ Total(f, T \ {a}) = f[d] + rest
  BY <1>8, <1>9, <1>10
<1>12. f[a] \in Nat /\ f[d] \in Nat /\ rest \in Nat
  BY <1>3, <1>4, <1>5, TotalNat
<1> HIDE DEF rest
<1> QED BY <1>2, <1>6, <1>11, <1>12

USE LedgerAssumption

-----------------------------------------------------------------------------
(* Constants *)

\* What an attempt's request says of it has the type the schema gives it.
LEMMA RequestTypes ==
    ASSUME NEW c \in Call
    PROVE  /\ Request[c] \in [run : Run, job : Job \cup {NoJob},
                              batch : Batch \cup {NoBatch},
                              stage : Stage, upper : Nat]
           /\ Upper(c) \in Nat
           /\ Exp(c) \in Experiment
BY DEF Upper, Exp

\* "Not halted" is none of the reasons for a halt.
LEMMA NoneIsNoHalt == None \notin Halt
BY DEF Halt

-----------------------------------------------------------------------------
(* Types *)

\* Every column keeps the type its table declares.
THEOREM TypeCorrect == Spec => []TypeOK
<1>1. Init => TypeOK
  BY DEF Init, TypeOK, CallState, Record
<1>2. TypeOK /\ [Next]_vars => TypeOK'
  <2> SUFFICES ASSUME TypeOK, [Next]_vars PROVE TypeOK'
    OBVIOUS
  <2>1. ASSUME NEW c \in Call, NEW i \in Instance, ReserveCall(c, i)
        PROVE  TypeOK'
    <3>1. /\ Exp(c) \in Experiment /\ Upper(c) \in Nat
      BY RequestTypes
    <3>2. reserved' \in [Experiment -> Int] /\ attempted' \in [Experiment -> Nat]
      BY <2>1, <3>1 DEF ReserveCall, TypeOK
    <3> QED BY <2>1, <3>2 DEF ReserveCall, TypeOK, CallState
  <2>2. ASSUME NEW c \in Call, Dispatch(c) PROVE TypeOK'
    BY <2>2 DEF Dispatch, TypeOK, row, budget
  <2>3. ASSUME NEW c \in Call, BuildRecord(c) PROVE TypeOK'
    BY <2>3 DEF BuildRecord, Outcome, TypeOK, row, budget, Record
  <2>4. ASSUME NEW c \in Call, Abandon(c) PROVE TypeOK'
    BY <2>4 DEF Abandon, Finish, TypeOK, row, budget, Record
  <2>5. ASSUME NEW c \in Call, SettleRoute(c) PROVE TypeOK'
    BY <2>5 DEF SettleRoute, TypeOK, row, budget
  <2>6. ASSUME NEW c \in Call, SettleDirect(c) PROVE TypeOK'
    <3>1. Exp(c) \in Experiment /\ Upper(c) \in Nat
      BY RequestTypes
    <3>2. /\ callState' \in [Call -> CallState]
          /\ amount' \in [Call -> Nat]
          /\ known' \in [Experiment -> Nat]
          /\ reserved' \in [Experiment -> Int]
          /\ halted' \in [Experiment -> Halt \cup {None}]
      <4>1. CASE SettleRelease(c)
        BY <2>6, <3>1, <4>1 DEF SettleRelease, TypeOK, CallState
      <4>2. CASE SettleUnknown(c)
        BY <2>6, <3>1, <4>2 DEF SettleUnknown, TypeOK, CallState, Halt
      <4>3. CASE SettleCost(c)
        BY <2>6, <3>1, <4>3 DEF SettleCost, TypeOK, CallState, Halt
      <4>4. CASE UNCHANGED <<callState, amount, callJson, budget>>
        BY <4>4 DEF TypeOK, budget
      <4> QED BY <2>6, <4>1, <4>2, <4>3, <4>4 DEF SettleDirect
    <3>3. callJson' \in [Call -> Record] /\ attempted' \in [Experiment -> Nat]
      <4>1. CASE callJson' = [callJson EXCEPT ![c] = record[c]] /\ attempted' = attempted
        BY <4>1 DEF TypeOK
      <4>2. CASE UNCHANGED <<callJson, attempted>>
        BY <4>2 DEF TypeOK
      <4> QED BY <2>6, <4>1, <4>2 DEF SettleDirect, budget
    <3>4. /\ wire' \in [Call -> {"idle", "admitted", "sent", "recorded", "direct",
                                "late", "done"}]
          /\ record' \in [Call -> Record]
      BY <2>6 DEF SettleDirect, Finish, TypeOK, Record
    <3>5. UNCHANGED <<owner, audited, open, live, sent, charge>>
      BY <2>6 DEF SettleDirect
    <3> QED BY <3>2, <3>3, <3>4, <3>5 DEF TypeOK
  <2>7. ASSUME NEW c \in Call, NEW kind, ReconcileM4Attempt(c, kind)
        PROVE  /\ callState' \in [Call -> CallState]
               /\ amount' \in [Call -> Nat]
               /\ known' \in [Experiment -> Nat]
               /\ reserved' \in [Experiment -> Int]
               /\ halted' \in [Experiment -> Halt \cup {None}]
               /\ audited' \subseteq Call
               /\ UNCHANGED <<callJson, owner, attempted>>
    <3>1. Exp(c) \in Experiment /\ Upper(c) \in Nat
      BY RequestTypes
    <3>2. EvidenceAmount(c, kind) \in Nat
      BY DEF EvidenceAmount, TypeOK
    <3>3. \A e, r : r \in Halt \cup {None} =>
                       ClearResolved(e, r) \in Halt \cup {None}
      BY DEF ClearResolved
    <3>4. halted' \in [Experiment -> Halt \cup {None}]
      BY <2>7, <3>1, <3>3 DEF ReconcileM4Attempt, TypeOK, Halt
    <3> QED BY <2>7, <3>1, <3>2, <3>4 DEF ReconcileM4Attempt, TypeOK, CallState
  <2>8. ASSUME NEW c \in Call, SettleLate(c) PROVE TypeOK'
    BY <2>7, <2>8 DEF SettleLate, Finish, TypeOK, row, budget, Record
  <2>9. ASSUME NEW c \in Call, OperatorReconcile(c) PROVE TypeOK'
    BY <2>7, <2>9 DEF OperatorReconcile, TypeOK, runtime
  <2>10. ASSUME NEW c \in Call, ReconcileM2Attempt(c) PROVE TypeOK'
    <3>1. Exp(c) \in Experiment /\ Upper(c) \in Nat
      BY RequestTypes
    <3> QED BY <2>10, <3>1 DEF ReconcileM2Attempt, TypeOK, CallState, runtime
  <2>11. ASSUME NEW h \in Run \cup Job, EndWork(h) PROVE TypeOK'
    BY <2>11 DEF EndWork, TypeOK, row, budget, runtime
  <2>12. ASSUME NEW S, NEW scope, MarkUnknown(S), HaltForOwnerLoss(scope)
         PROVE  /\ callState' \in [Call -> CallState]
                /\ halted' \in [Experiment -> Halt \cup {None}]
    BY <2>12 DEF MarkUnknown, HaltForOwnerLoss, TypeOK, CallState, Halt
  <2>13. ASSUME NEW h \in Run \cup Job, RevokeWork(h) PROVE TypeOK'
    BY <2>12, <2>13 DEF RevokeWork, Swept, TypeOK, runtime
  <2>14. ASSUME RecoverTerminalCalls PROVE TypeOK'
    BY <2>12, <2>14 DEF RecoverTerminalCalls, Swept, TypeOK, runtime
  <2>15. ASSUME NEW i \in Instance, StopInstance(i) PROVE TypeOK'
    BY <2>15 DEF StopInstance, TypeOK, row, budget, runtime
  <2>16. ASSUME RecoverOwnedWork PROVE TypeOK'
    BY <2>12, <2>16 DEF RecoverOwnedWork, Swept, TypeOK, runtime
  <2>17. ASSUME NEW e \in Experiment, OperatorHalt(e) PROVE TypeOK'
    BY <2>17 DEF OperatorHalt, TypeOK, row, runtime, Halt
  <2>18. CASE UNCHANGED vars
    BY <2>18 DEF vars, TypeOK
  <2> QED
    BY <2>1, <2>2, <2>3, <2>4, <2>5, <2>6, <2>8, <2>9, <2>10, <2>11, <2>13,
       <2>14, <2>15, <2>16, <2>17, <2>18 DEF Next, RuntimeStep
<1> QED BY <1>1, <1>2, PTL DEF Spec

-----------------------------------------------------------------------------
(* Custody of one attempt: ledger row, runtime and provider agree *)

\* What makes SettledAtCharge inductive.  A reservation that is closed can no
\* longer be dispatched; a stored record is the last thing the runtime does;
\* a record that denies the dispatch is the truth.
Custody(c) ==
    /\ callState[c] = "NONE" <=> wire[c] = "idle"
    /\ c \notin sent => charge[c] = 0
    /\ wire[c] \in {"idle", "admitted"} => c \notin sent
    /\ wire[c] = "admitted" => callState[c] # "SETTLED"
    /\ record[c] = "not_dispatched" =>
           c \notin sent /\ wire[c] \notin {"idle", "admitted"}
    /\ callJson[c] # "none" => wire[c] = "done"
    /\ callJson[c] = "not_dispatched" => c \notin sent
    /\ callState[c] = "SETTLED" => amount[c] = charge[c]

CustodyInv == TypeOK /\ \A c \in Call : Custody(c)

\* An action that leaves c's row, runtime state and charge alone keeps Custody.
LEMMA CustodyFrame ==
    ASSUME NEW c \in Call, Custody(c),
           callState'[c] = callState[c], amount'[c] = amount[c],
           callJson'[c] = callJson[c], wire'[c] = wire[c],
           record'[c] = record[c], charge'[c] = charge[c],
           c \in sent' <=> c \in sent
    PROVE  Custody(c)'
BY DEF Custody

\* A sweep moves calls from RESERVED to UNKNOWN, which no part of Custody
\* tells apart.
LEMMA CustodySweep ==
    ASSUME CustodyInv, NEW S \in SUBSET InFlight, MarkUnknown(S),
           UNCHANGED <<amount, callJson, wire, record, sent, charge>>
    PROVE  \A c \in Call : Custody(c)'
<1> TAKE c \in Call
<1>1. CASE c \in S
  <2>1. callState[c] = "RESERVED" /\ callState'[c] = "UNKNOWN"
    BY <1>1 DEF MarkUnknown, InFlight
  <2> QED BY <2>1 DEF CustodyInv, Custody
<1>2. CASE c \notin S
  <2>1. callState'[c] = callState[c]
    BY <1>2 DEF MarkUnknown
  <2> QED BY <2>1 DEF CustodyInv, Custody
<1> QED BY <1>1, <1>2

\* Reconciliation closes the hold of a request that was answered, or of one
\* whose stored record proves that it was never sent.
LEMMA CustodyReconcile ==
    ASSUME CustodyInv, NEW c \in Call, NEW kind,
           ReconcileM4Attempt(c, kind),
           UNCHANGED <<sent, charge>>,
           wire' = wire \/ wire' = [wire EXCEPT ![c] = "done"],
           record' = record \/ record' = [record EXCEPT ![c] = "none"]
    PROVE  \A d \in Call : Custody(d)'
<1> TAKE d \in Call
<1>0. TypeOK /\ Custody(c) /\ Custody(d)
  BY DEF CustodyInv
<1>1. CASE d # c
  <2>1. /\ callState'[d] = callState[d] /\ amount'[d] = amount[d]
        /\ wire'[d] = wire[d] /\ record'[d] = record[d]
        /\ callJson' = callJson
    BY <1>0, <1>1 DEF ReconcileM4Attempt, TypeOK
  <2> QED BY <1>0, <2>1, CustodyFrame
<1>2. CASE d = c
  <2>1. /\ callState[c] = "UNKNOWN" /\ callState'[c] = "SETTLED"
        /\ amount'[c] = EvidenceAmount(c, kind)
        /\ callJson' = callJson
    BY <1>0 DEF ReconcileM4Attempt, ReconcileAdmits, TypeOK
  <2>2. /\ wire[c] # "admitted" /\ wire[c] # "idle"
        /\ amount'[c] = charge[c]
    <3>1. CASE kind = "late_usage"
      BY <1>0, <2>1, <3>1 DEF ReconcileM4Attempt, ReconcileAdmits,
         EvidenceHolds, EvidenceAmount, Custody
    <3>2. CASE kind = "not_dispatched"
      BY <1>0, <2>1, <3>2 DEF ReconcileM4Attempt, ReconcileAdmits,
         EvidenceHolds, EvidenceAmount, ProvesNoDispatch, Custody
    <3> QED BY <3>1, <3>2 DEF ReconcileM4Attempt, ReconcileAdmits, EvidenceHolds
  <2>3. /\ wire'[c] = wire[c] \/ wire'[c] = "done"
        /\ record'[c] = record[c] \/ record'[c] = "none"
    BY <1>0 DEF TypeOK
  <2> QED BY <1>0, <1>2, <2>1, <2>2, <2>3 DEF Custody
<1> QED BY <1>1, <1>2

\* Every step of the ledger, the runtime and the operator preserves Custody.
LEMMA CustodyStep == CustodyInv /\ [Next]_vars => \A d \in Call : Custody(d)'
<1> SUFFICES ASSUME CustodyInv, [Next]_vars, NEW d \in Call
             PROVE  Custody(d)'
  OBVIOUS
<1>0. TypeOK /\ Custody(d)
  BY DEF CustodyInv
<1>1. ASSUME NEW c \in Call, NEW i \in Instance, ReserveCall(c, i)
      PROVE  Custody(d)'
  <2>1. CASE d = c
    <3>1. /\ callState'[c] = "RESERVED"
          /\ wire'[c] \in {"admitted", "done"} /\ wire[c] = "idle"
          /\ UNCHANGED <<amount, callJson, record, sent, charge>>
      BY <1>0, <1>1 DEF ReserveCall, TypeOK
    <3> QED BY <1>0, <2>1, <3>1 DEF Custody
  <2>2. CASE d # c
    BY <1>0, <1>1, <2>2, CustodyFrame DEF ReserveCall, TypeOK
  <2> QED BY <2>1, <2>2
<1>2. ASSUME NEW c \in Call, Dispatch(c) PROVE Custody(d)'
  <2>1. CASE d = c
    <3>1. /\ wire[c] = "admitted" /\ wire'[c] = "sent" /\ sent' = sent \cup {c}
          /\ UNCHANGED <<callState, amount, callJson, record>>
      BY <1>0, <1>2 DEF Dispatch, TypeOK, row
    <3> QED BY <1>0, <2>1, <3>1 DEF Custody
  <2>2. CASE d # c
    <3>1. PICK v : charge' = [charge EXCEPT ![c] = v]
      BY <1>2 DEF Dispatch
    <3>2. charge'[d] = charge[d]
      BY <1>0, <2>2, <3>1 DEF TypeOK
    <3>3. /\ callState'[d] = callState[d] /\ amount'[d] = amount[d]
          /\ callJson'[d] = callJson[d] /\ wire'[d] = wire[d] /\ record'[d] = record[d]
          /\ d \in sent' <=> d \in sent
      BY <1>0, <1>2, <2>2 DEF Dispatch, TypeOK, row
    <3> QED BY <1>0, <3>2, <3>3, CustodyFrame
  <2> QED BY <2>1, <2>2
<1>3. ASSUME NEW c \in Call, BuildRecord(c) PROVE Custody(d)'
  <2>1. CASE d = c
    <3>1. /\ wire'[c] = "recorded" /\ record'[c] \in Outcome(c)
          /\ UNCHANGED <<callState, amount, callJson, sent, charge>>
      BY <1>0, <1>3 DEF BuildRecord, TypeOK, row
    <3>2. /\ wire[c] \in {"admitted", "sent"}
          /\ record'[c] = "not_dispatched" => wire[c] = "admitted"
      BY <3>1 DEF Outcome
    <3> QED BY <1>0, <2>1, <3>1, <3>2 DEF Custody
  <2>2. CASE d # c
    BY <1>0, <1>3, <2>2, CustodyFrame DEF BuildRecord, TypeOK, row
  <2> QED BY <2>1, <2>2
<1>4. ASSUME NEW c \in Call, Abandon(c) PROVE Custody(d)'
  <2>1. CASE d = c
    <3>1. /\ wire[c] # "idle" /\ wire'[c] = "done" /\ record'[c] = "none"
          /\ UNCHANGED <<callState, amount, callJson, sent, charge>>
      BY <1>0, <1>4 DEF Abandon, Finish, TypeOK, row
    <3> QED BY <1>0, <2>1, <3>1 DEF Custody
  <2>2. CASE d # c
    BY <1>0, <1>4, <2>2, CustodyFrame DEF Abandon, Finish, TypeOK, row
  <2> QED BY <2>1, <2>2
<1>5. ASSUME NEW c \in Call, SettleRoute(c) PROVE Custody(d)'
  <2>1. CASE d = c
    <3>1. /\ wire[c] = "recorded" /\ wire'[c] \in {"direct", "late"}
          /\ UNCHANGED <<callState, amount, callJson, record, sent, charge>>
      BY <1>0, <1>5 DEF SettleRoute, TypeOK, row
    <3> QED BY <1>0, <2>1, <3>1 DEF Custody
  <2>2. CASE d # c
    BY <1>0, <1>5, <2>2, CustodyFrame DEF SettleRoute, TypeOK, row
  <2> QED BY <2>1, <2>2
<1>6. ASSUME NEW c \in Call, SettleDirect(c) PROVE Custody(d)'
  <2>1. CASE d = c
    <3>1. /\ wire[c] = "direct" /\ wire'[c] = "done" /\ record'[c] = "none"
          /\ UNCHANGED <<sent, charge>>
      BY <1>0, <1>6 DEF SettleDirect, Finish, TypeOK
    <3>2. CASE UNCHANGED <<callState, amount, callJson, budget>>
      BY <1>0, <2>1, <3>1, <3>2 DEF Custody
    <3>3. ASSUME StillReserved(c), callJson' = [callJson EXCEPT ![c] = record[c]]
          PROVE  callJson'[c] = record[c] /\ callState[c] = "RESERVED"
      BY <1>0, <3>3 DEF StillReserved, TypeOK
    <3>4. CASE /\ StillReserved(c) /\ SettleRelease(c)
               /\ callJson' = [callJson EXCEPT ![c] = record[c]]
      <4>1. /\ record[c] = "not_dispatched"
            /\ callState'[c] = "SETTLED" /\ amount'[c] = 0
        BY <1>0, <3>4 DEF SettleRelease, ProvesNoDispatch, TypeOK
      <4> QED BY <1>0, <2>1, <3>1, <3>3, <3>4, <4>1 DEF Custody
    <3>5. CASE /\ StillReserved(c) /\ SettleUnknown(c)
               /\ callJson' = [callJson EXCEPT ![c] = record[c]]
      <4>1. /\ record[c] # "not_dispatched"
            /\ callState'[c] = "UNKNOWN" /\ amount' = amount
        BY <1>0, <3>5 DEF SettleUnknown, ProvesNoDispatch, TypeOK
      <4> QED BY <1>0, <2>1, <3>1, <3>3, <3>5, <4>1 DEF Custody
    <3>6. CASE /\ StillReserved(c) /\ SettleCost(c)
               /\ callJson' = [callJson EXCEPT ![c] = record[c]]
      <4>1. /\ record[c] # "not_dispatched"
            /\ callState'[c] = "SETTLED" /\ amount'[c] = charge[c]
        BY <1>0, <3>6 DEF SettleCost, ProvesNoDispatch, TypeOK
      <4> QED BY <1>0, <2>1, <3>1, <3>3, <3>6, <4>1 DEF Custody
    <3> QED BY <1>6, <3>2, <3>4, <3>5, <3>6 DEF SettleDirect
  <2>2. CASE d # c
    <3>1. /\ callState'[d] = callState[d] /\ amount'[d] = amount[d]
          /\ callJson'[d] = callJson[d]
      BY <1>0, <1>6, <2>2 DEF SettleDirect, SettleRelease, SettleUnknown,
         SettleCost, TypeOK
    <3>2. /\ wire'[d] = wire[d] /\ record'[d] = record[d]
          /\ UNCHANGED <<sent, charge>>
      BY <1>0, <1>6, <2>2 DEF SettleDirect, Finish, TypeOK
    <3> QED BY <1>0, <3>1, <3>2, CustodyFrame
  <2> QED BY <2>1, <2>2
<1>7. ASSUME NEW c \in Call, SettleLate(c) PROVE Custody(d)'
  <2>1. CASE ReconcileM4Attempt(c, LateKind(c))
    BY <1>7, <2>1, CustodyReconcile DEF SettleLate, Finish
  <2>2. CASE UNCHANGED <<row, budget>>
    <3>1. CASE d = c
      <4>1. /\ wire[c] = "late" /\ wire'[c] = "done" /\ record'[c] = "none"
            /\ UNCHANGED <<callState, amount, callJson, sent, charge>>
        BY <1>0, <1>7, <2>2 DEF SettleLate, Finish, TypeOK, row
      <4> QED BY <1>0, <3>1, <4>1 DEF Custody
    <3>2. CASE d # c
      BY <1>0, <1>7, <2>2, <3>2, CustodyFrame DEF SettleLate, Finish, TypeOK, row
    <3> QED BY <3>1, <3>2
  <2> QED BY <1>7, <2>1, <2>2 DEF SettleLate
<1>8. ASSUME NEW c \in Call, OperatorReconcile(c) PROVE Custody(d)'
  BY <1>8, CustodyReconcile DEF OperatorReconcile, runtime
<1>9. ASSUME NEW c \in Call, ReconcileM2Attempt(c) PROVE Custody(d)'
  <2>1. CASE d = c
    <3>1. /\ callJson[c] = "unknown_sent" /\ charge[c] = 0
          /\ callState'[c] = "SETTLED" /\ amount'[c] = 0
          /\ UNCHANGED <<callJson, wire, record, sent, charge>>
      BY <1>0, <1>9 DEF ReconcileM2Attempt, TypeOK, runtime
    <3> QED BY <1>0, <2>1, <3>1 DEF Custody
  <2>2. CASE d # c
    BY <1>0, <1>9, <2>2, CustodyFrame DEF ReconcileM2Attempt, TypeOK, runtime
  <2> QED BY <2>1, <2>2
<1>10. ASSUME UNCHANGED <<row, runtime>> PROVE Custody(d)'
  BY <1>0, <1>10, CustodyFrame DEF row, runtime
<1>11. ASSUME NEW h \in Run \cup Job, RevokeWork(h) PROVE Custody(d)'
  BY <1>11, CustodySweep DEF RevokeWork, Swept, runtime
<1>12. ASSUME RecoverTerminalCalls PROVE Custody(d)'
  BY <1>12, CustodySweep DEF RecoverTerminalCalls, TerminalCalls, Swept, runtime
<1>13. ASSUME RecoverOwnedWork PROVE Custody(d)'
  BY <1>13, CustodySweep DEF RecoverOwnedWork, Swept, runtime
<1>14. ASSUME NEW h \in Run \cup Job, EndWork(h) PROVE Custody(d)'
  BY <1>10, <1>14 DEF EndWork
<1>15. ASSUME NEW i \in Instance, StopInstance(i) PROVE Custody(d)'
  BY <1>10, <1>15 DEF StopInstance
<1>16. ASSUME NEW e \in Experiment, OperatorHalt(e) PROVE Custody(d)'
  BY <1>10, <1>16 DEF OperatorHalt
<1>17. CASE UNCHANGED vars
  BY <1>10, <1>17 DEF vars, row, runtime
<1> QED
  BY <1>1, <1>2, <1>3, <1>4, <1>5, <1>6, <1>7, <1>8, <1>9, <1>11, <1>12,
     <1>13, <1>14, <1>15, <1>16, <1>17 DEF Next, RuntimeStep

\* Custody holds in every reachable state.
THEOREM CustodyHolds == Spec => []CustodyInv
<1>1. Init /\ TypeOK => CustodyInv
  BY DEF Init, Custody, CustodyInv
<1>2. CustodyInv /\ TypeOK' /\ [Next]_vars => CustodyInv'
  BY CustodyStep DEF CustodyInv
<1> QED BY <1>1, <1>2, TypeCorrect, PTL DEF Spec

\* A settled call is paid at the provider's charge: neither a sweep nor an
\* operator writes off a request that was sent.
SettledAtCharge ==
    \A c \in Call : callState[c] = "SETTLED" => amount[c] = charge[c]

\* SettleCall, both reconciliations and the sweeps together never settle a call
\* at anything but its charge.
THEOREM SettlementExact == Spec => []SettledAtCharge
<1>1. CustodyInv => SettledAtCharge
  BY DEF CustodyInv, Custody, SettledAtCharge
<1> QED BY <1>1, CustodyHolds, PTL

-----------------------------------------------------------------------------
(* CallLedger implements PaidCall *)

\* The empty ledger holds nothing.
LEMMA AbstractInit == Init => Abstract!Init
BY DEF Init, Abstract!Init, Phase

\* A step that keeps every phase, charge and amount is a stutter of PaidCall.
LEMMA PhaseFrame ==
    ASSUME \A c \in Call : Phase(c)' = Phase(c), UNCHANGED <<charge, amount>>
    PROVE  UNCHANGED Abstract!vars
BY DEF Abstract!vars

\* A step that settles one held call at its charge closes the hold.
LEMMA PhaseClose ==
    ASSUME TypeOK, NEW c \in Call,
           callState[c] \in {"RESERVED", "UNKNOWN"},
           callState' = [callState EXCEPT ![c] = "SETTLED"],
           amount' = [amount EXCEPT ![c] = charge[c]],
           charge' = charge
    PROVE  Abstract!Close(c)
<1>1. Phase(c) = "held" /\ Phase(c)' = "closed"
  BY DEF Phase, TypeOK
<1>2. \A d \in Call : d # c => Phase(d)' = Phase(d)
  BY DEF Phase, TypeOK
<1> QED BY <1>1, <1>2 DEF Abstract!Close

\* Each step of the ledger holds, spends or closes one call, or is a stutter.
LEMMA AbstractStep ==
    CustodyInv /\ CustodyInv' /\ [Next]_vars => [Abstract!Next]_(Abstract!vars)
<1> SUFFICES ASSUME CustodyInv, CustodyInv', [Next]_vars
             PROVE  [Abstract!Next]_(Abstract!vars)
  OBVIOUS
<1>0. TypeOK /\ \A c \in Call : Custody(c) /\ Custody(c)'
  BY DEF CustodyInv
<1>1. ASSUME NEW c \in Call, NEW i \in Instance, ReserveCall(c, i)
      PROVE  Abstract!Hold(c)
  <2>1. Phase(c) = "none" /\ Phase(c)' = "held"
    BY <1>0, <1>1 DEF ReserveCall, Phase, TypeOK
  <2>2. \A d \in Call : d # c => Phase(d)' = Phase(d)
    BY <1>0, <1>1 DEF ReserveCall, Phase, TypeOK
  <2> QED BY <1>1, <2>1, <2>2 DEF ReserveCall, Abstract!Hold
<1>2. ASSUME NEW c \in Call, Dispatch(c) PROVE Abstract!Spend(c)
  <2>1. wire[c] = "admitted" /\ callState[c] \in {"RESERVED", "UNKNOWN"}
    BY <1>0, <1>2 DEF Dispatch, Custody, TypeOK, CallState
  <2>2. Phase(c) = "held" /\ charge[c] = 0
    BY <1>0, <2>1 DEF Phase, Custody
  <2>3. \A d \in Call : Phase(d)' = Phase(d)
    BY <1>2 DEF Dispatch, row, Phase
  <2>4. charge' \in [Call -> Nat] /\ \A d \in Call \ {c} : charge'[d] = charge[d]
    BY <1>0, <1>2 DEF Dispatch, TypeOK
  <2> QED BY <1>2, <2>2, <2>3, <2>4 DEF Dispatch, row, Abstract!Spend
<1>3. ASSUME UNCHANGED <<callState, amount, charge>>
      PROVE  UNCHANGED Abstract!vars
  BY <1>3, PhaseFrame DEF Phase
<1>4. ASSUME NEW c \in Call, SettleDirect(c)
      PROVE  Abstract!Close(c) \/ UNCHANGED Abstract!vars
  <2>1. CASE StillReserved(c) /\ SettleRelease(c)
    <3>1. charge[c] = 0
      BY <1>0, <2>1 DEF SettleRelease, ProvesNoDispatch, Custody
    <3> QED BY <1>0, <1>4, <2>1, <3>1, PhaseClose
        DEF SettleDirect, SettleRelease, StillReserved
  <2>2. CASE StillReserved(c) /\ SettleUnknown(c)
    <3>1. \A d \in Call : Phase(d)' = Phase(d)
      BY <1>0, <2>2 DEF SettleUnknown, StillReserved, Phase, TypeOK
    <3> QED BY <1>4, <2>2, <3>1, PhaseFrame DEF SettleDirect, SettleUnknown
  <2>3. CASE StillReserved(c) /\ SettleCost(c)
    BY <1>0, <1>4, <2>3, PhaseClose DEF SettleDirect, SettleCost, StillReserved
  <2>4. CASE UNCHANGED <<callState, amount, callJson, budget>>
    BY <1>3, <1>4, <2>4 DEF SettleDirect
  <2> QED BY <1>4, <2>1, <2>2, <2>3, <2>4 DEF SettleDirect
<1>5. ASSUME NEW c \in Call, NEW kind, ReconcileM4Attempt(c, kind),
             charge' = charge
      PROVE  Abstract!Close(c)
  <2>1. EvidenceAmount(c, kind) = charge[c]
    BY <1>0, <1>5 DEF ReconcileM4Attempt, ReconcileAdmits, EvidenceHolds,
       EvidenceAmount, ProvesNoDispatch, Custody
  <2> QED BY <1>0, <1>5, <2>1, PhaseClose DEF ReconcileM4Attempt, ReconcileAdmits
<1>6. ASSUME NEW c \in Call, ReconcileM2Attempt(c) PROVE Abstract!Close(c)
  BY <1>0, <1>6, PhaseClose DEF ReconcileM2Attempt, runtime
<1>7. ASSUME NEW S \in SUBSET InFlight, MarkUnknown(S), UNCHANGED Swept
      PROVE  UNCHANGED Abstract!vars
  <2>1. \A c \in Call : Phase(c)' = Phase(c)
    BY <1>7 DEF MarkUnknown, InFlight, Phase
  <2> QED BY <1>7, <2>1, PhaseFrame DEF Swept, runtime
<1>8. ASSUME NEW c \in Call, RuntimeStep(c)
      PROVE  Abstract!Next \/ UNCHANGED Abstract!vars
  <2>1. CASE BuildRecord(c) \/ Abandon(c) \/ SettleRoute(c)
    BY <1>3, <2>1 DEF BuildRecord, Abandon, SettleRoute, row
  <2>2. CASE SettleLate(c)
    BY <1>3, <1>5, <2>2 DEF SettleLate, row, Abstract!Next
  <2> QED BY <1>1, <1>2, <1>4, <1>8, <2>1, <2>2 DEF RuntimeStep, Abstract!Next
<1>9. ASSUME NEW h \in Run \cup Job, EndWork(h) \/ RevokeWork(h)
      PROVE  UNCHANGED Abstract!vars
  BY <1>3, <1>7, <1>9 DEF EndWork, RevokeWork, row, runtime
<1>10. ASSUME RecoverTerminalCalls \/ RecoverOwnedWork
       PROVE  UNCHANGED Abstract!vars
  BY <1>7, <1>10 DEF RecoverTerminalCalls, RecoverOwnedWork, TerminalCalls
<1>11. ASSUME \/ \E i \in Instance : StopInstance(i)
              \/ \E e \in Experiment : OperatorHalt(e)
              \/ UNCHANGED vars
       PROVE  UNCHANGED Abstract!vars
  BY <1>3, <1>11 DEF StopInstance, OperatorHalt, vars, row, runtime
<1>12. ASSUME NEW c \in Call, OperatorReconcile(c) PROVE Abstract!Next
  BY <1>5, <1>12 DEF OperatorReconcile, runtime, Abstract!Next
<1> QED
  BY <1>6, <1>8, <1>9, <1>10, <1>11, <1>12 DEF Next, Abstract!Next

\* Whatever the sweeps, the operator and a dying runtime do, each attempt is
\* held before it is dispatched, dispatched only while it is held, and closed
\* once, at what the provider charged.
THEOREM LedgerImplementsPaidCall == Spec => HoldsUntilPaid
BY AbstractInit, AbstractStep, CustodyHolds, PTL
   DEF HoldsUntilPaid, Spec, Abstract!Spec

-----------------------------------------------------------------------------
(* Halts and lanes *)

\* No step but the admission of a call puts a call in flight.
LEMMA InFlightShrinks ==
    ASSUME TypeOK, [Next]_vars,
           \A c \in Call, i \in Instance : ~ ReserveCall(c, i)
    PROVE  InFlight' \subseteq InFlight
<1>1. ASSUME NEW c \in Call, SettleDirect(c) PROVE InFlight' \subseteq InFlight
  BY <1>1 DEF SettleDirect, SettleRelease, SettleUnknown, SettleCost, TypeOK,
     InFlight
<1>2. ASSUME NEW c \in Call, NEW kind, ReconcileM4Attempt(c, kind)
      PROVE  InFlight' \subseteq InFlight
  BY <1>2 DEF ReconcileM4Attempt, TypeOK, InFlight
<1>3. ASSUME NEW c \in Call, ReconcileM2Attempt(c)
      PROVE  InFlight' \subseteq InFlight
  BY <1>3 DEF ReconcileM2Attempt, TypeOK, InFlight
<1>4. ASSUME NEW S, MarkUnknown(S) PROVE InFlight' \subseteq InFlight
  BY <1>4 DEF MarkUnknown, InFlight
<1>5. ASSUME callState' = callState PROVE InFlight' \subseteq InFlight
  BY <1>5 DEF InFlight
<1>6. ASSUME NEW c \in Call, RuntimeStep(c) PROVE InFlight' \subseteq InFlight
  <2>1. CASE Dispatch(c) \/ BuildRecord(c) \/ Abandon(c) \/ SettleRoute(c)
    BY <1>5, <2>1 DEF Dispatch, BuildRecord, Abandon, SettleRoute, row
  <2>2. CASE SettleLate(c)
    BY <1>2, <1>5, <2>2 DEF SettleLate, row
  <2> QED BY <1>1, <1>6, <2>1, <2>2 DEF RuntimeStep
<1>7. ASSUME NEW c \in Call, OperatorReconcile(c)
      PROVE  InFlight' \subseteq InFlight
  BY <1>2, <1>7 DEF OperatorReconcile
<1>8. ASSUME \/ RecoverTerminalCalls \/ RecoverOwnedWork
             \/ \E h \in Run \cup Job : RevokeWork(h)
      PROVE  InFlight' \subseteq InFlight
  BY <1>4, <1>8 DEF RecoverTerminalCalls, RecoverOwnedWork, RevokeWork
<1>9. ASSUME \/ \E h \in Run \cup Job : EndWork(h)
             \/ \E i \in Instance : StopInstance(i)
             \/ \E e \in Experiment : OperatorHalt(e)
             \/ UNCHANGED vars
      PROVE  InFlight' \subseteq InFlight
  BY <1>5, <1>9 DEF EndWork, StopInstance, OperatorHalt, row, vars
<1> QED BY <1>3, <1>6, <1>7, <1>8, <1>9 DEF Next

\* Two requests are never in flight in one lane, whichever of the two admission
\* rules let them in.
THEOREM LanesStayExclusive == Spec => []LanesExclusive
<1>1. Init => LanesExclusive
  BY DEF Init, LanesExclusive, InFlight
<1>2. TypeOK /\ LanesExclusive /\ [Next]_vars => LanesExclusive'
  <2> SUFFICES ASSUME TypeOK, LanesExclusive, [Next]_vars
               PROVE  LanesExclusive'
    OBVIOUS
  <2>1. \A c : Foreground(c)' = Foreground(c)
    BY DEF Foreground
  <2>2. ASSUME NEW c \in Call, NEW i \in Instance, ReserveCall(c, i)
        PROVE  LanesExclusive'
    <3>1. InFlight' = InFlight \cup {c}
      BY <2>2 DEF ReserveCall, InFlight, TypeOK
    <3>2. \A d \in InFlight : Foreground(d) # Foreground(c)
      BY <2>2 DEF ReserveCall, BudgetAdmits, LaneFree
    <3> QED BY <2>1, <3>1, <3>2 DEF LanesExclusive
  <2>3. CASE \A c \in Call, i \in Instance : ~ ReserveCall(c, i)
    BY <2>1, <2>3, InFlightShrinks DEF LanesExclusive
  <2> QED BY <2>2, <2>3
<1> QED BY <1>1, <1>2, TypeCorrect, PTL DEF Spec

\* A sweep halts the budget of every call it marks.
LEMMA SweepHalts ==
    ASSUME TypeOK, UnknownHalts, NEW scope \in SUBSET Call,
           NEW S \in SUBSET scope, MarkUnknown(S), HaltForOwnerLoss(scope)
    PROVE  UnknownHalts'
<1> SUFFICES ASSUME NEW c \in Call, callState'[c] = "UNKNOWN"
             PROVE  halted'[Exp(c)] # None
  BY DEF UnknownHalts, Exp
<1>1. Exp(c) \in Experiment
  BY RequestTypes
<1>2. CASE c \in S
  BY <1>1, <1>2 DEF HaltForOwnerLoss
<1>3. CASE c \notin S
  <2>1. callState[c] = "UNKNOWN"
    BY <1>3 DEF MarkUnknown
  <2> QED BY <1>1, <2>1 DEF UnknownHalts, HaltForOwnerLoss
<1> QED BY <1>2, <1>3

\* A call with an unknown cost keeps its experiment halted until that cost, and
\* every other unknown cost of the experiment, is resolved.
THEOREM UnknownStaysHalted == Spec => []UnknownHalts
<1>1. Init => UnknownHalts
  BY DEF Init, UnknownHalts
<1>2. TypeOK /\ UnknownHalts /\ [Next]_vars => UnknownHalts'
  <2> SUFFICES ASSUME TypeOK, UnknownHalts, [Next]_vars PROVE UnknownHalts'
    OBVIOUS
  <2>1. ASSUME NEW c \in Call, NEW i \in Instance, ReserveCall(c, i)
        PROVE  UnknownHalts'
    BY <2>1 DEF ReserveCall, UnknownHalts, TypeOK, Exp
  <2>2. ASSUME UNCHANGED <<callState, halted>> PROVE UnknownHalts'
    BY <2>2 DEF UnknownHalts, Exp
  <2>3. ASSUME NEW c \in Call, SettleDirect(c) PROVE UnknownHalts'
    <3>1. CASE SettleRelease(c)
      BY <3>1 DEF SettleRelease, UnknownHalts, TypeOK, Exp
    <3>2. CASE SettleUnknown(c)
      <4>1. Exp(c) \in Experiment
        BY RequestTypes
      <4> QED BY <3>2, <4>1 DEF SettleUnknown, UnknownHalts, TypeOK, Exp
    <3>3. CASE SettleCost(c)
      <4>1. Exp(c) \in Experiment
        BY RequestTypes
      <4> QED BY <3>3, <4>1 DEF SettleCost, UnknownHalts, TypeOK, Exp
    <3>4. CASE UNCHANGED <<callState, amount, callJson, budget>>
      BY <2>2, <3>4 DEF budget
    <3> QED BY <2>3, <3>1, <3>2, <3>3, <3>4 DEF SettleDirect
  <2>4. ASSUME NEW c \in Call, NEW kind, ReconcileM4Attempt(c, kind)
        PROVE  UnknownHalts'
    <3> SUFFICES ASSUME NEW d \in Call, callState'[d] = "UNKNOWN"
                 PROVE  halted'[Exp(d)] # None
      BY DEF UnknownHalts, Exp
    <3>1. callState[d] = "UNKNOWN" /\ halted[Exp(d)] # None
      BY <2>4 DEF ReconcileM4Attempt, UnknownHalts, TypeOK
    <3>2. Exp(d) \in Experiment /\ Exp(c) \in Experiment
      BY RequestTypes
    <3>3. CASE Exp(d) = Exp(c)
      <4>1. ~ CostsKnown(Exp(c))
        BY <3>3 DEF CostsKnown
      <4>2. \A r : ClearResolved(Exp(c), r) = r
        BY <4>1 DEF ClearResolved
      <4> QED BY <2>4, <3>1, <3>2, <3>3, <4>2 DEF ReconcileM4Attempt, TypeOK
    <3>4. CASE Exp(d) # Exp(c)
      BY <2>4, <3>1, <3>2, <3>4 DEF ReconcileM4Attempt, TypeOK
    <3> QED BY <3>3, <3>4
  <2>5. ASSUME NEW c \in Call, ReconcileM2Attempt(c) PROVE UnknownHalts'
    <3> SUFFICES ASSUME NEW d \in Call, callState'[d] = "UNKNOWN"
                 PROVE  halted'[Exp(d)] # None
      BY DEF UnknownHalts, Exp
    <3>1. d # c /\ callState[d] = "UNKNOWN"
      BY <2>5 DEF ReconcileM2Attempt, TypeOK
    <3>2. Exp(d) # Exp(c)
      BY <2>5, <3>1 DEF ReconcileM2Attempt
    <3> QED BY <2>5, <3>1, <3>2 DEF ReconcileM2Attempt, UnknownHalts, TypeOK
  <2>6. ASSUME NEW h \in Run \cup Job, RevokeWork(h) PROVE UnknownHalts'
    BY <2>6, SweepHalts DEF RevokeWork
  <2>7. ASSUME RecoverTerminalCalls PROVE UnknownHalts'
    BY <2>7, SweepHalts DEF RecoverTerminalCalls, TerminalCalls, InFlight
  <2>8. ASSUME RecoverOwnedWork PROVE UnknownHalts'
    BY <2>8, SweepHalts DEF RecoverOwnedWork, InFlight
  <2>9. ASSUME NEW e \in Experiment, OperatorHalt(e) PROVE UnknownHalts'
    BY <2>9, NoneIsNoHalt DEF OperatorHalt, row, UnknownHalts, TypeOK, Exp, Halt
  <2>10. ASSUME NEW c \in Call, RuntimeStep(c) PROVE UnknownHalts'
    <3>1. CASE Dispatch(c) \/ BuildRecord(c) \/ Abandon(c) \/ SettleRoute(c)
      BY <2>2, <3>1 DEF Dispatch, BuildRecord, Abandon, SettleRoute, row, budget
    <3>2. CASE SettleLate(c)
      BY <2>2, <2>4, <3>2 DEF SettleLate, row, budget
    <3> QED BY <2>1, <2>3, <2>10, <3>1, <3>2 DEF RuntimeStep
  <2>11. CASE \/ \E h \in Run \cup Job : EndWork(h)
              \/ \E i \in Instance : StopInstance(i)
              \/ UNCHANGED vars
    BY <2>2, <2>11 DEF EndWork, StopInstance, row, budget, vars
  <2>12. CASE \E c \in Call : OperatorReconcile(c)
    BY <2>4, <2>12 DEF OperatorReconcile
  <2> QED
    BY <2>5, <2>6, <2>7, <2>8, <2>9, <2>10, <2>11, <2>12 DEF Next
<1> QED BY <1>1, <1>2, TypeCorrect, PTL DEF Spec
-----------------------------------------------------------------------------
(* Overruns *)

Costly(c) == callState[c] = "SETTLED" /\ amount[c] > Upper(c)
Overrun(e) == \E c \in Call : Exp(c) = e /\ Costly(c)

\* What OverrunHalts rests on: only an overrun lifts an experiment above its
\* cap, and an older experiment never has an overrun beside a call that a
\* reconciliation could still close, because it admits one call at a time.
OverrunInv ==
    /\ \A e \in Experiment : known[e] + reserved[e] > Limit[e].cap => Overrun(e)
    /\ \A e \in Experiment : Overrun(e) => halted[e] # None
    /\ \A c, d \in Unresolved : Exp(c) = Exp(d) /\ Exp(c) # M3 => c = d
    /\ \A c \in Unresolved : Exp(c) # M3 => ~ Overrun(Exp(c))

\* Steps that settle no call, admit none and clear no halt.
LEMMA OverrunFrame ==
    ASSUME OverrunInv, amount' = amount, known' = known, reserved' = reserved,
           Unresolved' = Unresolved,
           \A c \in Call : callState'[c] = "SETTLED" <=> callState[c] = "SETTLED",
           \A e \in Experiment : halted[e] # None => halted'[e] # None
    PROVE  OverrunInv'
<1>1. ASSUME NEW c \in Call PROVE Costly(c)' <=> Costly(c)
  BY DEF Costly, Upper
<1>2. ASSUME NEW e PROVE Overrun(e)' <=> Overrun(e)
  BY <1>1, Zenon DEF Overrun, Exp
<1>3. \A e \in Experiment : (known[e] + reserved[e] > Limit[e].cap => Overrun(e))'
  BY <1>2 DEF OverrunInv
<1>4. \A e \in Experiment : (Overrun(e) => halted[e] # None)'
  BY <1>2 DEF OverrunInv
<1>5. \A c, d \in Unresolved' : Exp(c) = Exp(d) /\ Exp(c) # M3 => c = d
  BY DEF OverrunInv
<1>6. \A c \in Unresolved' : Exp(c) # M3 => ~ Overrun(Exp(c))'
  BY <1>2 DEF OverrunInv
<1> QED BY <1>3, <1>4, <1>5, <1>6 DEF OverrunInv, Exp

\* A sweep changes RESERVED to UNKNOWN and adds halts.
LEMMA OverrunSweep ==
    ASSUME TypeOK, OverrunInv, NEW scope \in SUBSET Call, NEW S \in SUBSET InFlight,
           MarkUnknown(S), HaltForOwnerLoss(scope),
           UNCHANGED <<amount, known, reserved>>
    PROVE  OverrunInv'
<1>1. \A c \in Call : callState'[c] = "SETTLED" <=> callState[c] = "SETTLED"
  BY DEF MarkUnknown, InFlight
<1>2. Unresolved' = Unresolved
  BY DEF MarkUnknown, InFlight, Unresolved
<1>3. \A e \in Experiment : halted[e] # None => halted'[e] # None
  BY DEF HaltForOwnerLoss
<1> QED BY <1>1, <1>2, <1>3, OverrunFrame

\* An unresolved call is settled at v: above its cap the experiment can only be
\* if v or an earlier cost overran.
LEMMA OverrunClose ==
    ASSUME TypeOK, OverrunInv, NEW c \in Unresolved, NEW v \in Nat,
           callState' = [callState EXCEPT ![c] = "SETTLED"],
           amount' = [amount EXCEPT ![c] = v],
           known' = [known EXCEPT ![Exp(c)] = @ + v],
           reserved' = [reserved EXCEPT ![Exp(c)] = @ - Upper(c)],
           \A e \in Experiment \ {Exp(c)} : halted'[e] = halted[e],
           Overrun(Exp(c))' => halted'[Exp(c)] # None
    PROVE  OverrunInv'
<1>1. /\ c \in Call /\ Exp(c) \in Experiment /\ Upper(c) \in Nat
      /\ callState[c] # "SETTLED" /\ callState'[c] = "SETTLED" /\ amount'[c] = v
  BY RequestTypes DEF Unresolved, TypeOK
<1>2. ASSUME NEW d \in Call, d # c
      PROVE  /\ callState'[d] = callState[d] /\ amount'[d] = amount[d]
             /\ Costly(d)' <=> Costly(d)
  <2>1. callState'[d] = callState[d] /\ amount'[d] = amount[d]
    BY <1>2 DEF TypeOK
  <2> QED BY <2>1 DEF Costly, Upper
<1>3. Costly(c)' <=> v > Upper(c)
  BY <1>1 DEF Costly, Upper
<1>4. ASSUME NEW e, Overrun(e) PROVE Overrun(e)'
  <2>1. PICK d \in Call : Exp(d) = e /\ Costly(d)
    BY <1>4 DEF Overrun
  <2>2. d # c
    BY <1>1, <2>1 DEF Costly
  <2> QED BY <1>2, <2>1, <2>2 DEF Overrun, Exp
<1>5. ASSUME NEW e, e # Exp(c), Overrun(e)' PROVE Overrun(e)
  <2>1. PICK d \in Call : Exp(d) = e /\ Costly(d)'
    BY <1>5 DEF Overrun, Exp
  <2>2. d # c
    BY <1>5, <2>1
  <2> QED BY <1>2, <2>1, <2>2 DEF Overrun
<1>6. ASSUME NEW e \in Experiment, known'[e] + reserved'[e] > Limit[e].cap
      PROVE  Overrun(e)'
  <2>1. CASE e # Exp(c)
    <3>1. known'[e] = known[e] /\ reserved'[e] = reserved[e]
      BY <2>1 DEF TypeOK
    <3> QED BY <1>4, <1>6, <3>1 DEF OverrunInv
  <2>2. CASE e = Exp(c) /\ v > Upper(c)
    BY <1>1, <1>3, <2>2 DEF Overrun, Exp
  <2>3. CASE e = Exp(c) /\ ~ (v > Upper(c))
    <3>1. known[e] \in Nat /\ reserved[e] \in Int /\ Limit[e].cap \in Nat
      BY DEF TypeOK
    <3>2. known'[e] = known[e] + v /\ reserved'[e] = reserved[e] - Upper(c)
      BY <1>1, <2>3 DEF TypeOK
    <3>3. known[e] + reserved[e] > Limit[e].cap
      BY <1>1, <1>6, <2>3, <3>1, <3>2
    <3> QED BY <1>4, <3>3 DEF OverrunInv
  <2> QED BY <2>1, <2>2, <2>3
<1>7. ASSUME NEW e \in Experiment, Overrun(e)' PROVE halted'[e] # None
  <2>1. CASE e = Exp(c)
    BY <1>7, <2>1
  <2>2. CASE e # Exp(c)
    <3>1. halted[e] # None
      BY <1>5, <1>7, <2>2 DEF OverrunInv
    <3> QED BY <2>2, <3>1
  <2> QED BY <2>1, <2>2
<1>8. Unresolved' = Unresolved \ {c}
  BY <1>1, <1>2 DEF Unresolved
<1>9. ASSUME NEW d \in Unresolved', Exp(d) # M3 PROVE ~ Overrun(Exp(d))'
  <2>1. d \in Unresolved /\ d # c
    BY <1>8
  <2>2. Exp(d) # Exp(c)
    BY <1>9, <2>1 DEF OverrunInv
  <2>3. ~ Overrun(Exp(d))
    BY <1>9, <2>1 DEF OverrunInv
  <2> QED BY <1>5, <2>2, <2>3
<1>10. \A d, f \in Unresolved' : Exp(d) = Exp(f) /\ Exp(d) # M3 => d = f
  BY <1>8 DEF OverrunInv
<1> QED BY <1>6, <1>7, <1>9, <1>10 DEF OverrunInv, Exp

\* A call is admitted below the cap and without a halt; by an older experiment
\* only if nothing is in flight.
LEMMA OverrunReserve ==
    ASSUME TypeOK, UnknownHalts, OverrunInv,
           NEW c \in Call, NEW i \in Instance, ReserveCall(c, i)
    PROVE  OverrunInv'
<1>1. /\ callState[c] = "NONE" /\ callState' = [callState EXCEPT ![c] = "RESERVED"]
      /\ reserved' = [reserved EXCEPT ![Exp(c)] = @ + Upper(c)]
      /\ amount' = amount /\ known' = known /\ halted' = halted
  BY DEF ReserveCall
<1>2. /\ halted[Exp(c)] = None
      /\ known[Exp(c)] + reserved[Exp(c)] + Upper(c) <= Limit[Exp(c)].cap
      /\ Exp(c) # M3 => InFlight = {}
  BY DEF ReserveCall, BudgetAdmits, ExperimentAdmits
<1>3. Exp(c) \in Experiment /\ Upper(c) \in Nat
  BY RequestTypes
<1>4. ASSUME NEW d \in Call PROVE Costly(d)' <=> Costly(d)
  <2>1. callState'[d] = "SETTLED" <=> callState[d] = "SETTLED"
    BY <1>1 DEF TypeOK
  <2> QED BY <1>1, <2>1 DEF Costly, Upper
<1>5. ASSUME NEW e PROVE Overrun(e)' <=> Overrun(e)
  BY <1>4, Zenon DEF Overrun, Exp
<1>6. ~ Overrun(Exp(c))
  BY <1>2, <1>3 DEF OverrunInv
<1>7. Unresolved' = Unresolved \cup {c}
  BY <1>1 DEF Unresolved, TypeOK
<1>8. ASSUME Exp(c) # M3, NEW d \in Unresolved PROVE Exp(d) # Exp(c)
  <2>1. d \in Call /\ callState[d] = "UNKNOWN"
    BY <1>2, <1>8 DEF Unresolved, InFlight
  <2> QED BY <1>2, <2>1 DEF UnknownHalts
<1>9. ASSUME NEW e \in Experiment, known'[e] + reserved'[e] > Limit[e].cap
      PROVE  Overrun(e)'
  <2>1. e # Exp(c)
    <3>1. known[Exp(c)] \in Nat /\ reserved[Exp(c)] \in Int /\ Limit[Exp(c)].cap \in Nat
      BY <1>3 DEF TypeOK
    <3>2. known'[Exp(c)] = known[Exp(c)] /\ reserved'[Exp(c)] = reserved[Exp(c)] + Upper(c)
      BY <1>1, <1>3 DEF TypeOK
    <3> QED BY <1>2, <1>3, <1>9, <3>1, <3>2
  <2>2. known'[e] = known[e] /\ reserved'[e] = reserved[e]
    BY <1>1, <2>1 DEF TypeOK
  <2> QED BY <1>5, <1>9, <2>2 DEF OverrunInv
<1>10. \A e \in Experiment : Overrun(e)' => halted'[e] # None
  BY <1>1, <1>5 DEF OverrunInv
<1>11. \A d, f \in Unresolved' : Exp(d) = Exp(f) /\ Exp(d) # M3 => d = f
  BY <1>7, <1>8 DEF OverrunInv
<1>12. \A d \in Unresolved' : Exp(d) # M3 => ~ Overrun(Exp(d))'
  BY <1>5, <1>6, <1>7 DEF OverrunInv
<1> QED BY <1>9, <1>10, <1>11, <1>12 DEF OverrunInv, Exp

\* Every reconciliation looks at what has overrun before it clears a halt.
LEMMA OverrunReconcile ==
    ASSUME TypeOK, OverrunInv, NEW c \in Call, NEW kind, ReconcileM4Attempt(c, kind)
    PROVE  OverrunInv'
<1>1. PICK v : v = EvidenceAmount(c, kind)
  OBVIOUS
<1>2. v \in Nat /\ c \in Unresolved
  BY <1>1 DEF EvidenceAmount, ReconcileM4Attempt, ReconcileAdmits, Unresolved, TypeOK
<1>3. /\ callState' = [callState EXCEPT ![c] = "SETTLED"]
      /\ amount' = [amount EXCEPT ![c] = v]
      /\ known' = [known EXCEPT ![Exp(c)] = @ + v]
      /\ reserved' = [reserved EXCEPT ![Exp(c)] = @ - Upper(c)]
  BY <1>1 DEF ReconcileM4Attempt
<1>4. PICK reason :
          /\ halted' = [halted EXCEPT ![Exp(c)] = ClearResolved(Exp(c), reason)]
          /\ reason = IF Overruns(c, v) \/ known'[Exp(c)] + reserved'[Exp(c)] > Limit[Exp(c)].cap
                        THEN "COST_EXCEEDED_RESERVATION" ELSE halted[Exp(c)]
  BY <1>1 DEF ReconcileM4Attempt
<1>5. Exp(c) \in Experiment /\ halted[Exp(c)] \in Halt \cup {None}
  BY RequestTypes DEF TypeOK
<1>6. halted'[Exp(c)] = ClearResolved(Exp(c), reason)
  BY <1>4, <1>5 DEF TypeOK
<1>7. ASSUME Overrun(Exp(c))' PROVE halted'[Exp(c)] # None
  <2>1. PICK d \in Call : Exp(d) = Exp(c) /\ Costly(d)'
    BY <1>7 DEF Overrun, Exp
  <2>2. ~ CostsCovered(Exp(c))
    BY <2>1 DEF CostsCovered, Overruns, Costly, Upper
  <2>3. ClearResolved(Exp(c), reason) = reason
    BY <2>2 DEF ClearResolved
  <2>4. reason # None
    <3>1. CASE d = c
      <4>1. Overruns(c, v)
        BY <1>2, <1>3, <2>1, <3>1 DEF Costly, Overruns, Upper, TypeOK
      <4> QED BY <1>4, <4>1
    <3>2. CASE d # c
      <4>1. Costly(d)
        BY <1>3, <2>1, <3>2 DEF Costly, Upper, TypeOK
      <4>2. halted[Exp(c)] # None
        BY <1>5, <2>1, <4>1 DEF Overrun, OverrunInv
      <4> QED BY <1>4, <4>2
    <3> QED BY <3>1, <3>2
  <2> QED BY <1>6, <2>3, <2>4
<1>8. \A e \in Experiment \ {Exp(c)} : halted'[e] = halted[e]
  BY <1>4 DEF TypeOK
<1> QED BY <1>2, <1>3, <1>7, <1>8, OverrunClose

LEMMA OverrunSettle ==
    ASSUME TypeOK, OverrunInv, NEW c \in Call, SettleDirect(c)
    PROVE  OverrunInv'
<1>1. Exp(c) \in Experiment /\ charge[c] \in Nat /\ Upper(c) \in Nat
  BY RequestTypes DEF TypeOK
<1>2. CASE StillReserved(c) /\ SettleRelease(c)
  <2>1. c \in Unresolved
    BY <1>2 DEF StillReserved, Unresolved
  <2>2. /\ callState' = [callState EXCEPT ![c] = "SETTLED"]
        /\ amount' = [amount EXCEPT ![c] = 0]
        /\ reserved' = [reserved EXCEPT ![Exp(c)] = @ - Upper(c)]
        /\ known' = known /\ halted' = halted
    BY <1>2 DEF SettleRelease
  <2>3. known' = [known EXCEPT ![Exp(c)] = @ + 0]
    BY <1>1, <2>2 DEF TypeOK
  <2>4. ASSUME Overrun(Exp(c))' PROVE halted'[Exp(c)] # None
    <3>1. PICK d \in Call : Exp(d) = Exp(c) /\ Costly(d)'
      BY <2>4 DEF Overrun, Exp
    <3>2. d # c
      BY <1>1, <2>2, <3>1 DEF Costly, Upper, TypeOK
    <3>3. Costly(d)
      BY <2>2, <3>1, <3>2 DEF Costly, Upper, TypeOK
    <3> QED BY <1>1, <2>2, <3>1, <3>3 DEF Overrun, OverrunInv
  <2> QED BY <2>1, <2>2, <2>3, <2>4, OverrunClose
<1>3. CASE StillReserved(c) /\ SettleUnknown(c)
  <2>1. /\ callState[c] = "RESERVED" /\ callState' = [callState EXCEPT ![c] = "UNKNOWN"]
        /\ amount' = amount /\ known' = known /\ reserved' = reserved
        /\ halted' = [halted EXCEPT ![Exp(c)] = "COST_UNKNOWN"]
    BY <1>3 DEF StillReserved, SettleUnknown
  <2>2. Unresolved' = Unresolved
    BY <2>1 DEF Unresolved, TypeOK
  <2>3. \A d \in Call : callState'[d] = "SETTLED" <=> callState[d] = "SETTLED"
    BY <2>1 DEF TypeOK
  <2>4. \A e \in Experiment : halted[e] # None => halted'[e] # None
    BY <2>1 DEF TypeOK
  <2> QED BY <2>1, <2>2, <2>3, <2>4, OverrunFrame
<1>4. CASE StillReserved(c) /\ SettleCost(c)
  <2>1. c \in Unresolved
    BY <1>4 DEF StillReserved, Unresolved
  <2>2. /\ callState' = [callState EXCEPT ![c] = "SETTLED"]
        /\ amount' = [amount EXCEPT ![c] = charge[c]]
        /\ known' = [known EXCEPT ![Exp(c)] = @ + charge[c]]
        /\ reserved' = [reserved EXCEPT ![Exp(c)] = @ - Upper(c)]
        /\ halted' = IF Overruns(c, charge[c])
                       THEN [halted EXCEPT ![Exp(c)] = "COST_EXCEEDED_RESERVATION"]
                       ELSE halted
    BY <1>4 DEF SettleCost
  <2>3. ASSUME Overrun(Exp(c))' PROVE halted'[Exp(c)] # None
    <3>1. PICK d \in Call : Exp(d) = Exp(c) /\ Costly(d)'
      BY <2>3 DEF Overrun, Exp
    <3>2. CASE d = c
      <4>1. Overruns(c, charge[c])
        BY <2>2, <3>1, <3>2 DEF Costly, Upper, Overruns, TypeOK
      <4> QED BY <1>1, <2>2, <4>1 DEF TypeOK
    <3>3. CASE d # c
      <4>1. Costly(d)
        BY <2>2, <3>1, <3>3 DEF Costly, Upper, TypeOK
      <4>2. halted[Exp(c)] # None
        BY <1>1, <3>1, <4>1 DEF Overrun, OverrunInv
      <4> QED BY <1>1, <2>2, <4>2 DEF TypeOK
    <3> QED BY <3>2, <3>3
  <2>4. \A e \in Experiment \ {Exp(c)} : halted'[e] = halted[e]
    BY <2>2 DEF TypeOK
  <2> QED BY <1>1, <2>1, <2>2, <2>3, <2>4, OverrunClose
<1>5. CASE UNCHANGED <<callState, amount, callJson, budget>>
  BY <1>5, OverrunFrame DEF budget, Unresolved
<1> QED BY <1>2, <1>3, <1>4, <1>5 DEF SettleDirect

LEMMA OverrunStep ==
    TypeOK /\ UnknownHalts /\ OverrunInv /\ [Next]_vars => OverrunInv'
<1> SUFFICES ASSUME TypeOK, UnknownHalts, OverrunInv, [Next]_vars PROVE OverrunInv'
  OBVIOUS
<1>1. ASSUME UNCHANGED <<callState, amount, known, reserved>>,
             \A e \in Experiment : halted[e] # None => halted'[e] # None
      PROVE  OverrunInv'
  BY <1>1, OverrunFrame DEF Unresolved
<1>2. ASSUME NEW c \in Call, RuntimeStep(c) PROVE OverrunInv'
  <2>1. CASE Dispatch(c) \/ BuildRecord(c) \/ Abandon(c) \/ SettleRoute(c)
    BY <1>1, <2>1 DEF Dispatch, BuildRecord, Abandon, SettleRoute, row, budget
  <2>2. CASE SettleLate(c)
    BY <1>1, <2>2, OverrunReconcile DEF SettleLate, row, budget
  <2> QED BY <1>2, <2>1, <2>2, OverrunReserve, OverrunSettle DEF RuntimeStep
<1>3. ASSUME NEW c \in Call, OperatorReconcile(c) PROVE OverrunInv'
  BY <1>3, OverrunReconcile DEF OperatorReconcile
<1>4. ASSUME NEW c \in Call, ReconcileM2Attempt(c) PROVE OverrunInv'
  <2>1. /\ c \in Unresolved /\ Exp(c) # M3
        /\ callState' = [callState EXCEPT ![c] = "SETTLED"]
        /\ amount' = [amount EXCEPT ![c] = 0]
        /\ reserved' = [reserved EXCEPT ![Exp(c)] = @ - Upper(c)]
        /\ known' = known /\ halted' = [halted EXCEPT ![Exp(c)] = None]
    BY <1>4 DEF ReconcileM2Attempt, Unresolved
  <2>2. Exp(c) \in Experiment /\ Upper(c) \in Nat
    BY RequestTypes
  <2>3. known' = [known EXCEPT ![Exp(c)] = @ + 0]
    BY <2>1, <2>2 DEF TypeOK
  <2>4. ~ Overrun(Exp(c))'
    <3> SUFFICES ASSUME NEW d \in Call, Exp(d) = Exp(c), Costly(d)' PROVE FALSE
      BY DEF Overrun, Exp
    <3>1. d # c
      BY <2>1, <2>2 DEF Costly, Upper, TypeOK
    <3>2. Costly(d)
      BY <2>1, <3>1 DEF Costly, Upper, TypeOK
    <3> QED BY <2>1, <3>2 DEF Overrun, OverrunInv
  <2>5. \A e \in Experiment \ {Exp(c)} : halted'[e] = halted[e]
    BY <2>1 DEF TypeOK
  <2> QED BY <2>1, <2>3, <2>4, <2>5, OverrunClose
<1>5. ASSUME NEW h \in Run \cup Job, RevokeWork(h) PROVE OverrunInv'
  BY <1>5, OverrunSweep DEF RevokeWork, Swept
<1>6. ASSUME RecoverTerminalCalls PROVE OverrunInv'
  BY <1>6, OverrunSweep DEF RecoverTerminalCalls, TerminalCalls, Swept
<1>7. ASSUME RecoverOwnedWork PROVE OverrunInv'
  BY <1>7, OverrunSweep DEF RecoverOwnedWork, Swept
<1>8. ASSUME NEW e \in Experiment, OperatorHalt(e) PROVE OverrunInv'
  <2>1. \A f \in Experiment : halted[f] # None => halted'[f] # None
    BY <1>8, NoneIsNoHalt DEF OperatorHalt, TypeOK, Halt
  <2> QED BY <1>1, <1>8, <2>1 DEF OperatorHalt, row
<1>9. CASE \/ \E h \in Run \cup Job : EndWork(h)
           \/ \E i \in Instance : StopInstance(i)
           \/ UNCHANGED vars
  BY <1>1, <1>9 DEF EndWork, StopInstance, row, budget, vars
<1> QED BY <1>2, <1>3, <1>4, <1>5, <1>6, <1>7, <1>8, <1>9 DEF Next

\* An experiment that was charged more than a call had reserved, or that stands
\* above its cap, stays halted, whatever is resolved, swept or settled later.
THEOREM OverrunStaysHalted == Spec => []OverrunHalts
<1>1. Init => OverrunInv
  <2> SUFFICES ASSUME Init PROVE OverrunInv
    OBVIOUS
  <2>1. Unresolved = {} /\ \A c \in Call : ~ Costly(c)
    BY DEF Init, Unresolved, Costly
  <2>2. \A e \in Experiment : ~ (known[e] + reserved[e] > Limit[e].cap)
    BY DEF Init
  <2> QED BY <2>1, <2>2 DEF OverrunInv, Overrun
<1>2. OverrunInv => OverrunHalts
  BY DEF OverrunInv, OverrunHalts, Overrun, Costly
<1> QED BY <1>1, <1>2, OverrunStep, TypeCorrect, UnknownStaysHalted, PTL DEF Spec
-----------------------------------------------------------------------------
(* The books: the counters of an experiment and the rows of its calls *)

HIDE LedgerAssumption

Quote == [c \in Call |-> Upper(c)]
Held(e) == {c \in Call : Exp(c) = e /\ callState[c] \in {"RESERVED", "UNKNOWN"}}
Closed(e) == {c \in Call : Exp(c) = e /\ callState[c] = "SETTLED"}

\* LedgerBalanced, and that only finitely many calls have been made.
Balanced(e) ==
    /\ IsFiniteSet(Held(e)) /\ IsFiniteSet(Closed(e))
    /\ reserved[e] = Total(Quote, Held(e))
    /\ known[e] = Total(amount, Closed(e))
    /\ attempted[e] = Cardinality(Held(e) \cup Closed(e))

BalanceInv == TypeOK /\ \A e \in Experiment : Balanced(e)

\* The sums of the property are these totals.
LEMMA QuotedSum ==
    ASSUME NEW S \in SUBSET Call, IsFiniteSet(S)
    PROVE  MapThenSumSet(Upper, S) = Total(Quote, S)
<1> DEFINE IsSum(h) == h = [T \in SUBSET S |->
              IF T = {} THEN 0 ELSE Upper(Pick(T)) + h[T \ {Pick(T)}]]
           h == CHOOSE h : IsSum(h)
           g == CHOOSE g : Sums(Quote, S, g)
<1>1. ASSUME NEW k PROVE Sums(Quote, S, k) <=> IsSum(k)
  <2>1. \A T \in SUBSET S : T # {} => Quote[Pick(T)] = Upper(Pick(T))
    BY PickMember DEF Quote
  <2>2. [T \in SUBSET S |-> IF T = {} THEN 0 ELSE Upper(Pick(T)) + k[T \ {Pick(T)}]]
          = [T \in SUBSET S |-> IF T = {} THEN 0 ELSE Quote[Pick(T)] + k[T \ {Pick(T)}]]
    BY <2>1
  <2> QED BY <2>2 DEF Sums
<1>2. Sums(Quote, S, g)
  BY SumsExist
<1>3. IsSum(h)
  <2>1. IsSum(g)
    BY <1>1, <1>2
  <2>2. \E k : IsSum(k)
    BY <2>1
  <2> HIDE DEF IsSum
  <2> QED BY <2>2
<1>4. Sums(Quote, S, h)
  BY <1>1, <1>3
<1>5. h[S] = g[S]
  <2> HIDE DEF g, h
  <2> QED BY <1>2, <1>4, SumsAgree
<1>6. MapThenSumSet(Upper, S) = h[S]
  BY DEF MapThenSumSet, MapThenFoldSet, Pick
<1> QED BY <1>5, <1>6 DEF Total

LEMMA ChargedSum ==
    ASSUME NEW S
    PROVE  MapThenSumSet(LAMBDA c : amount[c], S) = Total(amount, S)
BY DEF MapThenSumSet, MapThenFoldSet, Total, Sums, Pick

\* A step that moves no call between held and closed and changes no settled
\* amount keeps the books.
LEMMA BalanceFrame ==
    ASSUME NEW e \in Experiment, Balanced(e),
           Held(e)' = Held(e), Closed(e)' = Closed(e),
           \A c \in Closed(e) : amount'[c] = amount[c],
           reserved'[e] = reserved[e], known'[e] = known[e], attempted'[e] = attempted[e]
    PROVE  Balanced(e)'
<1>1. Total(amount', Closed(e)) = Total(amount, Closed(e))
  BY TotalSame DEF Balanced
<1> QED BY <1>1 DEF Balanced

\* ReserveCall adds one call to what is held.
LEMMA BalanceReserve ==
    ASSUME BalanceInv, NEW c \in Call, callState[c] = "NONE",
           callState' = [callState EXCEPT ![c] = "RESERVED"], amount' = amount, known' = known,
           reserved' = [reserved EXCEPT ![Exp(c)] = @ + Upper(c)],
           attempted' = [attempted EXCEPT ![Exp(c)] = @ + 1]
    PROVE  \A e \in Experiment : Balanced(e)'
<1> TAKE e \in Experiment
<1>0. TypeOK /\ Balanced(e) /\ Upper(c) \in Nat /\ Exp(c) \in Experiment
  BY RequestTypes DEF BalanceInv
<1>1. Closed(e)' = Closed(e)
  BY <1>0 DEF Closed, TypeOK
<1>2. CASE Exp(c) # e
  <2>1. Held(e)' = Held(e)
    BY <1>0, <1>2 DEF Held, TypeOK
  <2>2. reserved'[e] = reserved[e] /\ attempted'[e] = attempted[e]
    BY <1>0, <1>2 DEF TypeOK
  <2> QED BY <1>0, <1>1, <2>1, <2>2, BalanceFrame
<1>3. CASE Exp(c) = e
  <2>1. Held(e)' = Held(e) \cup {c} /\ c \notin Held(e) /\ c \notin Closed(e)
    BY <1>0, <1>3 DEF Held, Closed, TypeOK
  <2>2. IsFiniteSet(Held(e)) /\ IsFiniteSet(Closed(e))
    BY <1>0 DEF Balanced
  <2>3. IsFiniteSet(Held(e) \cup {c}) /\ IsFiniteSet(Held(e) \cup Closed(e))
    BY <2>2, FS_AddElement, FS_Union
  <2>4. \A d \in Held(e) \cup {c} : Quote[d] \in Nat
    BY RequestTypes DEF Quote, Held
  <2>5. Total(Quote, Held(e) \cup {c}) = Upper(c) + Total(Quote, Held(e))
    <3>1. (Held(e) \cup {c}) \ {c} = Held(e)
      BY <2>1
    <3>2. Quote[c] = Upper(c)
      BY DEF Quote
    <3> QED BY <2>3, <2>4, <3>1, <3>2, TotalRemove
  <2>6. reserved[e] = Total(Quote, Held(e)) /\ Total(Quote, Held(e)) \in Nat
    BY <1>0, <2>2, <2>4, TotalNat DEF Balanced
  <2>7. reserved'[e] = Total(Quote, Held(e)')
    <3>1. reserved'[e] = reserved[e] + Upper(c)
      BY <1>0, <1>3 DEF TypeOK
    <3> QED BY <1>0, <2>1, <2>5, <2>6, <3>1
  <2>8. attempted'[e] = Cardinality(Held(e)' \cup Closed(e)')
    <3>1. attempted'[e] = attempted[e] + 1
      BY <1>0, <1>3 DEF TypeOK
    <3>2. Held(e)' \cup Closed(e)' = (Held(e) \cup Closed(e)) \cup {c}
      BY <1>1, <2>1
    <3>3. Cardinality((Held(e) \cup Closed(e)) \cup {c}) = Cardinality(Held(e) \cup Closed(e)) + 1
      BY <2>1, <2>3, FS_AddElement
    <3> QED BY <1>0, <3>1, <3>2, <3>3 DEF Balanced
  <2>9. known'[e] = Total(amount', Closed(e)')
    BY <1>0, <1>1 DEF Balanced
  <2> QED BY <1>1, <2>1, <2>2, <2>3, <2>7, <2>8, <2>9 DEF Balanced
<1> QED BY <1>2, <1>3

\* A settlement or a reconciliation moves one held call to the closed ones, at
\* its cost.
LEMMA BalanceClose ==
    ASSUME BalanceInv, NEW c \in Call, NEW cost \in Nat,
           callState[c] \in {"RESERVED", "UNKNOWN"},
           callState' = [callState EXCEPT ![c] = "SETTLED"],
           amount' = [amount EXCEPT ![c] = cost],
           reserved' = [reserved EXCEPT ![Exp(c)] = @ - Upper(c)],
           known' = [known EXCEPT ![Exp(c)] = @ + cost], attempted' = attempted
    PROVE  \A e \in Experiment : Balanced(e)'
<1> TAKE e \in Experiment
<1>0. TypeOK /\ Balanced(e) /\ Upper(c) \in Nat /\ Exp(c) \in Experiment
  BY RequestTypes DEF BalanceInv
<1>1. CASE Exp(c) # e
  <2>1. Held(e)' = Held(e) /\ Closed(e)' = Closed(e)
    BY <1>0, <1>1 DEF Held, Closed, TypeOK
  <2>2. reserved'[e] = reserved[e] /\ known'[e] = known[e]
    BY <1>0, <1>1 DEF TypeOK
  <2>3. \A d \in Closed(e) : amount'[d] = amount[d]
    BY <1>0, <1>1 DEF Closed, TypeOK
  <2> QED BY <1>0, <2>1, <2>2, <2>3, BalanceFrame
<1>2. CASE Exp(c) = e
  <2>1. /\ c \in Held(e) /\ c \notin Closed(e)
        /\ Held(e)' = Held(e) \ {c} /\ Closed(e)' = Closed(e) \cup {c}
    BY <1>0, <1>2 DEF Held, Closed, TypeOK
  <2>2. IsFiniteSet(Held(e)) /\ IsFiniteSet(Closed(e))
    BY <1>0 DEF Balanced
  <2>3. IsFiniteSet(Held(e) \ {c}) /\ IsFiniteSet(Closed(e) \cup {c})
    BY <2>2, FS_AddElement, FS_RemoveElement
  <2>4. /\ \A d \in Held(e) : Quote[d] \in Nat
        /\ \A d \in Closed(e) \cup {c} : amount'[d] \in Nat
        /\ \A d \in Closed(e) : amount'[d] = amount[d]
        /\ amount'[c] = cost
    BY <1>0, <2>1, RequestTypes DEF Quote, Held, Closed, TypeOK
  <2>5. Total(Quote, Held(e)) = Upper(c) + Total(Quote, Held(e) \ {c})
    <3>1. Quote[c] = Upper(c)
      BY DEF Quote
    <3> QED BY <2>1, <2>2, <2>4, <3>1, TotalRemove
  <2>6. Total(Quote, Held(e) \ {c}) \in Nat
    BY <2>3, <2>4, TotalNat
  <2>7. reserved'[e] = Total(Quote, Held(e)')
    <3>1. reserved'[e] = reserved[e] - Upper(c) /\ reserved[e] = Total(Quote, Held(e))
      BY <1>0, <1>2 DEF TypeOK, Balanced
    <3> QED BY <1>0, <2>1, <2>5, <2>6, <3>1
  <2>8. Total(amount', Closed(e) \cup {c}) = cost + Total(amount, Closed(e))
    <3>1. (Closed(e) \cup {c}) \ {c} = Closed(e)
      BY <2>1
    <3>2. Total(amount', Closed(e) \cup {c}) = amount'[c] + Total(amount', Closed(e))
      <4>1. PICK S, f : S = Closed(e) \cup {c} /\ f = amount'
        OBVIOUS
      <4>2. IsFiniteSet(S) /\ c \in S /\ \A d \in S : f[d] \in Nat
        BY <2>3, <2>4, <4>1
      <4>3. Total(f, S) = f[c] + Total(f, S \ {c})
        BY <4>2, TotalRemove
      <4> QED BY <3>1, <4>1, <4>3
    <3>3. Total(amount', Closed(e)) = Total(amount, Closed(e))
      <4>1. PICK S, f, g : S = Closed(e) /\ f = amount' /\ g = amount
        OBVIOUS
      <4>2. IsFiniteSet(S) /\ \A d \in S : f[d] = g[d]
        BY <2>2, <2>4, <4>1
      <4>3. Total(f, S) = Total(g, S)
        BY <4>2, TotalSame
      <4> QED BY <4>1, <4>3
    <3> QED BY <2>4, <3>2, <3>3
  <2>9. known'[e] = Total(amount', Closed(e)')
    <3>1. known'[e] = known[e] + cost /\ known[e] \in Nat /\ known[e] = Total(amount, Closed(e))
      BY <1>0, <1>2 DEF TypeOK, Balanced
    <3> QED BY <2>1, <2>8, <3>1
  <2>10. attempted'[e] = Cardinality(Held(e)' \cup Closed(e)')
    <3>1. Held(e)' \cup Closed(e)' = Held(e) \cup Closed(e)
      BY <2>1
    <3> QED BY <1>0, <3>1 DEF Balanced
  <2> QED BY <2>1, <2>3, <2>7, <2>9, <2>10 DEF Balanced
<1> QED BY <1>1, <1>2

\* Whoever loses its owner, or is settled without a cost, stays held.
LEMMA BalanceKeep ==
    ASSUME BalanceInv, UNCHANGED <<amount, reserved, known, attempted>>,
           \A c \in Call : \/ callState'[c] = callState[c]
                           \/ callState[c] = "RESERVED" /\ callState'[c] = "UNKNOWN"
    PROVE  \A e \in Experiment : Balanced(e)'
<1> TAKE e \in Experiment
<1>1. Held(e)' = Held(e) /\ Closed(e)' = Closed(e)
  BY DEF Held, Closed
<1> QED BY <1>1, BalanceFrame DEF BalanceInv

\* A sweep moves calls from RESERVED to UNKNOWN.
LEMMA SweepKeeps ==
    ASSUME NEW S \in SUBSET InFlight, MarkUnknown(S)
    PROVE  \A c \in Call : \/ callState'[c] = callState[c]
                           \/ callState[c] = "RESERVED" /\ callState'[c] = "UNKNOWN"
BY DEF MarkUnknown, InFlight

LEMMA BalanceReconcile ==
    ASSUME BalanceInv, NEW c \in Call, NEW kind, ReconcileM4Attempt(c, kind)
    PROVE  \A e \in Experiment : Balanced(e)'
<1>1. EvidenceAmount(c, kind) \in Nat
  BY DEF EvidenceAmount, BalanceInv, TypeOK
<1>2. /\ callState[c] = "UNKNOWN"
      /\ callState' = [callState EXCEPT ![c] = "SETTLED"]
      /\ amount' = [amount EXCEPT ![c] = EvidenceAmount(c, kind)]
      /\ reserved' = [reserved EXCEPT ![Exp(c)] = @ - Upper(c)]
      /\ known' = [known EXCEPT ![Exp(c)] = @ + EvidenceAmount(c, kind)]
      /\ attempted' = attempted
  BY DEF ReconcileM4Attempt, ReconcileAdmits
<1> QED BY <1>1, <1>2, BalanceClose

LEMMA BalanceSettle ==
    ASSUME BalanceInv, NEW c \in Call, SettleDirect(c)
    PROVE  \A e \in Experiment : Balanced(e)'
<1>0. TypeOK /\ Exp(c) \in Experiment
  BY RequestTypes DEF BalanceInv
<1>1. CASE UNCHANGED <<callState, amount, callJson, budget>>
  BY <1>1, BalanceKeep DEF budget
<1>2. CASE StillReserved(c) /\ attempted' = attempted /\ SettleRelease(c)
  <2>1. known' = [known EXCEPT ![Exp(c)] = @ + 0]
    BY <1>0, <1>2 DEF SettleRelease, TypeOK
  <2> QED BY <1>2, <2>1, BalanceClose DEF StillReserved, SettleRelease
<1>3. CASE StillReserved(c) /\ attempted' = attempted /\ SettleUnknown(c)
  <2>1. \A d \in Call : \/ callState'[d] = callState[d]
                        \/ callState[d] = "RESERVED" /\ callState'[d] = "UNKNOWN"
    BY <1>0, <1>3 DEF SettleUnknown, StillReserved, TypeOK
  <2> QED BY <1>3, <2>1, BalanceKeep DEF SettleUnknown
<1>4. CASE StillReserved(c) /\ attempted' = attempted /\ SettleCost(c)
  <2>1. charge[c] \in Nat
    BY <1>0 DEF TypeOK
  <2> QED BY <1>4, <2>1, BalanceClose DEF StillReserved, SettleCost
<1> QED BY <1>1, <1>2, <1>3, <1>4 DEF SettleDirect

LEMMA BalanceStep == BalanceInv /\ [Next]_vars => \A e \in Experiment : Balanced(e)'
<1> SUFFICES ASSUME BalanceInv, [Next]_vars PROVE \A e \in Experiment : Balanced(e)'
  OBVIOUS
<1>1. UNCHANGED <<callState, amount, known, reserved, attempted>>
         => \A e \in Experiment : Balanced(e)'
  BY BalanceKeep
<1>2. ASSUME NEW c \in Call, RuntimeStep(c) PROVE \A e \in Experiment : Balanced(e)'
  <2>1. CASE Dispatch(c) \/ BuildRecord(c) \/ Abandon(c) \/ SettleRoute(c)
    BY <1>1, <2>1 DEF Dispatch, BuildRecord, Abandon, SettleRoute, row, budget
  <2>2. CASE SettleLate(c)
    BY <1>1, <2>2, BalanceReconcile DEF SettleLate, row, budget
  <2>3. CASE \E i \in Instance : ReserveCall(c, i)
    BY <2>3, BalanceReserve DEF ReserveCall
  <2> QED BY <1>2, <2>1, <2>2, <2>3, BalanceSettle DEF RuntimeStep
<1>3. ASSUME NEW c \in Call, OperatorReconcile(c) PROVE \A e \in Experiment : Balanced(e)'
  BY <1>3, BalanceReconcile DEF OperatorReconcile
<1>4. ASSUME NEW c \in Call, ReconcileM2Attempt(c) PROVE \A e \in Experiment : Balanced(e)'
  <2>1. known' = [known EXCEPT ![Exp(c)] = @ + 0]
    BY <1>4, RequestTypes DEF ReconcileM2Attempt, BalanceInv, TypeOK
  <2>2. /\ callState[c] \in {"RESERVED", "UNKNOWN"}
        /\ callState' = [callState EXCEPT ![c] = "SETTLED"]
        /\ amount' = [amount EXCEPT ![c] = 0]
        /\ reserved' = [reserved EXCEPT ![Exp(c)] = @ - Upper(c)]
        /\ attempted' = attempted
    BY <1>4 DEF ReconcileM2Attempt
  <2> QED BY <2>1, <2>2, BalanceClose
<1>5. ASSUME NEW h \in Run \cup Job, RevokeWork(h) PROVE \A e \in Experiment : Balanced(e)'
  BY <1>5, SweepKeeps, BalanceKeep DEF RevokeWork, Swept
<1>6. ASSUME RecoverTerminalCalls PROVE \A e \in Experiment : Balanced(e)'
  BY <1>6, SweepKeeps, BalanceKeep DEF RecoverTerminalCalls, TerminalCalls, Swept
<1>7. ASSUME RecoverOwnedWork PROVE \A e \in Experiment : Balanced(e)'
  BY <1>7, SweepKeeps, BalanceKeep DEF RecoverOwnedWork, Swept
<1>8. CASE \/ \E h \in Run \cup Job : EndWork(h)
           \/ \E i \in Instance : StopInstance(i)
           \/ \E e \in Experiment : OperatorHalt(e)
           \/ UNCHANGED vars
  BY <1>1, <1>8 DEF EndWork, StopInstance, OperatorHalt, row, budget, vars
<1> QED BY <1>2, <1>3, <1>4, <1>5, <1>6, <1>7, <1>8 DEF Next

LEMMA BalanceHolds == Spec => []BalanceInv
<1>1. Init => \A e \in Experiment : Balanced(e)
  <2> SUFFICES ASSUME Init, NEW e \in Experiment PROVE Balanced(e)
    OBVIOUS
  <2>1. Held(e) = {} /\ Closed(e) = {}
    BY DEF Init, Held, Closed
  <2>2. reserved[e] = 0 /\ known[e] = 0 /\ attempted[e] = 0
    BY DEF Init
  <2> QED BY <2>1, <2>2, TotalStep, FS_EmptySet DEF Balanced
<1>2. Init /\ TypeOK => BalanceInv
  BY <1>1 DEF BalanceInv
<1>3. BalanceInv /\ TypeOK' /\ [Next]_vars => BalanceInv'
  BY BalanceStep DEF BalanceInv
<1> QED BY <1>2, <1>3, TypeCorrect, PTL DEF Spec

\* What an experiment has reserved, spent and attempted is what the rows of its
\* calls say, whatever settles, sweeps or reconciles them, in whichever order.
THEOREM BooksBalance == Spec => []LedgerBalanced
<1>1. BalanceInv => LedgerBalanced
  <2> SUFFICES ASSUME BalanceInv PROVE LedgerBalanced
    OBVIOUS
  <2>1. ASSUME NEW e \in Experiment
        PROVE  LET mine == {c \in Made : Exp(c) = e} IN
               /\ reserved[e] = MapThenSumSet(Upper, mine \cap Unresolved)
               /\ known[e] = MapThenSumSet(LAMBDA c : amount[c], mine \ Unresolved)
               /\ attempted[e] = Cardinality(mine)
    <3> DEFINE mine == {c \in Made : Exp(c) = e}
    <3>1. /\ mine \cap Unresolved = Held(e) /\ mine \ Unresolved = Closed(e)
          /\ mine = Held(e) \cup Closed(e)
      BY DEF BalanceInv, TypeOK, CallState, Made, Unresolved, Held, Closed
    <3>2. Balanced(e)
      BY DEF BalanceInv
    <3>3. reserved[e] = MapThenSumSet(Upper, mine \cap Unresolved)
      <4>1. Held(e) \in SUBSET Call /\ IsFiniteSet(Held(e))
        BY <3>2 DEF Held, Balanced
      <4>2. MapThenSumSet(Upper, Held(e)) = Total(Quote, Held(e))
        BY <4>1, QuotedSum
      <4> QED BY <3>1, <3>2, <4>2 DEF Balanced
    <3>4. known[e] = MapThenSumSet(LAMBDA c : amount[c], mine \ Unresolved)
      BY <3>1, <3>2, ChargedSum DEF Balanced
    <3>5. attempted[e] = Cardinality(mine)
      BY <3>1, <3>2 DEF Balanced
    <3> QED BY <3>3, <3>4, <3>5
  <2> QED BY <2>1 DEF LedgerBalanced
<1> QED BY <1>1, BalanceHolds, PTL

\* No settlement or reconciliation releases more than was reserved.
THEOREM ReservedNeverNegative == Spec => [](\A e \in Experiment : reserved[e] >= 0)
<1>1. BalanceInv => \A e \in Experiment : reserved[e] >= 0
  <2> SUFFICES ASSUME BalanceInv, NEW e \in Experiment PROVE reserved[e] >= 0
    OBVIOUS
  <2>1. Balanced(e) /\ \A c \in Held(e) : Quote[c] \in Nat
    BY RequestTypes DEF BalanceInv, Held, Quote
  <2>2. Total(Quote, Held(e)) \in Nat
    BY <2>1, TotalNat DEF Balanced
  <2> QED BY <2>1, <2>2 DEF Balanced
<1> QED BY <1>1, BalanceHolds, PTL

\* An experiment that still admits calls has spent at most its cap: what is
\* spent can only pass the cap in the step that also halts it.
THEOREM SpendingWithinCap ==
    Spec => [](\A e \in Experiment : halted[e] = None => known[e] <= Limit[e].cap)
<1>1. TypeOK /\ OverrunHalts /\ (\A e \in Experiment : reserved[e] >= 0)
         => \A e \in Experiment : halted[e] = None => known[e] <= Limit[e].cap
  <2> SUFFICES ASSUME TypeOK, OverrunHalts, NEW e \in Experiment, reserved[e] >= 0,
                      halted[e] = None
               PROVE  known[e] <= Limit[e].cap
    OBVIOUS
  <2>1. ~ (known[e] + reserved[e] > Limit[e].cap)
    BY DEF OverrunHalts
  <2>2. known[e] \in Nat /\ reserved[e] \in Int /\ Limit[e].cap \in Nat
    BY LedgerAssumption DEF TypeOK
  <2> QED BY <2>1, <2>2
<1> QED BY <1>1, TypeCorrect, OverrunStaysHalted, ReservedNeverNegative, PTL
=============================================================================
