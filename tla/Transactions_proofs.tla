-------------------------- MODULE Transactions_proofs --------------------------
(***************************************************************************)
(* Proofs about the API's transactions.                                    *)
(*                                                                         *)
(* First Publication: what readFactsTx has selected and locked still holds *)
(* when the transaction that asked ends, for any number of runs over any   *)
(* documents, so that answers, reports and derived facts rest on facts     *)
(* that stand.  The document locks keep everybody else's facts out of the  *)
(* scope, the row locks keep what was found valid.                         *)
(*                                                                         *)
(* Then LockOrder: transactions never wait for each other in a circle, for *)
(* any numbers of transactions, runs and documents, as long as no          *)
(* background extraction runs under HOT_ONLY: every handler then locks     *)
(* upwards in one order of tables and ids.                                 *)
(***************************************************************************)
EXTENDS Publication, FiniteSetTheorems, WellFoundedInduction, TLAPS

-----------------------------------------------------------------------------
(* Facts *)

LEMMA ReportedIs ==
    ASSUME NEW f \in Reported
    PROVE  f \in Fact /\ f.req \in {"revenue", "cost"} /\ f.inputs = {}
BY PublicationAssumption DEF Reported, Fact

LEMMA DerivedIs ==
    ASSUME NEW f \in DerivedFacts
    PROVE  /\ f \in Fact /\ f.req = "margin"
           /\ \E rev, cost \in Reported :
                 /\ rev.req = "revenue" /\ cost.req = "cost"
                 /\ f.inputs = {rev, cost} /\ f.value = Margin(rev, cost)
<1>1. PICK p \in Derivable : f = Derived(p[1], p[2])
    BY DEF DerivedFacts
<1>2. p[1] \in Reported /\ p[2] \in Reported /\ p[1].req = "revenue" /\ p[2].req = "cost"
    BY DEF Derivable
<1>. QED  BY <1>1, <1>2 DEF Derived, Fact

LEMMA FactIs ==
    ASSUME NEW f \in Fact
    PROVE  /\ f.inputs \subseteq Reported
           /\ f.inputs = {} => f \in Reported
           /\ f.req = "margin" <=> f \in DerivedFacts
           /\ f.req # "margin" => f \in Reported
<1>1. CASE f \in Reported
    <2>1. f.req \in {"revenue", "cost"} /\ f.inputs = {}
        BY <1>1, ReportedIs
    <2>2. f \notin DerivedFacts
        BY <2>1, DerivedIs
    <2>. QED  BY <1>1, <2>1, <2>2
<1>2. CASE f \in DerivedFacts
    BY <1>2, DerivedIs
<1>. QED  BY <1>1, <1>2 DEF Fact

\* Two margins that count have inputs of the same values: their own values agree.
LEMMA MarginsAgree ==
    ASSUME facts \subseteq Fact, \A h \in facts : h.inputs \subseteq facts,
           NEW r \in Run, NEW f \in Valid(r), NEW g \in Valid(r),
           f \in DerivedFacts, g \in DerivedFacts
    PROVE  f.value = g.value
<1>1. /\ f \in facts /\ g \in facts
      /\ \A x \in f.inputs \cup g.inputs : x \in facts /\ InScope(x, r) /\ Peers(x, r) = {}
    BY DEF Valid, Unopposed
<1>2. ASSUME NEW x \in f.inputs, NEW y \in g.inputs, x.req = y.req  PROVE x.value = y.value
    <2>1. y \in facts /\ InScope(y, r) /\ Peers(x, r) = {}
        BY <1>1
    <2>2. x.value # y.value => y \in Peers(x, r)
        BY <1>2, <2>1 DEF Peers
    <2>. QED  BY <2>1, <2>2
<1>3. PICK a, b \in Reported : /\ a.req = "revenue" /\ b.req = "cost"
                               /\ f.inputs = {a, b} /\ f.value = Margin(a, b)
    BY DerivedIs
<1>4. PICK c, d \in Reported : /\ c.req = "revenue" /\ d.req = "cost"
                               /\ g.inputs = {c, d} /\ g.value = Margin(c, d)
    BY DerivedIs
<1>5. a.value = c.value /\ b.value = d.value
    BY <1>2, <1>3, <1>4
<1>. QED  BY <1>3, <1>4, <1>5 DEF Margin

\* A candidate's fact is one, and its verdict is known when it is reported.
LEMMA CandidateIs ==
    ASSUME NEW c \in Candidate
    PROVE  c.fact \in Fact /\ (c.fact.inputs = {} => c.verdict \in Verdict)
<1>1. CASE c \in [fact : Reported, verdict : SourceVerdict]
    BY <1>1, PublicationAssumption DEF Fact, Verdict
<1>2. CASE c \in [fact : DerivedFacts, verdict : {None}]
    <2>1. c.fact \in DerivedFacts
        BY <1>2
    <2>. QED  BY <2>1, DerivedIs
<1>. QED  BY <1>1, <1>2 DEF Candidate

LEMMA InputsAreFacts ==
    ASSUME NEW C \in SUBSET Candidate
    PROVE  Inputs(C) \subseteq Fact /\ \A c \in C : c.fact.inputs \subseteq Inputs(C)
<1>1. \A c \in C : c.fact.inputs \subseteq Reported
    BY CandidateIs, FactIs
<1>. QED  BY <1>1, ReportedIs DEF Inputs

-----------------------------------------------------------------------------
(* The inductive invariant *)

Report == [by : Run, items : UNION {[C -> Verdict] : C \in SUBSET Candidate}]
BatchState == {"NONE", "CREATED", "RESULT_READY", "COMMITTED"} \cup Verdict
BatchRecord ==
    [run : Run \cup {None}, state : BatchState, cands : SUBSET Candidate,
     reports : Seq(Report), expired : BOOLEAN]
TxRecord ==
    [kind : TxKind, batch : Batch \cup {None}, report : Nat, want : SUBSET Fact,
     pc : TxPc, sel : SUBSET Fact, held : SUBSET Fact, result : TxResult]

FactsOK ==
    /\ facts \subseteq Fact /\ invalid \subseteq facts
    /\ \A f \in facts : f.inputs \subseteq facts
    /\ live \subseteq Version /\ done \subseteq Run

\* A batch holds candidates from its run's documents, and has no report before.
BatchOK(x) ==
    /\ x.run = None <=> x.state = "NONE"
    /\ \A c \in x.cands : \A f \in Graph({c.fact}) : f.version \in Scope[x.run]
    /\ x.cands = {} => x.reports = <<>>
    /\ \A n \in DOMAIN x.reports : x.reports[n] \in [by : Run, items : [x.cands -> Verdict]]

Types ==
    /\ FactsOK
    /\ batch \in [Batch -> BatchRecord] /\ \A b \in Batch : BatchOK(batch[b])
    /\ tx \in [Run -> TxRecord] /\ \A r \in Run : tx[r].sel \cup tx[r].held \subseteq facts

Busy(r) == tx[r].kind # "none"

Good(r) == Passed(tx[r].batch, tx[r].report)

\* A transaction that validates or publishes works on the batch as it found it.
BatchTx(r) ==
    /\ IF tx[r].kind \in {"validate", "commit"} THEN tx[r].batch \in Batch /\ Mine(r, tx[r].batch)
       ELSE tx[r].batch = None
    /\ tx[r].kind = "validate" => batch[tx[r].batch].cands # {}
    /\ tx[r].kind = "commit" => /\ CurrentReport(r, tx[r].batch, tx[r].report)
                                /\ tx[r].want = Inputs(Good(r))

\* Whoever works on a batch has its row to itself.
RowsLocked == \A r, q \in Run : r # q /\ tx[r].batch # None => tx[r].batch # tx[q].batch

\* Its documents stay in scope, and no other transaction has locked them.
LockedScope(r) ==
    /\ Scope[r] \subseteq live
    /\ \A q \in Run \ {r} : Busy(q) => Scope[r] \cap Scope[q] = {}

\* Every reported fact in scope that answers a requirement has been selected.
Complete(r) ==
    \A g \in facts : g.inputs = {} /\ InScope(g, r) /\ (\E w \in tx[r].want : w.req = g.req)
                        => g \in tx[r].sel

Answered(r) == At(r, "end") /\ tx[r].result = "ok"

\* What a transaction knows at each statement of readFactsTx.
Found(r) == Complete(r) /\ \A f \in tx[r].sel : \E w \in tx[r].want : w.req = f.req
WantHeld(r) == tx[r].want \subseteq Valid(r) /\ Graph(tx[r].want) \subseteq tx[r].held
SelHeld(r) == Graph(tx[r].sel) \subseteq tx[r].held
SelGood(r) == tx[r].sel \subseteq Valid(r) /\ Covered(tx[r].want, tx[r].sel)

Reading(r) ==
    /\ At(r, "reqs") \/ At(r, "reqsLock") \/ At(r, "reqsCount") \/ Answered(r)
          => tx[r].kind = "read" \/ WantHeld(r)
    /\ At(r, "reqsLock") \/ At(r, "reqsCount") \/ Answered(r) => Found(r)
    /\ At(r, "idsCount") \/ At(r, "reqsCount") \/ Answered(r) => SelHeld(r)
    /\ Answered(r) => SelGood(r)

BusyInv(r) == Busy(r) => LockedScope(r) /\ Reading(r)

IInv ==
    /\ Types /\ RowsLocked
    /\ \A r \in Run : BatchTx(r) /\ BusyInv(r)

-----------------------------------------------------------------------------
(* What others do leaves an open transaction's findings true *)

\* What may change while r's documents are locked.
Undisturbed(r) ==
    /\ facts \subseteq facts' /\ \A f \in facts' \ facts : f.version \notin Scope[r]
    /\ invalid \subseteq invalid' /\ invalid' \cap tx[r].held \subseteq invalid
    /\ Scope[r] \subseteq live'

\* A fact whose row and inputs' rows are held goes on counting.
LEMMA HeldStayValid ==
    ASSUME NEW r \in Run, Scope[r] \subseteq live, Undisturbed(r),
           NEW f \in Valid(r), Graph({f}) \subseteq tx[r].held
    PROVE  f \in Valid(r)'
<1>1. f \in facts /\ InScope(f, r) /\ \A x \in f.inputs : Unopposed(x, r)
    BY DEF Valid
<1>2. f \in tx[r].held /\ f.inputs \subseteq tx[r].held
    BY DEF Graph
<1>3. ASSUME NEW x \in tx[r].held, InScope(x, r)  PROVE InScope(x, r)'
    BY <1>3 DEF Undisturbed, InScope
<1>4. ASSUME NEW x \in f.inputs  PROVE Unopposed(x, r)'
    <2>1. InScope(x, r) /\ Peers(x, r) = {} /\ x \in tx[r].held
        BY <1>1, <1>2 DEF Unopposed
    <2>2. InScope(x, r)'
        BY <1>3, <2>1
    <2>3. ASSUME NEW g \in Peers(x, r)'  PROVE g \in Peers(x, r)
        <3>1. g \in facts' /\ InScope(g, r)' /\ g.req = x.req /\ g.value # x.value
            BY <2>3 DEF Peers
        <3>2. g \in facts /\ InScope(g, r)
            BY <3>1 DEF Undisturbed, InScope
        <3>. QED  BY <3>1, <3>2 DEF Peers
    <2>. QED  BY <2>1, <2>2, <2>3 DEF Unopposed
<1>. QED  BY <1>1, <1>2, <1>3, <1>4 DEF Undisturbed, Valid

LEMMA SameTxKeepsReading ==
    ASSUME NEW r \in Run, LockedScope(r), Reading(r), Undisturbed(r), tx'[r] = tx[r]
    PROVE  Reading(r)'
<1>1. \A pc : At(r, pc)' = At(r, pc)
    BY DEF At
<1>2. Answered(r)' = Answered(r)
    BY <1>1 DEF Answered
<1>3. ASSUME NEW S, S \subseteq Valid(r), Graph(S) \subseteq tx[r].held
      PROVE  S \subseteq Valid(r)'
    <2>1. \A f \in S : Graph({f}) \subseteq tx[r].held
        BY <1>3 DEF Graph
    <2>. QED  BY <1>3, <2>1, HeldStayValid DEF LockedScope
<1>4. WantHeld(r) => WantHeld(r)'
    BY <1>3 DEF WantHeld
<1>5. Found(r) => Found(r)'
    <2>1. \A g \in facts' : InScope(g, r)' => g \in facts /\ InScope(g, r)
        BY DEF Undisturbed, InScope, LockedScope
    <2>. QED  BY <2>1 DEF Found, Complete
<1>6. SelHeld(r)' = SelHeld(r)
    BY DEF SelHeld
<1>7. SelHeld(r) /\ SelGood(r) => SelGood(r)'
    BY <1>3 DEF SelHeld, SelGood
<1>. QED  BY <1>1, <1>2, <1>4, <1>5, <1>6, <1>7 DEF Reading

\* A batch is itself as long as its owner, candidates and reports are.
SameBatch(b) ==
    /\ batch'[b].run = batch[b].run /\ batch'[b].cands = batch[b].cands
    /\ batch'[b].reports = batch[b].reports

LEMMA SameTxKeepsBatch ==
    ASSUME NEW r \in Run, BatchTx(r), tx'[r] = tx[r],
           tx[r].kind \in {"validate", "commit"} => SameBatch(tx[r].batch)
    PROVE  BatchTx(r)'
<1>1. CASE tx[r].kind \in {"validate", "commit"}
    <2>1. Good(r)' = Good(r)
        BY <1>1 DEF SameBatch, Good, Passed
    <2>. QED  BY <1>1, <2>1 DEF BatchTx, SameBatch, SameScope, Mine, CurrentReport
<1>2. CASE tx[r].kind \notin {"validate", "commit"}
    BY <1>2 DEF BatchTx
<1>. QED  BY <1>1, <1>2

\* A step of run r, seen from the invariant.
LEMMA RunKeeps ==
    ASSUME IInv, NEW r \in Run, Types', BatchTx(r)', Busy(r)' => LockedScope(r)' /\ Reading(r)',
           \A q \in Run \ {r} : tx'[q] = tx[q] /\ (Busy(q) => Undisturbed(q)),
           tx'[r].batch \in {tx[r].batch, None} \/ ~BatchLocked(tx'[r].batch),
           \A b \in Batch : SameBatch(b) \/ \A q \in Run \ {r} : tx[q].batch # b
    PROVE  IInv'
<1>5. RowsLocked'
    BY DEF IInv, RowsLocked, BatchLocked
<1>1. SUFFICES ASSUME NEW q \in Run, q # r  PROVE BatchTx(q)' /\ BusyInv(q)'
    BY <1>5 DEF IInv, BusyInv
<1>2. tx'[q] = tx[q] /\ BatchTx(q) /\ BusyInv(q) /\ Busy(q)' = Busy(q)
    BY <1>1 DEF IInv, Busy
<1>3. BatchTx(q)'
    <2>1. tx[q].kind \in {"validate", "commit"} => SameBatch(tx[q].batch)
        BY <1>1, <1>2 DEF BatchTx
    <2>. QED  BY <1>2, <2>1, SameTxKeepsBatch
<1>4. ASSUME Busy(q)  PROVE LockedScope(q)' /\ Reading(q)'
    <2>1. LockedScope(q) /\ Reading(q) /\ Undisturbed(q)
        BY <1>1, <1>2, <1>4 DEF BusyInv
    <2>2. ASSUME NEW p \in Run \ {q}, Busy(p)'  PROVE Scope[q] \cap Scope[p] = {}
        <3>1. CASE p = r
            BY <1>1, <1>2, <1>4, <2>2, <3>1 DEF LockedScope
        <3>2. CASE p # r
            BY <2>1, <2>2, <3>2 DEF LockedScope, Busy
        <3>. QED  BY <3>1, <3>2
    <2>3. LockedScope(q)'
        BY <2>1, <2>2 DEF LockedScope, Undisturbed
    <2>. QED  BY <1>2, <2>1, <2>3, SameTxKeepsReading
<1>. QED  BY <1>2, <1>3, <1>4 DEF BusyInv

\* A step of somebody else.
LEMMA OthersKeep ==
    ASSUME IInv, Types', UNCHANGED tx, \A b \in Batch : SameBatch(b),
           \A q \in Run : Busy(q) => Undisturbed(q)
    PROVE  IInv'
<1>1. SUFFICES ASSUME NEW q \in Run  PROVE BatchTx(q)' /\ BusyInv(q)'
    BY DEF IInv, RowsLocked
<1>2. BatchTx(q) /\ BusyInv(q) /\ Busy(q)' = Busy(q)
    BY DEF IInv, Busy
<1>3. BatchTx(q)'
    BY <1>2, SameTxKeepsBatch DEF BatchTx
<1>4. ASSUME Busy(q)  PROVE LockedScope(q)' /\ Reading(q)'
    <2>1. LockedScope(q) /\ Reading(q) /\ Undisturbed(q)
        BY <1>2, <1>4 DEF BusyInv
    <2>2. LockedScope(q)'
        BY <2>1 DEF LockedScope, Undisturbed, Busy
    <2>. QED  BY <2>1, <2>2, SameTxKeepsReading
<1>. QED  BY <1>2, <1>3, <1>4 DEF BusyInv

-----------------------------------------------------------------------------
(* Types, the initial state, and small facts about steps *)

LEMMA TypesImplyTypeOK == Types => TypeOK
<1>. SUFFICES ASSUME Types  PROVE TypeOK
    OBVIOUS
<1>1. ASSUME NEW b \in Batch
      PROVE  /\ batch[b].run \in Run \cup {None}
             /\ batch[b].state \in {"NONE", "CREATED", "RESULT_READY", "COMMITTED"} \cup Verdict
             /\ (batch[b].run = None) = (batch[b].state = "NONE")
             /\ batch[b].cands \subseteq Candidate
             /\ \A n \in DOMAIN batch[b].reports :
                   batch[b].reports[n] \in [by : Run, items : [batch[b].cands -> Verdict]]
             /\ batch[b].expired \in BOOLEAN
    <2>1. batch[b] \in BatchRecord /\ BatchOK(batch[b])
        BY DEF Types
    <2>. QED  BY <2>1, Zenon DEF BatchRecord, BatchState, BatchOK
<1>2. ASSUME NEW r \in Run
      PROVE  /\ tx[r].kind \in TxKind /\ tx[r].pc \in TxPc
             /\ tx[r].batch \in Batch \cup {None} /\ tx[r].report \in Nat
             /\ tx[r].want \subseteq Fact /\ tx[r].sel \subseteq facts /\ tx[r].held \subseteq facts
             /\ tx[r].result \in TxResult
    BY DEF Types, TxRecord
<1>. QED  BY <1>1, <1>2, Zenon DEF TypeOK, Types, FactsOK

LEMMA NoTxIs == NoTx \in TxRecord
BY DEF NoTx, TxRecord, TxKind, TxPc, TxResult

LEMMA NoBatchIs == NoBatch \in BatchRecord /\ BatchOK(NoBatch)
<1>1. <<>> \in Seq(Report) /\ Len(<<>>) = 0 /\ DOMAIN <<>> = {}
    OBVIOUS
<1>2. NoBatch \in BatchRecord
    BY <1>1 DEF NoBatch, BatchRecord, BatchState
<1>. QED  BY <1>1, <1>2, PublicationAssumption DEF NoBatch, BatchOK

LEMMA InitInvariant == Init => IInv
<1>. SUFFICES ASSUME Init  PROVE IInv
    OBVIOUS
<1>1. FactsOK
    BY EarlierAssumption DEF Init, FactsOK, Graph
<1>2. \A b \in Batch : batch[b] = NoBatch
    BY DEF Init
<1>3. \A r \in Run : tx[r] = NoTx
    BY DEF Init
<1>4. Types
    <2>1. batch \in [Batch -> BatchRecord] /\ \A b \in Batch : BatchOK(batch[b])
        BY <1>2, NoBatchIs DEF Init
    <2>2. tx \in [Run -> TxRecord] /\ \A r \in Run : tx[r].sel \cup tx[r].held \subseteq facts
        BY <1>3, NoTxIs DEF Init, NoTx
    <2>. QED  BY <1>1, <2>1, <2>2 DEF Types
<1>. QED  BY <1>3, <1>4 DEF IInv, RowsLocked, BatchTx, BusyInv, Busy, NoTx

\* A transaction that changes only its own row.
LEMMA TxChanges ==
    ASSUME IInv, NEW r \in Run, NEW t \in TxRecord, t.sel \cup t.held \subseteq facts,
           tx' = [tx EXCEPT ![r] = t], UNCHANGED <<facts, invalid, live, batch, done>>
    PROVE  /\ Types' /\ tx'[r] = t
           /\ \A q \in Run \ {r} : tx'[q] = tx[q] /\ (Busy(q) => Undisturbed(q))
           /\ \A b \in Batch : SameBatch(b)
<1>1. Types /\ \A q \in Run : Busy(q) => Scope[q] \subseteq live
    BY DEF IInv, BusyInv, LockedScope
<1>2. tx \in [Run -> TxRecord] /\ \A q \in Run : tx[q].sel \cup tx[q].held \subseteq facts
    BY <1>1 DEF Types
<1>3. /\ tx' \in [Run -> TxRecord] /\ tx'[r] = t /\ \A q \in Run \ {r} : tx'[q] = tx[q]
      /\ \A q \in Run : tx'[q].sel \cup tx'[q].held \subseteq facts
    BY <1>2
<1>4. Types'
    BY <1>1, <1>3 DEF Types, FactsOK
<1>. QED  BY <1>1, <1>3, <1>4 DEF Undisturbed, SameBatch

LEMMA ValidAreFacts ==
    ASSUME FactsOK, NEW r \in Run
    PROVE  Valid(r) \subseteq facts /\ \A S \in SUBSET facts : Graph(S) \subseteq facts
BY DEF FactsOK, Valid, Graph

-----------------------------------------------------------------------------
(* readFactsTx *)

\* A statement of readFactsTx leaves everything but its own findings alone.
LEMMA ReadingKeeps ==
    ASSUME IInv, NEW r \in Run, NEW t \in TxRecord, t.sel \cup t.held \subseteq facts,
           tx' = [tx EXCEPT ![r] = t], UNCHANGED <<facts, invalid, live, batch, done>>,
           t.kind = tx[r].kind, t.batch = tx[r].batch, t.report = tx[r].report, t.want = tx[r].want,
           Busy(r) => Reading(r)'
    PROVE  IInv'
<1>1. /\ Types' /\ tx'[r] = t
      /\ \A q \in Run \ {r} : tx'[q] = tx[q] /\ (Busy(q) => Undisturbed(q))
      /\ \A b \in Batch : SameBatch(b)
    BY TxChanges
<1>2. BatchTx(r) /\ BusyInv(r) /\ Busy(r)' = Busy(r)
    BY <1>1 DEF IInv, Busy
<1>3. BatchTx(r)'
    <2>1. batch' = batch /\ Good(r)' = Good(r)
        BY <1>1 DEF Good, Passed
    <2>. QED  BY <1>1, <1>2, <2>1 DEF BatchTx, SameScope, Mine, CurrentReport
<1>4. ASSUME Busy(r)  PROVE LockedScope(r)'
    <2>1. LockedScope(r)
        BY <1>2, <1>4 DEF BusyInv
    <2>2. \A q \in Run : Busy(q)' = Busy(q)
        BY <1>1, <1>2 DEF Busy
    <2>. QED  BY <2>1, <2>2 DEF LockedScope
<1>. QED  BY <1>1, <1>2, <1>3, <1>4, RunKeeps

LEMMA SelectKeeps ==
    ASSUME IInv, NEW r \in Run, SelectFacts(r)
    PROVE  IInv'
<1>1. PICK S : S = Selected(r)
    OBVIOUS
<1> DEFINE t == [tx[r] EXCEPT !.sel = S, !.held = @ \cup S,
                              !.pc = IF @ = "ids" THEN "idsLock" ELSE "reqsLock"]
<1>2. /\ FactsOK /\ tx[r] \in TxRecord /\ tx[r].held \subseteq facts /\ tx \in [Run -> TxRecord]
    BY DEF IInv, Types
<1>3. S \subseteq Valid(r) /\ S \subseteq facts /\ S \subseteq Fact
    <2>1. S \subseteq Valid(r)
        BY <1>1 DEF Selected
    <2>. QED  BY <1>2, <2>1, ValidAreFacts DEF FactsOK
<1>4. /\ t \in TxRecord /\ t.sel = S /\ t.held = tx[r].held \cup S
      /\ t.pc = IF tx[r].pc = "ids" THEN "idsLock" ELSE "reqsLock"
      /\ t.kind = tx[r].kind /\ t.batch = tx[r].batch /\ t.report = tx[r].report
      /\ t.want = tx[r].want /\ t.result = tx[r].result
    <2>1. tx[r].held \cup S \in SUBSET Fact /\ S \in SUBSET Fact
        BY <1>2, <1>3 DEF TxRecord
    <2>2. (IF tx[r].pc = "ids" THEN "idsLock" ELSE "reqsLock") \in TxPc
        BY DEF TxPc
    <2>. QED  BY <1>2, <2>1, <2>2 DEF TxRecord
<1>5. tx' = [tx EXCEPT ![r] = t] /\ UNCHANGED <<facts, invalid, live, batch, done>>
    BY <1>1, <1>2 DEF SelectFacts
<1>. HIDE DEF t
<1>6. tx'[r] = t
    BY <1>2, <1>5
<1>7. ASSUME Busy(r)  PROVE Reading(r)'
    <2>1. Reading(r)
        BY <1>7 DEF IInv, BusyInv
    <2>2. CASE At(r, "ids")
        BY <1>4, <1>6, <2>2 DEF At, Reading, Answered
    <2>3. CASE At(r, "reqs")
        <3>1. tx[r].kind = "read" \/ WantHeld(r)
            BY <2>1, <2>3 DEF Reading
        <3>2. WantHeld(r) => WantHeld(r)'
            BY <1>4, <1>5, <1>6 DEF WantHeld, Valid, InScope, Unopposed, Peers
        <3>3. S = {f \in Valid(r) : \E w \in tx[r].want : w.req = f.req}
            BY <1>1, <2>3 DEF Selected, At
        <3>4. ASSUME NEW g \in facts, g.inputs = {}, InScope(g, r), \E w \in tx[r].want : w.req = g.req
              PROVE  g \in S
            BY <3>3, <3>4 DEF Valid
        <3>5. Found(r)'
            BY <1>4, <1>5, <1>6, <3>3, <3>4 DEF Found, Complete, InScope
        <3>. QED  BY <1>4, <1>6, <2>3, <3>1, <3>2, <3>5 DEF At, Reading, Answered
    <2>. QED  BY <2>2, <2>3 DEF SelectFacts
<1>. QED  BY <1>2, <1>3, <1>4, <1>5, <1>7, ReadingKeeps

LEMMA LockGraphKeeps ==
    ASSUME IInv, NEW r \in Run, LockGraph(r)
    PROVE  IInv'
<1>1. PICK H : H = tx[r].held \cup Graph(tx[r].sel)
    OBVIOUS
<1> DEFINE t == [tx[r] EXCEPT !.held = H, !.pc = IF @ = "idsLock" THEN "idsCount" ELSE "reqsCount"]
<1>2. /\ FactsOK /\ tx[r] \in TxRecord /\ tx \in [Run -> TxRecord]
      /\ tx[r].held \subseteq facts /\ tx[r].sel \subseteq facts
    BY DEF IInv, Types
<1>3. H \subseteq facts /\ H \subseteq Fact
    BY <1>1, <1>2, ValidAreFacts DEF FactsOK
<1>4. /\ t \in TxRecord /\ t.sel = tx[r].sel /\ t.held = H
      /\ t.pc = IF tx[r].pc = "idsLock" THEN "idsCount" ELSE "reqsCount"
      /\ t.kind = tx[r].kind /\ t.batch = tx[r].batch /\ t.report = tx[r].report
      /\ t.want = tx[r].want /\ t.result = tx[r].result
    <2>1. (IF tx[r].pc = "idsLock" THEN "idsCount" ELSE "reqsCount") \in TxPc
        BY DEF TxPc
    <2>. QED  BY <1>2, <1>3, <2>1 DEF TxRecord
<1>5. tx' = [tx EXCEPT ![r] = t] /\ UNCHANGED <<facts, invalid, live, batch, done>>
    BY <1>1, <1>2 DEF LockGraph
<1>. HIDE DEF t
<1>6. tx'[r] = t
    BY <1>2, <1>5
<1>7. ASSUME Busy(r)  PROVE Reading(r)'
    <2>1. Reading(r)
        BY <1>7 DEF IInv, BusyInv
    <2>2. SelHeld(r)'
        BY <1>1, <1>4, <1>6 DEF SelHeld
    <2>3. CASE At(r, "idsLock")
        BY <1>4, <1>6, <2>2, <2>3 DEF At, Reading, Answered
    <2>4. CASE At(r, "reqsLock")
        <3>1. Found(r) /\ (tx[r].kind = "read" \/ WantHeld(r))
            BY <2>1, <2>4 DEF Reading
        <3>2. WantHeld(r) => WantHeld(r)'
            BY <1>1, <1>4, <1>5, <1>6 DEF WantHeld, Valid, InScope, Unopposed, Peers
        <3>3. Found(r)'
            BY <1>4, <1>5, <1>6, <3>1 DEF Found, Complete, InScope
        <3>. QED  BY <1>4, <1>6, <2>2, <2>4, <3>1, <3>2, <3>3 DEF At, Reading, Answered
    <2>. QED  BY <2>3, <2>4 DEF LockGraph
<1>. QED  BY <1>2, <1>3, <1>4, <1>5, <1>7, ReadingKeeps

\* The count changes where the transaction stands and what came out, no more.
LEMMA CountKeeps ==
    ASSUME IInv, NEW r \in Run, NEW p \in TxPc, NEW x \in TxResult,
           tx' = [tx EXCEPT ![r].result = x, ![r].pc = p],
           UNCHANGED <<facts, invalid, live, batch, done>>,
           Busy(r) => \/ p = "reqs" /\ WantHeld(r)
                      \/ p = "end" /\ x # "ok"
                      \/ p = "end" /\ At(r, "reqsCount") /\ SelGood(r)
    PROVE  IInv'
<1> DEFINE t == [tx[r] EXCEPT !.result = x, !.pc = p]
<1>1. tx[r] \in TxRecord /\ tx \in [Run -> TxRecord] /\ tx[r].sel \cup tx[r].held \subseteq facts
    BY DEF IInv, Types
<1>2. /\ t \in TxRecord /\ t.sel = tx[r].sel /\ t.held = tx[r].held /\ t.pc = p /\ t.result = x
      /\ t.kind = tx[r].kind /\ t.batch = tx[r].batch /\ t.report = tx[r].report
      /\ t.want = tx[r].want
    BY <1>1 DEF TxRecord
<1>3. tx' = [tx EXCEPT ![r] = t]
    BY <1>1
<1>. HIDE DEF t
<1>4. tx'[r] = t
    BY <1>1, <1>3
<1>5. ASSUME Busy(r)  PROVE Reading(r)'
    <2>1. Reading(r)
        BY <1>5 DEF IInv, BusyInv
    <2>2. Valid(r)' = Valid(r)
        BY DEF Valid, InScope, Unopposed, Peers
    <2>3. WantHeld(r) => WantHeld(r)'
        BY <1>2, <1>4, <2>2 DEF WantHeld
    <2>4. Found(r) => Found(r)'
        <3>1. \A g : InScope(g, r)' = InScope(g, r)
            BY DEF InScope
        <3>2. Complete(r) => Complete(r)'
            BY <1>2, <1>4, <3>1 DEF Complete
        <3>. QED  BY <1>2, <1>4, <3>2 DEF Found
    <2>5. SelHeld(r) /\ SelGood(r) => SelHeld(r)' /\ SelGood(r)'
        BY <1>2, <1>4, <2>2 DEF SelHeld, SelGood
    <2>6. CASE p = "reqs" /\ WantHeld(r)
        BY <1>2, <1>4, <2>3, <2>6 DEF At, Reading, Answered
    <2>7. CASE p = "end" /\ x # "ok"
        BY <1>2, <1>4, <2>7 DEF At, Reading, Answered
    <2>8. CASE p = "end" /\ At(r, "reqsCount") /\ SelGood(r)
        <3>1. Found(r) /\ SelHeld(r) /\ (tx[r].kind = "read" \/ WantHeld(r))
            BY <2>1, <2>8 DEF Reading
        <3>. QED  BY <1>2, <1>4, <2>3, <2>4, <2>5, <2>8, <3>1 DEF Reading
    <2>. QED  BY <1>5, <2>6, <2>7, <2>8
<1>. QED  BY <1>1, <1>2, <1>3, <1>5, ReadingKeeps

LEMMA CountIdsKeeps ==
    ASSUME IInv, NEW r \in Run, CountIds(r)
    PROVE  IInv'
<1>1. tx[r] \in TxRecord /\ tx \in [Run -> TxRecord]
    BY DEF IInv, Types
<1>2. CASE StillValid(r) /\ tx[r].sel = tx[r].want /\ tx[r].kind # "derive"
    <2>1. tx' = [tx EXCEPT ![r].result = tx[r].result, ![r].pc = "reqs"]
        BY <1>1, <1>2 DEF CountIds, TxRecord
    <2>2. tx[r].result \in TxResult /\ "reqs" \in TxPc
        BY <1>1 DEF TxRecord, TxPc
    <2>3. ASSUME Busy(r)  PROVE WantHeld(r)
        <3>1. SelHeld(r)
            BY <2>3 DEF IInv, BusyInv, Reading, CountIds
        <3>. QED  BY <1>2, <3>1 DEF WantHeld, SelHeld, StillValid
    <2>. QED  BY <2>1, <2>2, <2>3, CountKeeps DEF CountIds
<1>3. CASE ~(StillValid(r) /\ tx[r].sel = tx[r].want /\ tx[r].kind # "derive")
    <2>1. PICK x \in {"invalid", "found"} : tx' = [tx EXCEPT ![r].result = x, ![r].pc = "end"]
        BY <1>3 DEF CountIds, Result
    <2>2. x \in TxResult /\ x # "ok" /\ "end" \in TxPc
        BY DEF TxResult, TxPc
    <2>. QED  BY <2>1, <2>2, CountKeeps DEF CountIds
<1>. QED  BY <1>2, <1>3

LEMMA CountReqsKeeps ==
    ASSUME IInv, NEW r \in Run, CountReqs(r)
    PROVE  IInv'
<1>1. PICK x : x = IF StillValid(r) /\ Covered(tx[r].want, tx[r].sel) THEN "ok" ELSE "conflict"
    OBVIOUS
<1>2. tx' = [tx EXCEPT ![r].result = x, ![r].pc = "end"]
    BY <1>1 DEF CountReqs, Result
<1>3. x = "ok" => SelGood(r)
    BY <1>1 DEF SelGood, StillValid
<1>4. x \in TxResult /\ "end" \in TxPc
    BY <1>1 DEF TxResult, TxPc
<1>. QED  BY <1>2, <1>3, <1>4, CountKeeps DEF CountReqs

-----------------------------------------------------------------------------
(* Transactions that open *)

\* Whoever enters has the documents of its scope to itself.
LEMMA EnterLocks ==
    ASSUME IInv, NEW r \in Run, Enter(r)
    PROVE  /\ Scope[r] \subseteq live /\ ~Busy(r)
           /\ \A q \in Run \ {r} : Busy(q) => Scope[r] \cap Scope[q] = {}
BY DEF Enter, DocumentLocked, Busy

LEMMA OpenKeeps ==
    ASSUME IInv, NEW r \in Run, Enter(r),
           NEW k \in TxKind, NEW b \in Batch \cup {None}, NEW n \in Nat,
           NEW W \in SUBSET Fact, NEW pc \in TxPc, Open(r, k, b, n, W, pc),
           UNCHANGED <<facts, invalid, live, batch, done>>,
           pc \in {"ids", "end"} \/ k = "read",
           pc \notin {"reqsLock", "idsCount", "reqsCount"},
           IF k \in {"validate", "commit"} THEN b \in Batch /\ LoadBatch(r, b) ELSE b = None,
           k = "validate" => batch[b].cands # {},
           k = "commit" => CurrentReport(r, b, n) /\ W = Inputs(Passed(b, n))
    PROVE  IInv'
<1> DEFINE t == [NoTx EXCEPT !.kind = k, !.batch = b, !.report = n, !.want = W, !.pc = pc]
<1>1. /\ t \in TxRecord /\ t.kind = k /\ t.batch = b /\ t.report = n /\ t.want = W /\ t.pc = pc
      /\ t.sel = {} /\ t.held = {} /\ t.result = "none"
    BY NoTxIs DEF NoTx, TxRecord
<1>2. tx' = [tx EXCEPT ![r] = t]
    BY DEF Open
<1>. HIDE DEF t
<1>3. /\ Types' /\ tx'[r] = t
      /\ \A q \in Run \ {r} : tx'[q] = tx[q] /\ (Busy(q) => Undisturbed(q))
      /\ \A x \in Batch : SameBatch(x)
    BY <1>1, <1>2, TxChanges
<1>4. BatchTx(r)'
    <2>1. Good(r)' = Passed(b, n)
        BY <1>1, <1>3 DEF Good, Passed
    <2>. QED  BY <1>1, <1>3, <2>1 DEF BatchTx, LoadBatch, SameScope, Mine, CurrentReport
<1>7. tx'[r].batch = None \/ ~BatchLocked(tx'[r].batch)
    BY <1>1, <1>3 DEF LoadBatch
<1>5. LockedScope(r)'
    BY <1>3, EnterLocks DEF LockedScope, Busy
<1>6. Reading(r)'
    BY <1>1, <1>3 DEF Reading, At, Answered
<1>. QED  BY <1>3, <1>4, <1>5, <1>6, <1>7, RunKeeps

LEMMA BeginValidateKeeps ==
    ASSUME IInv, NEW r \in Run, NEW b \in Batch, BeginValidate(r, b)
    PROVE  IInv'
<1>1. PICK C : C = batch[b].cands
    OBVIOUS
<1>2. batch[b] \in BatchRecord
    BY DEF IInv, Types
<1>3. C \in SUBSET Candidate
    BY <1>1, <1>2 DEF BatchRecord
<1>4. Inputs(C) \in SUBSET Fact
    BY <1>3, InputsAreFacts
<1>5. ReadFirst(C) \in {"ids", "end"} /\ ReadFirst(C) \in TxPc
    BY DEF ReadFirst, TxPc
<1>6. "validate" \in TxKind /\ 0 \in Nat
    BY DEF TxKind
<1>7. /\ Enter(r) /\ LoadBatch(r, b) /\ C # {}
      /\ Open(r, "validate", b, 0, Inputs(C), ReadFirst(C))
      /\ UNCHANGED <<facts, invalid, live, batch, done>>
    BY <1>1 DEF BeginValidate, Revalidatable
<1>. QED  BY <1>1, <1>4, <1>5, <1>6, <1>7, OpenKeeps

LEMMA BeginCommitKeeps ==
    ASSUME IInv, NEW r \in Run, NEW b \in Batch, NEW n \in Nat, BeginCommit(r, b, n)
    PROVE  IInv'
<1>1. PICK C : C = Passed(b, n)
    OBVIOUS
<1>2. batch[b] \in BatchRecord
    BY DEF IInv, Types
<1>3. C \in SUBSET Candidate
    BY <1>1, <1>2 DEF BatchRecord, Passed
<1>4. Inputs(C) \in SUBSET Fact
    BY <1>3, InputsAreFacts
<1>5. ReadFirst(C) \in {"ids", "end"} /\ ReadFirst(C) \in TxPc
    BY DEF ReadFirst, TxPc
<1>6. "commit" \in TxKind
    BY DEF TxKind
<1>7. /\ Enter(r) /\ LoadBatch(r, b) /\ CurrentReport(r, b, n)
      /\ Open(r, "commit", b, n, Inputs(C), ReadFirst(C))
      /\ UNCHANGED <<facts, invalid, live, batch, done>>
    BY <1>1 DEF BeginCommit
<1>. QED  BY <1>1, <1>4, <1>5, <1>6, <1>7, OpenKeeps

LEMMA BeginReadKeeps ==
    ASSUME IInv, NEW r \in Run, NEW w \in facts, BeginRead(r, w)
    PROVE  IInv'
<1>1. {w} \in SUBSET Fact /\ "read" \in TxKind /\ "reqs" \in TxPc /\ 0 \in Nat
    BY DEF IInv, Types, FactsOK, TxKind, TxPc
<1>. QED  BY <1>1, OpenKeeps DEF BeginRead

LEMMA BeginAnswerKeeps ==
    ASSUME IInv, NEW r \in Run, NEW S \in SUBSET facts, BeginAnswer(r, S)
    PROVE  IInv'
<1>1. S \in SUBSET Fact /\ "answer" \in TxKind /\ "ids" \in TxPc /\ 0 \in Nat
    BY DEF IInv, Types, FactsOK, TxKind, TxPc
<1>. QED  BY <1>1, OpenKeeps DEF BeginAnswer

LEMMA BeginDeriveKeeps ==
    ASSUME IInv, NEW r \in Run, NEW S \in SUBSET facts, BeginDerive(r, S)
    PROVE  IInv'
<1>1. S \in SUBSET Fact /\ "derive" \in TxKind /\ "ids" \in TxPc /\ 0 \in Nat
    BY DEF IInv, Types, FactsOK, TxKind, TxPc
<1>. QED  BY <1>1, OpenKeeps DEF BeginDerive

-----------------------------------------------------------------------------
(* Transactions that end *)

LEMMA CloseKeeps ==
    ASSUME IInv, NEW r \in Run, Close(r), FactsOK', facts \subseteq facts',
           batch' \in [Batch -> BatchRecord], \A b \in Batch : BatchOK(batch'[b]),
           \A q \in Run \ {r} : Busy(q) => Undisturbed(q),
           \A b \in Batch : SameBatch(b) \/ \A q \in Run \ {r} : tx[q].batch # b
    PROVE  IInv'
<1>1. tx \in [Run -> TxRecord] /\ \A q \in Run : tx[q].sel \cup tx[q].held \subseteq facts
    BY DEF IInv, Types
<1>2. /\ NoTx.kind = "none" /\ NoTx.sel = {} /\ NoTx.held = {} /\ NoTx.batch = None
      /\ tx' \in [Run -> TxRecord] /\ tx'[r] = NoTx /\ \A q \in Run \ {r} : tx'[q] = tx[q]
    BY <1>1, NoTxIs DEF Close, NoTx
<1>3. Types'
    <2>1. ASSUME NEW q \in Run  PROVE tx'[q].sel \cup tx'[q].held \subseteq facts'
        BY <1>1, <1>2
    <2>2. \A b \in Batch : BatchOK(batch[b])'
        BY DEF BatchOK
    <2>. QED  BY <1>2, <2>1, <2>2 DEF Types
<1>4. BatchTx(r)' /\ ~Busy(r)' /\ tx'[r].batch = None
    BY <1>2 DEF BatchTx, Busy
<1>. QED  BY <1>2, <1>3, <1>4, RunKeeps

\* Nothing is stored by a transaction that rolls back, reads, or answers.
LEMMA EmptyCloseKeeps ==
    ASSUME IInv, NEW r \in Run, Close(r), UNCHANGED <<facts, invalid, live, batch>>,
           done' \subseteq Run
    PROVE  IInv'
<1>1. Types /\ \A q \in Run : Busy(q) => Scope[q] \subseteq live
    BY DEF IInv, BusyInv, LockedScope
<1>2. FactsOK' /\ batch' \in [Batch -> BatchRecord] /\ \A b \in Batch : BatchOK(batch'[b])
    BY <1>1 DEF Types, FactsOK
<1>3. /\ \A q \in Run \ {r} : Busy(q) => Undisturbed(q)
      /\ \A b \in Batch : SameBatch(b)
    BY <1>1 DEF Undisturbed, SameBatch
<1>. QED  BY <1>2, <1>3, CloseKeeps

\* What is judged is a verdict.
LEMMA JudgeIs ==
    ASSUME NEW r \in Run, NEW c \in Candidate
    PROVE  Judge(r, c) \in Verdict
BY CandidateIs DEF Judge, Verdict

\* A transaction's batch is not another's.
LEMMA OwnBatch ==
    ASSUME IInv, NEW r \in Run, tx[r].batch # None
    PROVE  \A q \in Run \ {r} : tx[q].batch # tx[r].batch
BY DEF IInv, RowsLocked

LEMMA ValidateKeeps ==
    ASSUME IInv, NEW r \in Run, ValidateCandidates(r)
    PROVE  IInv'
<1> DEFINE b == tx[r].batch
           items == [c \in batch[b].cands |-> Judge(r, c)]
           report == [by |-> r, items |-> items]
           s == Overall({items[c] : c \in batch[b].cands})
<1>1. batch' = [batch EXCEPT ![b].reports = Append(@, report), ![b].expired = FALSE, ![b].state = s]
    BY DEF ValidateCandidates
<1>2. Types /\ BatchTx(r) /\ tx[r].kind = "validate"
    BY DEF IInv, ValidateCandidates
<1>3. /\ b \in Batch /\ batch[b].run # None /\ batch[b].cands # {}
      /\ \A q \in Run \ {r} : tx[q].batch # b
    BY <1>2, OwnBatch, PublicationAssumption DEF BatchTx, Mine, SameScope
<1>4. PICK x : x = batch[b]
    OBVIOUS
<1>5. x \in BatchRecord /\ BatchOK(x) /\ batch \in [Batch -> BatchRecord]
    BY <1>2, <1>3, <1>4 DEF Types
<1>6. x.cands \in SUBSET Candidate /\ x.reports \in Seq(Report) /\ x.run # None
    BY <1>3, <1>4, <1>5 DEF BatchRecord
<1>7. report \in [by : Run, items : [x.cands -> Verdict]] /\ report \in Report
    <2>1. items \in [x.cands -> Verdict]
        BY <1>4, <1>6, JudgeIs
    <2>. HIDE DEF items
    <2>. QED  BY <1>6, <2>1 DEF Report
<1>8. s \in BatchState /\ s # "NONE"
    BY DEF Overall, BatchState, Verdict
<1>. HIDE DEF b, report, s
<1>9. PICK R : R = Append(x.reports, report)
    OBVIOUS
<1>10. /\ R \in Seq(Report)
       /\ \A n \in DOMAIN R : R[n] \in [by : Run, items : [x.cands -> Verdict]]
    <2>1. /\ R \in Seq(Report) /\ DOMAIN R = 1..Len(R)
          /\ \A n \in 1..Len(R) : R[n] = report \/ (n \in 1..Len(x.reports) /\ R[n] = x.reports[n])
        BY <1>6, <1>7, <1>9
    <2>2. DOMAIN x.reports = 1..Len(x.reports)
        BY <1>6
    <2>. QED  BY <1>5, <1>7, <2>1, <2>2 DEF BatchOK
<1> DEFINE y == [x EXCEPT !.reports = R, !.expired = FALSE, !.state = s]
<1>11. /\ y \in BatchRecord /\ y.run = x.run /\ y.cands = x.cands /\ y.reports = R /\ y.state = s
    BY <1>5, <1>8, <1>10 DEF BatchRecord
<1>12. batch' = [batch EXCEPT ![b] = y]
    BY <1>1, <1>3, <1>4, <1>5, <1>9
<1>13. BatchOK(y)
    BY <1>3, <1>4, <1>5, <1>6, <1>8, <1>10, <1>11 DEF BatchOK
<1>. HIDE DEF y
<1>14. /\ batch' \in [Batch -> BatchRecord] /\ \A a \in Batch : BatchOK(batch'[a])
       /\ \A a \in Batch : SameBatch(a) \/ \A q \in Run \ {r} : tx[q].batch # a
    <2>1. \A a \in Batch : batch'[a] = IF a = b THEN y ELSE batch[a]
        BY <1>5, <1>12
    <2>2. \A a \in Batch : BatchOK(batch[a])
        BY <1>2 DEF Types
    <2>. QED  BY <1>3, <1>5, <1>11, <1>12, <1>13, <2>1, <2>2 DEF SameBatch
<1>15. /\ Close(r) /\ UNCHANGED <<facts, invalid, live, done>>
       /\ \A q \in Run \ {r} : Busy(q) => Undisturbed(q)
    BY DEF ValidateCandidates, IInv, BusyInv, LockedScope, Undisturbed
<1>16. FactsOK'
    BY <1>2, <1>15 DEF Types, FactsOK
<1>. QED  BY <1>14, <1>15, <1>16, CloseKeeps

\* What is published is a candidate that the report has validated; if it is
\* derived, its inputs have been read.
LEMMA CommitPublishes ==
    ASSUME IInv, NEW r \in Run, CommitExtraction(r), NEW f \in facts' \ facts
    PROVE  /\ f \in Fact /\ f.version \in Scope[r]
           /\ \E c \in Good(r) : c.fact = f
           /\ f.inputs # {} => f.inputs \subseteq tx[r].want /\ Answered(r)
<1>1. /\ Confirmed(r, Good(r)) /\ facts' = facts \cup {c.fact : c \in Good(r)}
      /\ tx[r].kind = "commit" /\ At(r, "end")
    BY DEF CommitExtraction, Good
<1>2. PICK c \in Good(r) : c.fact = f
    BY <1>1
<1>3. /\ tx[r].batch \in Batch /\ Scope[batch[tx[r].batch].run] = Scope[r]
      /\ tx[r].want = Inputs(Good(r))
    BY <1>1 DEF IInv, BatchTx, Mine, SameScope
<1>4. batch[tx[r].batch] \in BatchRecord /\ BatchOK(batch[tx[r].batch])
    BY <1>3 DEF IInv, Types
<1>5. c \in batch[tx[r].batch].cands /\ Good(r) \subseteq Candidate
    BY <1>2, <1>4 DEF Good, Passed, BatchRecord
<1>6. f \in Fact /\ f.inputs \subseteq tx[r].want
    BY <1>2, <1>3, <1>5, CandidateIs, InputsAreFacts
<1>7. f.version \in Scope[r]
    BY <1>2, <1>3, <1>4, <1>5 DEF BatchOK, Graph
<1>8. ASSUME f.inputs # {}  PROVE tx[r].result = "ok"
    BY <1>1, <1>2, <1>8 DEF Confirmed, Judge
<1>. QED  BY <1>1, <1>2, <1>6, <1>7, <1>8 DEF Answered

LEMMA CommitKeeps ==
    ASSUME IInv, NEW r \in Run, CommitExtraction(r)
    PROVE  IInv'
<1>1. /\ Types /\ BatchTx(r) /\ BusyInv(r) /\ tx[r].kind = "commit"
      /\ Close(r) /\ UNCHANGED <<invalid, live, done>>
    BY DEF IInv, CommitExtraction
<1>2. facts \subseteq facts'
    BY DEF CommitExtraction
<1>3. FactsOK'
    <2>1. ASSUME NEW f \in facts' \ facts  PROVE f \in Fact /\ f.inputs \subseteq facts
        <3>1. f \in Fact /\ (f.inputs # {} => f.inputs \subseteq tx[r].want /\ Answered(r))
            BY CommitPublishes
        <3>2. Answered(r) => tx[r].want \subseteq Valid(r)
            BY <1>1 DEF BusyInv, Busy, Reading, WantHeld
        <3>. QED  BY <3>1, <3>2 DEF Valid
    <2>. QED  BY <1>1, <1>2, <2>1 DEF Types, FactsOK
<1> DEFINE b == tx[r].batch
<1>4. b \in Batch /\ batch[b].run # None
    BY <1>1 DEF BatchTx, Mine, SameScope
<1>5. PICK s \in BatchState \ {"NONE"} : batch' = [batch EXCEPT ![b].state = s]
    <2>1. batch[b] \in BatchRecord /\ BatchOK(batch[b])
        BY <1>1, <1>4 DEF Types
    <2>2. batch[b].state \in BatchState \ {"NONE"}
        BY <1>4, <2>1 DEF BatchRecord, BatchOK
    <2>3. batch \in [Batch -> BatchRecord] /\ "COMMITTED" \in BatchState
        BY <1>1 DEF Types, BatchState
    <2>4. batch = [batch EXCEPT ![b].state = batch[b].state]
        BY <1>4, <2>3 DEF BatchRecord
    <2>5. \/ batch' = batch
          \/ batch' = [batch EXCEPT ![b].state = batch[b].state]
          \/ batch' = [batch EXCEPT ![b].state = "COMMITTED"]
        BY DEF CommitExtraction
    <2>. HIDE DEF b
    <2>. QED  BY <2>2, <2>3, <2>4, <2>5
<1>. HIDE DEF b
<1>6. /\ batch' \in [Batch -> BatchRecord] /\ \A a \in Batch : BatchOK(batch'[a])
      /\ \A a \in Batch : SameBatch(a)
    <2>1. batch \in [Batch -> BatchRecord] /\ \A a \in Batch : BatchOK(batch[a])
        BY <1>1 DEF Types
    <2>2. PICK y : y = [batch[b] EXCEPT !.state = s]
        OBVIOUS
    <2>3. /\ y \in BatchRecord /\ y.run = batch[b].run /\ y.cands = batch[b].cands
          /\ y.reports = batch[b].reports /\ y.state = s
        BY <1>4, <2>1, <2>2 DEF BatchRecord
    <2>4. BatchOK(y)
        BY <1>4, <2>1, <2>3 DEF BatchOK
    <2>5. batch' \in [Batch -> BatchRecord] /\ \A a \in Batch : batch'[a] = IF a = b THEN y ELSE batch[a]
        BY <1>5, <2>1, <2>2, <2>3
    <2>. QED  BY <2>1, <2>3, <2>4, <2>5 DEF SameBatch
<1>7. ASSUME NEW q \in Run \ {r}, Busy(q)  PROVE Undisturbed(q)
    <2>1. Scope[q] \subseteq live /\ Scope[q] \cap Scope[r] = {}
        BY <1>1, <1>7 DEF IInv, BusyInv, LockedScope, Busy
    <2>2. \A f \in facts' \ facts : f.version \in Scope[r]
        BY CommitPublishes
    <2>. QED  BY <1>1, <1>2, <2>1, <2>2 DEF Undisturbed
<1>. QED  BY <1>1, <1>2, <1>3, <1>6, <1>7, CloseKeeps

-----------------------------------------------------------------------------
(* Batches that are made and filled *)

LEMMA BatchKeeps ==
    ASSUME IInv, NEW r \in Run, Enter(r), NEW b \in Batch, ~BatchLocked(b),
           NEW y \in BatchRecord, BatchOK(y), batch' = [batch EXCEPT ![b] = y],
           UNCHANGED <<facts, invalid, live, tx, done>>
    PROVE  IInv'
<1>1. Types /\ BatchTx(r) /\ ~Busy(r)
    BY EnterLocks DEF IInv
<1>2. /\ batch' \in [Batch -> BatchRecord]
      /\ \A a \in Batch : batch'[a] = IF a = b THEN y ELSE batch[a]
    BY <1>1 DEF Types
<1>3. Types'
    BY <1>1, <1>2 DEF Types, FactsOK
<1>4. \A a \in Batch : SameBatch(a) \/ \A q \in Run \ {r} : tx[q].batch # a
    BY <1>2 DEF SameBatch, BatchLocked
<1>5. BatchTx(r)' /\ ~Busy(r)' /\ tx'[r].batch = tx[r].batch
    BY <1>1 DEF Busy, BatchTx
<1>6. \A q \in Run \ {r} : tx'[q] = tx[q] /\ (Busy(q) => Undisturbed(q))
    BY DEF IInv, BusyInv, LockedScope, Undisturbed
<1>. QED  BY <1>3, <1>4, <1>5, <1>6, RunKeeps

\* A batch that nobody has made is nobody's, and nobody works on it.
LEMMA NoBatchIsFree ==
    ASSUME IInv, NEW b \in Batch, batch[b].state = "NONE"
    PROVE  batch[b].run = None /\ ~BatchLocked(b)
<1>1. batch[b].run = None
    BY DEF IInv, Types, BatchOK
<1>2. \A r \in Run : tx[r].batch # b
    BY <1>1, PublicationAssumption DEF IInv, BatchTx, Mine, SameScope
<1>. QED  BY <1>1, <1>2 DEF BatchLocked

LEMMA EmptyBatchIs ==
    ASSUME NEW r \in Run, NEW y, y = [NoBatch EXCEPT !.run = r, !.state = "CREATED"]
    PROVE  y \in BatchRecord /\ BatchOK(y) /\ y.run = r /\ y.state = "CREATED"
<1>1. y.run = r /\ y.state = "CREATED" /\ y.cands = {} /\ y.reports = <<>>
    BY DEF NoBatch
<1>2. y \in BatchRecord
    BY NoBatchIs DEF BatchRecord, BatchState
<1>3. BatchOK(y)
    BY <1>1, NoBatchIs, PublicationAssumption DEF BatchOK, NoBatch
<1>. QED  BY <1>1, <1>2, <1>3

LEMMA BeginExtractionKeeps ==
    ASSUME IInv, NEW r \in Run, NEW b \in Batch, BeginExtraction(r, b)
    PROVE  IInv'
<1>1. PICK y : y = [NoBatch EXCEPT !.run = r, !.state = "CREATED"]
    OBVIOUS
<1>2. /\ Enter(r) /\ ~BatchLocked(b) /\ batch' = [batch EXCEPT ![b] = y]
      /\ UNCHANGED <<facts, invalid, live, tx, done>>
    BY <1>1, NoBatchIsFree DEF BeginExtraction
<1>. QED  BY <1>1, <1>2, EmptyBatchIs, BatchKeeps

LEMMA DeriveFactsKeeps ==
    ASSUME IInv, NEW r \in Run, NEW b \in Batch, DeriveFacts(r, b)
    PROVE  IInv'
<1>1. PICK y : y = [NoBatch EXCEPT !.run = r, !.state = "CREATED"]
    OBVIOUS
<1>2. /\ ~BatchLocked(b) /\ batch' = [batch EXCEPT ![b] = y]
      /\ Close(r) /\ UNCHANGED <<facts, invalid, live, done>>
    BY <1>1, NoBatchIsFree DEF DeriveFacts
<1>3. y \in BatchRecord /\ BatchOK(y)
    BY <1>1, EmptyBatchIs
<1>4. batch \in [Batch -> BatchRecord] /\ (\A a \in Batch : BatchOK(batch[a])) /\ FactsOK
    BY DEF IInv, Types
<1>5. \A a \in Batch : batch'[a] = IF a = b THEN y ELSE batch[a]
    BY <1>2, <1>4
<1>6. batch' \in [Batch -> BatchRecord] /\ \A a \in Batch : BatchOK(batch'[a])
    BY <1>2, <1>3, <1>4, <1>5
<1>7. \A a \in Batch : SameBatch(a) \/ \A q \in Run \ {r} : tx[q].batch # a
    BY <1>2, <1>5 DEF SameBatch, BatchLocked
<1>8. FactsOK' /\ \A q \in Run \ {r} : Busy(q) => Undisturbed(q)
    BY <1>2, <1>4 DEF FactsOK, IInv, BusyInv, LockedScope, Undisturbed
<1>. QED  BY <1>2, <1>6, <1>7, <1>8, CloseKeeps

LEMMA StoreCandidatesKeeps ==
    ASSUME IInv, NEW r \in Run, NEW b \in Batch, NEW C \in Results(r), StoreCandidates(r, b, C)
    PROVE  IInv'
<1> DEFINE y == [batch[b] EXCEPT !.cands = C, !.state = "RESULT_READY"]
<1>1. /\ Enter(r) /\ ~BatchLocked(b) /\ batch[b].cands = {}
      /\ batch[b].run # None /\ Scope[batch[b].run] = Scope[r]
      /\ UNCHANGED <<facts, invalid, live, tx, done>>
    BY DEF StoreCandidates, LoadBatch, Mine, SameScope, Storable
<1>2. /\ batch \in [Batch -> BatchRecord] /\ batch[b] \in BatchRecord /\ BatchOK(batch[b])
    BY DEF IInv, Types
<1>3. batch' = [batch EXCEPT ![b] = y]
    BY <1>2 DEF StoreCandidates
<1>4. C \subseteq Candidate /\ \A c \in C : \A f \in Graph({c.fact}) : f.version \in Scope[r]
    BY ExtractedAssumption DEF Results
<1>5. /\ y \in BatchRecord /\ y.run = batch[b].run /\ y.state = "RESULT_READY" /\ y.cands = C
      /\ y.reports = batch[b].reports
    BY <1>1, <1>2, <1>4 DEF BatchRecord, BatchState
<1>6. y.reports = <<>>
    BY <1>1, <1>2, <1>5 DEF BatchOK
<1>7. BatchOK(y)
    <2>1. DOMAIN <<>> = {}
        OBVIOUS
    <2>. HIDE DEF y
    <2>. QED  BY <1>1, <1>4, <1>5, <1>6, <2>1 DEF BatchOK
<1>. HIDE DEF y
<1>. QED  BY <1>1, <1>3, <1>5, <1>7, BatchKeeps

-----------------------------------------------------------------------------
(* What others do *)

LEMMA ReportExpiresKeeps ==
    ASSUME IInv, NEW b \in Batch, ReportExpires(b)
    PROVE  IInv'
<1>1. Types
    BY DEF IInv
<1>2. PICK y : y = [batch[b] EXCEPT !.expired = TRUE]
    OBVIOUS
<1>3. /\ y \in BatchRecord /\ y.run = batch[b].run /\ y.state = batch[b].state
      /\ y.cands = batch[b].cands /\ y.reports = batch[b].reports
    BY <1>1, <1>2 DEF Types, BatchRecord
<1>4. batch' \in [Batch -> BatchRecord] /\ \A a \in Batch : batch'[a] = IF a = b THEN y ELSE batch[a]
    BY <1>1, <1>2, <1>3 DEF Types, ReportExpires
<1>5. BatchOK(y)
    <2>1. BatchOK(batch[b])
        BY <1>1 DEF Types
    <2>. QED  BY <1>3, <2>1, Zenon DEF BatchOK
<1>6. UNCHANGED <<facts, invalid, live, tx, done>>
    BY DEF ReportExpires
<1>7. Types'
    BY <1>1, <1>4, <1>5, <1>6 DEF Types, FactsOK
<1>8. /\ \A a \in Batch : SameBatch(a)
      /\ \A q \in Run : Busy(q) => Undisturbed(q)
    BY <1>3, <1>4, <1>6 DEF SameBatch, IInv, BusyInv, LockedScope, Undisturbed
<1>. QED  BY <1>6, <1>7, <1>8, OthersKeep

LEMMA InvalidateKeeps ==
    ASSUME IInv, NEW f \in facts, Invalidate(f)
    PROVE  IInv'
<1>1. Types' /\ UNCHANGED tx /\ \A b \in Batch : SameBatch(b)
    BY DEF IInv, Types, FactsOK, Invalidate, SameBatch
<1>2. \A q \in Run : Busy(q) => Undisturbed(q)
    BY DEF IInv, BusyInv, LockedScope, Undisturbed, Invalidate, FactLocked
<1>. QED  BY <1>1, <1>2, OthersKeep

LEMMA LeaveScopeKeeps ==
    ASSUME IInv, NEW v \in Version, LeaveScope(v)
    PROVE  IInv'
<1>1. Types' /\ UNCHANGED tx /\ \A b \in Batch : SameBatch(b)
    BY DEF IInv, Types, FactsOK, LeaveScope, SameBatch
<1>2. \A q \in Run : Busy(q) => Undisturbed(q)
    BY DEF IInv, BusyInv, LockedScope, Undisturbed, LeaveScope, DocumentLocked, Busy
<1>. QED  BY <1>1, <1>2, OthersKeep

-----------------------------------------------------------------------------
(* Every step *)

LEMMA NextInvariant == IInv /\ [Next]_vars => IInv'
<1>1. ASSUME IInv, NEW r \in Run, Step(r)  PROVE IInv'
    <2>1. ASSUME Rollback(r) \/ ReadFacts(r)  PROVE IInv'
        <3>1. done' \subseteq Run
            BY <1>1, <2>1 DEF Rollback, ReadFacts, IInv, Types, FactsOK
        <3>. QED  BY <1>1, <2>1, <3>1, EmptyCloseKeeps DEF Rollback, ReadFacts
    <2>2. ASSUME FinishRun(r)  PROVE IInv'
        <3>1. done' \subseteq Run
            BY <1>1, <2>2 DEF FinishRun, IInv, Types, FactsOK
        <3>. QED  BY <1>1, <2>2, <3>1, EmptyCloseKeeps DEF FinishRun
    <2>. QED  BY <1>1, <2>1, <2>2, SelectKeeps, LockGraphKeeps, CountIdsKeeps, CountReqsKeeps,
                 ValidateKeeps, CommitKeeps, DeriveFactsKeeps DEF Step
<1>2. ASSUME IInv, NEW r \in Run, Request(r)  PROVE IInv'
    <2>1. \A S \in {{f, g} : f, g \in facts} : S \in SUBSET facts
        OBVIOUS
    <2>2. \A b \in Batch : 1..MaxReports[b] \subseteq Nat
        OBVIOUS
    <2>. QED  BY <1>2, <2>1, <2>2, BeginExtractionKeeps, BeginValidateKeeps, StoreCandidatesKeeps,
                 BeginCommitKeeps, BeginDeriveKeeps, BeginReadKeeps, BeginAnswerKeeps DEF Request
<1>3. ASSUME IInv, UNCHANGED vars  PROVE IInv'
    <2>1. UNCHANGED tx /\ \A q \in Run : Busy(q) => Undisturbed(q)
        BY <1>3 DEF vars, IInv, BusyInv, LockedScope, Undisturbed
    <2>2. Types' /\ \A b \in Batch : SameBatch(b)
        BY <1>3 DEF vars, IInv, Types, FactsOK, SameBatch
    <2>. QED  BY <1>3, <2>1, <2>2, OthersKeep
<1>. QED  BY <1>1, <1>2, <1>3, ReportExpiresKeeps, InvalidateKeeps, LeaveScopeKeeps DEF Next

LEMMA Invariant == Spec => []IInv
BY InitInvariant, NextInvariant, PTL DEF Spec

-----------------------------------------------------------------------------
(* The theorems *)

\* The rows of facts, batches and open transactions keep their types: no fact
\* is published before its inputs, every report judges exactly the candidates
\* of its batch, and what a transaction has read and locked are facts.
THEOREM PublicationTypes == Spec => []TypeOK
<1>1. IInv => TypeOK
    BY TypesImplyTypeOK DEF IInv
<1>. QED  BY <1>1, Invariant, PTL

\* When a transaction's reading has been accepted, a fact that it asked for or
\* found stands if it counts: whatever could contradict it has been found too.
LEMMA AcceptedStands ==
    ASSUME IInv, NEW r \in Run, Busy(r), Answered(r),
           NEW f \in Valid(r), \E w \in tx[r].want : w.req = f.req
    PROVE  Stands(f, r)
<1>1. SUFFICES ASSUME NEW g \in Valid(r), g.req = f.req  PROVE g.value = f.value
    BY DEF Stands
<1>2. FactsOK /\ Found(r) /\ SelGood(r)
    BY DEF IInv, Types, BusyInv, Reading
<1>3. f \in facts /\ g \in facts /\ f \in Fact /\ g \in Fact /\ InScope(f, r) /\ InScope(g, r)
    BY <1>2 DEF Valid, FactsOK
<1>4. CASE f.req = "margin"
    <2>1. f \in DerivedFacts /\ g \in DerivedFacts
        BY <1>1, <1>3, <1>4, FactIs
    <2>. QED  BY <1>2, <2>1, MarginsAgree DEF FactsOK
<1>5. CASE f.req # "margin"
    <2>1. f.inputs = {} /\ g.inputs = {}
        BY <1>1, <1>3, <1>5, FactIs, ReportedIs
    <2>2. f \in tx[r].sel /\ g \in tx[r].sel
        BY <1>1, <1>2, <1>3, <2>1 DEF Found, Complete
    <2>. QED  BY <1>1, <1>2, <2>2 DEF SelGood, Covered
<1>. QED  BY <1>4, <1>5

\* Every fact of an accepted answer, and of a requirement that is reported as
\* covered, stands at that moment, for any number of runs over any documents.
THEOREM AnswersStand == Spec => AnswerStands
<1>1. ASSUME IInv, NEW r \in Run, FinishRun(r), tx[r].result = "ok", NEW f \in tx[r].want
      PROVE  Stands(f, r)
    <2>1. Busy(r) /\ Answered(r) /\ tx[r].kind = "answer"
        BY <1>1 DEF FinishRun, Busy, Answered
    <2>2. f \in Valid(r)
        BY <1>1, <2>1 DEF IInv, BusyInv, Reading, WantHeld
    <2>. QED  BY <1>1, <2>1, <2>2, AcceptedStands
<1>2. ASSUME IInv, NEW r \in Run, ReadFacts(r), tx[r].result = "ok", NEW f \in tx[r].sel
      PROVE  Stands(f, r)
    <2>1. Busy(r) /\ Answered(r)
        BY <1>2 DEF ReadFacts, Busy, Answered
    <2>2. f \in Valid(r) /\ \E w \in tx[r].want : w.req = f.req
        BY <1>2, <2>1 DEF IInv, BusyInv, Reading, SelGood, Found
    <2>. QED  BY <1>2, <2>1, <2>2, AcceptedStands
<1>3. IInv => [\A r \in Run :
                /\ FinishRun(r) /\ tx[r].result = "ok" => \A f \in tx[r].want : Stands(f, r)
                /\ ReadFacts(r) /\ tx[r].result = "ok" => \A f \in tx[r].sel : Stands(f, r)]_vars
    BY <1>1, <1>2
<1>. QED  BY <1>3, Invariant, PTL DEF AnswerStands

\* Only a commit publishes.
LEMMA OnlyCommitPublishes ==
    ASSUME Next, NEW f \in facts' \ facts
    PROVE  \E r \in Run : CommitExtraction(r)
<1>1. ASSUME NEW r \in Run, Step(r), ~CommitExtraction(r)  PROVE facts' = facts
    BY <1>1 DEF Step, SelectFacts, LockGraph, CountIds, CountReqs, ValidateCandidates, ReadFacts,
                FinishRun, Rollback, DeriveFacts
<1>2. ASSUME NEW r \in Run, Request(r)  PROVE facts' = facts
    <2>1. \A b : BeginExtraction(r, b) \/ BeginValidate(r, b) => facts' = facts
        BY DEF BeginExtraction, BeginValidate
    <2>2. \A b, C : StoreCandidates(r, b, C) => facts' = facts
        BY DEF StoreCandidates
    <2>3. \A b, n : BeginCommit(r, b, n) => facts' = facts
        BY DEF BeginCommit
    <2>4. \A S : BeginDerive(r, S) => facts' = facts
        BY DEF BeginDerive
    <2>5. \A w : BeginRead(r, w) \/ BeginAnswer(r, w) => facts' = facts
        BY DEF BeginRead, BeginAnswer
    <2>. QED  BY <1>2, <2>1, <2>2, <2>3, <2>4, <2>5 DEF Request
<1>3. ASSUME \/ \E b \in Batch : ReportExpires(b)
             \/ \E g \in facts : Invalidate(g)
             \/ \E v \in Version : LeaveScope(v)
      PROVE  facts' = facts
    BY <1>3 DEF ReportExpires, Invalidate, LeaveScope
<1>4. facts' # facts
    OBVIOUS
<1>. QED  BY <1>1, <1>2, <1>3, <1>4, Zenon DEF Next

\* A derived fact is published on inputs that stand.
THEOREM DerivedOnStanding == Spec => DerivedFromValid
<1>1. ASSUME IInv, Next, NEW f \in facts' \ facts, f.inputs # {}
      PROVE  \E r \in Run : tx[r].kind = "commit" /\ \A x \in f.inputs : Stands(x, r)
    <2>1. PICK r \in Run : CommitExtraction(r)
        BY <1>1, OnlyCommitPublishes
    <2>2. f.inputs \subseteq tx[r].want /\ Answered(r)
        BY <1>1, <2>1, CommitPublishes
    <2>3. tx[r].kind = "commit" /\ Busy(r)
        BY <2>1 DEF CommitExtraction, Busy
    <2>4. tx[r].want \subseteq Valid(r)
        BY <1>1, <2>2, <2>3 DEF IInv, BusyInv, Reading, WantHeld
    <2>5. ASSUME NEW x \in f.inputs  PROVE Stands(x, r)
        BY <1>1, <2>2, <2>3, <2>4, AcceptedStands
    <2>. QED  BY <2>3, <2>5
<1>2. ASSUME IInv, UNCHANGED vars  PROVE facts' \ facts = {}
    BY <1>2 DEF vars
<1>3. IInv /\ [Next]_vars =>
        [\A f \in facts' \ facts : f.inputs # {} =>
            \E r \in Run : tx[r].kind = "commit" /\ \A x \in f.inputs : Stands(x, r)]_vars
    BY <1>1, <1>2
<1>. QED  BY <1>3, Invariant, PTL DEF Spec, DerivedFromValid

\* Whatever is published is validated in the latest report of its batch, made by
\* the run that publishes it, for any number of runs that may revalidate it.
THEOREM LatestReportPublishes == Spec => LatestReportDecides
<1>1. ASSUME IInv, Next, NEW f \in facts' \ facts
      PROVE  \E r \in Run : \E b \in Batch :
                /\ tx[r].kind = "commit" /\ tx[r].batch = b
                /\ \E c \in Items(b, "VALIDATED") : c.fact = f
                /\ Latest(b).by = r
    <2>1. PICK r \in Run : CommitExtraction(r)
        BY <1>1, OnlyCommitPublishes
    <2>2. PICK c \in Good(r) : c.fact = f
        BY <1>1, <2>1, CommitPublishes
    <2>3. /\ tx[r].batch \in Batch /\ tx[r].kind = "commit"
          /\ CurrentReport(r, tx[r].batch, tx[r].report)
        BY <1>1, <2>1 DEF CommitExtraction, IInv, BatchTx
    <2>4. batch[tx[r].batch].reports # <<>> /\ Latest(tx[r].batch).by = r
        BY <2>3 DEF CurrentReport, Latest
    <2>5. c \in Items(tx[r].batch, "VALIDATED")
        BY <2>2, <2>3, <2>4 DEF Good, Passed, Items, Latest, CurrentReport
    <2>. QED  BY <2>2, <2>3, <2>4, <2>5
<1>2. ASSUME IInv, UNCHANGED vars  PROVE facts' \ facts = {}
    BY <1>2 DEF vars
<1>3. IInv /\ [Next]_vars =>
        [\A f \in facts' \ facts : \E r \in Run : \E b \in Batch :
            /\ tx[r].kind = "commit" /\ tx[r].batch = b
            /\ \E c \in Items(b, "VALIDATED") : c.fact = f
            /\ Latest(b).by = r]_vars
    BY <1>1, <1>2
<1>. QED  BY <1>3, Invariant, PTL DEF Spec, LatestReportDecides

-----------------------------------------------------------------------------
(* A batch is published as a whole *)

CommittedIsWhole(b) ==
    batch[b].state = "COMMITTED" => \A c \in Items(b, "VALIDATED") : c.fact \in facts

\* Nobody is validating a batch that has been committed.
CommittedIsFinal(r) == tx[r].kind = "validate" => batch[tx[r].batch].state # "COMMITTED"

WholeInv == (\A b \in Batch : CommittedIsWhole(b)) /\ (\A r \in Run : CommittedIsFinal(r))

\* A step that leaves the states and reports of batches alone, and removes no
\* fact, opens at most a transaction that may be open.
LEMMA BatchesAlone ==
    ASSUME WholeInv, UNCHANGED batch, facts \subseteq facts',
           \A r \in Run : tx'[r].kind = "validate" =>
                            \/ tx[r].kind = "validate" /\ tx'[r].batch = tx[r].batch
                            \/ batch[tx'[r].batch].state # "COMMITTED"
    PROVE  WholeInv'
<1>1. \A b \in Batch : Items(b, "VALIDATED")' = Items(b, "VALIDATED")
    BY DEF Items, Latest
<1>. QED  BY <1>1 DEF WholeInv, CommittedIsWhole, CommittedIsFinal

\* One of run r that gives a batch, on which no other run works, a record that
\* is not committed.
LEMMA BatchReplaced ==
    ASSUME IInv, WholeInv, NEW r \in Run, NEW b \in Batch, \A q \in Run \ {r} : tx[q].batch # b,
           NEW y, y.state # "COMMITTED", batch' = [batch EXCEPT ![b] = y], UNCHANGED facts,
           tx'[r].kind # "validate", \A q \in Run \ {r} : tx'[q] = tx[q]
    PROVE  WholeInv'
<1>1. \A a \in Batch : batch'[a] = IF a = b THEN y ELSE batch[a]
    BY DEF IInv, Types
<1>2. ASSUME NEW a \in Batch  PROVE CommittedIsWhole(a)'
    <2>1. CASE a = b
        BY <1>1, <2>1 DEF CommittedIsWhole
    <2>2. CASE a # b
        <3>1. batch'[a] = batch[a] /\ CommittedIsWhole(a)
            BY <1>1, <2>2 DEF WholeInv
        <3>2. Items(a, "VALIDATED")' = Items(a, "VALIDATED")
            BY <3>1 DEF Items, Latest
        <3>. QED  BY <3>1, <3>2 DEF CommittedIsWhole
    <2>. QED  BY <2>1, <2>2
<1>3. ASSUME NEW q \in Run  PROVE CommittedIsFinal(q)'
    <2>1. CASE q = r
        BY <2>1 DEF CommittedIsFinal
    <2>2. CASE q # r
        <3>1. tx'[q] = tx[q] /\ CommittedIsFinal(q) /\ BatchTx(q)
            BY <2>2 DEF WholeInv, IInv
        <3>2. ASSUME tx[q].kind = "validate"  PROVE batch'[tx[q].batch] = batch[tx[q].batch]
            <4>1. tx[q].batch \in Batch
                BY <3>1, <3>2 DEF BatchTx
            <4>2. tx[q].batch # b
                BY <2>2
            <4>. QED  BY <1>1, <4>1, <4>2
        <3>. QED  BY <3>1, <3>2 DEF CommittedIsFinal
    <2>. QED  BY <2>1, <2>2
<1>. QED  BY <1>2, <1>3 DEF WholeInv

LEMMA ReadingAlone ==
    ASSUME IInv, WholeInv, NEW r \in Run,
           SelectFacts(r) \/ LockGraph(r) \/ CountIds(r) \/ CountReqs(r)
    PROVE  WholeInv'
<1>1. UNCHANGED <<facts, batch>>
    BY DEF SelectFacts, LockGraph, CountIds, CountReqs
<1>2. \A q \in Run : tx'[q].kind = tx[q].kind /\ tx'[q].batch = tx[q].batch
    <2>1. tx \in [Run -> TxRecord]
        BY DEF IInv, Types
    <2>. USE DEF TxRecord
    <2>2. CASE SelectFacts(r)
        BY <2>1, <2>2 DEF SelectFacts
    <2>3. CASE LockGraph(r)
        BY <2>1, <2>3 DEF LockGraph
    <2>4. CASE CountIds(r) \/ CountReqs(r)
        BY <2>1, <2>4 DEF CountIds, CountReqs, Result
    <2>. QED  BY <2>2, <2>3, <2>4
<1>. QED  BY <1>1, <1>2, BatchesAlone

LEMMA CloseAlone ==
    ASSUME IInv, NEW r \in Run, Close(r)
    PROVE  tx'[r].kind # "validate" /\ \A q \in Run \ {r} : tx'[q] = tx[q]
BY DEF Close, NoTx, IInv, Types

LEMMA CommitWhole ==
    ASSUME IInv, WholeInv, NEW r \in Run, CommitExtraction(r)
    PROVE  WholeInv'
<1> DEFINE b == tx[r].batch
<1>1. Close(r) /\ tx[r].kind = "commit" /\ facts \subseteq facts'
    BY DEF CommitExtraction
<1>2. /\ b \in Batch /\ tx[r].report = Len(batch[b].reports)
      /\ batch \in [Batch -> BatchRecord] /\ \A q \in Run \ {r} : tx[q].batch # b
    BY <1>1, OwnBatch, PublicationAssumption DEF IInv, BatchTx, CurrentReport, Types
<1>3. \/ batch' = batch
      \/ /\ batch' = [batch EXCEPT ![b].state = "COMMITTED"]
         /\ facts' = facts \cup {c.fact : c \in Good(r)}
    <2>1. batch = [batch EXCEPT ![b].state = batch[b].state]
        BY <1>2 DEF BatchRecord
    <2>. QED  BY <2>1 DEF CommitExtraction, Good
<1>4. CASE batch' = batch
    <2>1. \A q \in Run : tx'[q].kind = "validate" => tx[q].kind = "validate" /\ tx'[q].batch = tx[q].batch
        BY <1>1, CloseAlone
    <2>. HIDE DEF b
    <2>. QED  BY <1>1, <1>4, <2>1, BatchesAlone
<1>5. CASE /\ batch' = [batch EXCEPT ![b].state = "COMMITTED"]
           /\ facts' = facts \cup {c.fact : c \in Good(r)}
    <2>1. Items(b, "VALIDATED") \subseteq Good(r)
        BY <1>2 DEF Items, Latest, Good, Passed
    <2>. HIDE DEF b
    <2>2. ASSUME NEW a \in Batch  PROVE Items(a, "VALIDATED")' = Items(a, "VALIDATED")
        <3>1. batch'[a].cands = batch[a].cands /\ batch'[a].reports = batch[a].reports
            BY <1>2, <1>5 DEF BatchRecord
        <3>. QED  BY <3>1 DEF Items, Latest
    <2>3. ASSUME NEW a \in Batch  PROVE CommittedIsWhole(a)'
        <3>1. CASE a = b
            BY <1>5, <2>1, <2>2, <3>1 DEF CommittedIsWhole
        <3>2. CASE a # b
            <4>1. batch'[a] = batch[a] /\ CommittedIsWhole(a)
                BY <1>2, <1>5, <3>2 DEF WholeInv
            <4>. QED  BY <1>1, <2>2, <4>1 DEF CommittedIsWhole
        <3>. QED  BY <3>1, <3>2
    <2>4. ASSUME NEW q \in Run  PROVE CommittedIsFinal(q)'
        <3>1. CASE q = r
            BY <1>1, <3>1, CloseAlone DEF CommittedIsFinal
        <3>2. CASE q # r
            <4>1. tx'[q] = tx[q] /\ CommittedIsFinal(q) /\ BatchTx(q)
                BY <1>1, <3>2, CloseAlone DEF WholeInv, IInv
            <4>2. ASSUME tx[q].kind = "validate"  PROVE batch'[tx[q].batch] = batch[tx[q].batch]
                <5>1. tx[q].batch \in Batch
                    BY <4>1, <4>2 DEF BatchTx
                <5>2. tx[q].batch # b
                    BY <1>2, <3>2
                <5>. QED  BY <1>2, <1>5, <5>1, <5>2
            <4>. QED  BY <4>1, <4>2 DEF CommittedIsFinal
        <3>. QED  BY <3>1, <3>2
    <2>. QED  BY <2>3, <2>4 DEF WholeInv
<1>. QED  BY <1>3, <1>4, <1>5

LEMMA StepWhole ==
    ASSUME IInv, WholeInv, NEW r \in Run, Step(r)
    PROVE  WholeInv'
<1>1. CASE Rollback(r) \/ ReadFacts(r) \/ FinishRun(r)
    <2>1. Close(r) /\ UNCHANGED <<facts, batch>>
        BY <1>1 DEF Rollback, ReadFacts, FinishRun
    <2>2. \A q \in Run : tx'[q].kind = "validate" => tx[q].kind = "validate" /\ tx'[q].batch = tx[q].batch
        BY <2>1, CloseAlone
    <2>. QED  BY <2>1, <2>2, BatchesAlone
<1>2. CASE ValidateCandidates(r)
    <2> DEFINE b == tx[r].batch
               items == [c \in batch[b].cands |-> Judge(r, c)]
               report == [by |-> r, items |-> items]
               s == Overall({items[c] : c \in batch[b].cands})
    <2>1. /\ batch' = [batch EXCEPT ![b].reports = Append(@, report), ![b].expired = FALSE, ![b].state = s]
          /\ Close(r) /\ UNCHANGED facts /\ tx[r].kind = "validate"
        BY <1>2 DEF ValidateCandidates
    <2>2. s # "COMMITTED"
        BY DEF Overall
    <2>3. /\ b \in Batch /\ batch[b] \in BatchRecord /\ batch \in [Batch -> BatchRecord]
          /\ \A q \in Run \ {r} : tx[q].batch # b
        BY <2>1, OwnBatch, PublicationAssumption DEF IInv, BatchTx, Types
    <2>. HIDE DEF b, items, report, s
    <2>4. PICK y : y = [batch[b] EXCEPT !.reports = Append(@, report), !.expired = FALSE, !.state = s]
        OBVIOUS
    <2>5. batch' = [batch EXCEPT ![b] = y] /\ y.state = s
        BY <2>1, <2>3, <2>4 DEF BatchRecord
    <2>6. PICK a : a = b
        OBVIOUS
    <2>7. /\ a \in Batch /\ y.state # "COMMITTED" /\ \A q \in Run \ {r} : tx[q].batch # a
          /\ batch' = [batch EXCEPT ![a] = y] /\ UNCHANGED facts
        BY <2>1, <2>2, <2>3, <2>5, <2>6
    <2>8. tx'[r].kind # "validate" /\ \A q \in Run \ {r} : tx'[q] = tx[q]
        BY <2>1, CloseAlone
    <2>. QED  BY <2>7, <2>8, BatchReplaced
<1>3. ASSUME NEW b \in Batch, DeriveFacts(r, b)  PROVE WholeInv'
    <2>1. PICK y : y = [NoBatch EXCEPT !.run = r, !.state = "CREATED"]
        OBVIOUS
    <2>2. y.state = "CREATED" /\ batch' = [batch EXCEPT ![b] = y] /\ Close(r) /\ UNCHANGED facts
        BY <1>3, <2>1 DEF DeriveFacts, NoBatch
    <2>3. \A q \in Run \ {r} : tx[q].batch # b
        BY <1>3, NoBatchIsFree DEF DeriveFacts, BatchLocked
    <2>4. tx'[r].kind # "validate" /\ \A q \in Run \ {r} : tx'[q] = tx[q]
        BY <2>2, CloseAlone
    <2>. QED  BY <2>2, <2>3, <2>4, BatchReplaced
<1>. QED  BY <1>1, <1>2, <1>3, ReadingAlone, CommitWhole DEF Step

LEMMA RequestWhole ==
    ASSUME IInv, WholeInv, NEW r \in Run, Request(r)
    PROVE  WholeInv'
<1>1. ASSUME NEW k, NEW b, NEW n, NEW W, NEW pc, Open(r, k, b, n, W, pc), UNCHANGED <<facts, batch>>,
             k = "validate" => batch[b].state # "COMMITTED"
      PROVE  WholeInv'
    <2>1. tx \in [Run -> TxRecord]
        BY DEF IInv, Types
    <2>2. tx'[r].kind = k /\ tx'[r].batch = b /\ \A q \in Run \ {r} : tx'[q] = tx[q]
        BY <1>1, <2>1 DEF Open, NoTx
    <2>3. \A q \in Run : tx'[q].kind = "validate" => \/ tx[q].kind = "validate" /\ tx'[q].batch = tx[q].batch
                                                   \/ batch[tx'[q].batch].state # "COMMITTED"
        BY <1>1, <2>2
    <2>. QED  BY <1>1, <2>3, BatchesAlone
<1>2. ASSUME NEW b \in Batch, BeginValidate(r, b)  PROVE WholeInv'
    <2>1. /\ Open(r, "validate", b, 0, Inputs(batch[b].cands), ReadFirst(batch[b].cands))
          /\ batch[b].state # "COMMITTED" /\ UNCHANGED <<facts, batch>>
        BY <1>2 DEF BeginValidate, Revalidatable
    <2>. QED  BY <1>1, <2>1
<1>3. ASSUME NEW b \in Batch, NEW n, BeginCommit(r, b, n)  PROVE WholeInv'
    <2>1. PICK C : C = Passed(b, n)
        OBVIOUS
    <2>2. Open(r, "commit", b, n, Inputs(C), ReadFirst(C)) /\ UNCHANGED <<facts, batch>>
        BY <1>3, <2>1 DEF BeginCommit
    <2>. QED  BY <1>1, <2>2
<1>4. ASSUME NEW w, BeginRead(r, w) \/ BeginAnswer(r, w) \/ BeginDerive(r, w)  PROVE WholeInv'
    <2>1. /\ \/ Open(r, "read", None, 0, {w}, "reqs")
             \/ Open(r, "answer", None, 0, w, "ids")
             \/ Open(r, "derive", None, 0, w, "ids")
          /\ UNCHANGED <<facts, batch>>
        BY <1>4 DEF BeginRead, BeginAnswer, BeginDerive
    <2>. QED  BY <1>1, <2>1
<1>5. ASSUME Enter(r), NEW b \in Batch, ~BatchLocked(b), NEW y, y.state # "COMMITTED",
             batch' = [batch EXCEPT ![b] = y], UNCHANGED <<facts, tx>>
      PROVE  WholeInv'
    <2>1. tx'[r].kind # "validate" /\ \A q \in Run \ {r} : tx'[q] = tx[q]
        BY <1>5 DEF Enter
    <2>2. \A q \in Run \ {r} : tx[q].batch # b
        BY <1>5 DEF BatchLocked
    <2>. QED  BY <1>5, <2>1, <2>2, BatchReplaced
<1>6. ASSUME NEW b \in Batch, BeginExtraction(r, b)  PROVE WholeInv'
    <2>1. PICK y : y = [NoBatch EXCEPT !.run = r, !.state = "CREATED"]
        OBVIOUS
    <2>2. y.state = "CREATED" /\ batch' = [batch EXCEPT ![b] = y] /\ Enter(r) /\ UNCHANGED <<facts, tx>>
        BY <1>6, <2>1 DEF BeginExtraction, NoBatch
    <2>3. ~BatchLocked(b)
        BY <1>6, NoBatchIsFree DEF BeginExtraction
    <2>. QED  BY <1>5, <2>2, <2>3
<1>7. ASSUME NEW b \in Batch, NEW C, StoreCandidates(r, b, C)  PROVE WholeInv'
    <2>1. batch[b] \in BatchRecord /\ batch \in [Batch -> BatchRecord]
        BY DEF IInv, Types
    <2>2. PICK y : y = [batch[b] EXCEPT !.cands = C, !.state = "RESULT_READY"]
        OBVIOUS
    <2>3. /\ y.state = "RESULT_READY" /\ batch' = [batch EXCEPT ![b] = y] /\ ~BatchLocked(b)
          /\ Enter(r) /\ UNCHANGED <<facts, tx>>
        BY <1>7, <2>1, <2>2 DEF StoreCandidates, LoadBatch, BatchRecord
    <2>. QED  BY <1>5, <2>3
<1>. QED  BY <1>2, <1>3, <1>4, <1>6, <1>7 DEF Request

LEMMA WholeInvariant == IInv /\ WholeInv /\ [Next]_vars => WholeInv'
<1>. SUFFICES ASSUME IInv, WholeInv, [Next]_vars  PROVE WholeInv'
    OBVIOUS
<1>1. ASSUME NEW b \in Batch, ReportExpires(b)  PROVE WholeInv'
    <2>1. batch \in [Batch -> BatchRecord]
        BY DEF IInv, Types
    <2>2. UNCHANGED <<facts, tx>> /\ batch' = [batch EXCEPT ![b].expired = TRUE]
        BY <1>1 DEF ReportExpires
    <2>3. ASSUME NEW a \in Batch
          PROVE  /\ batch'[a].state = batch[a].state /\ batch'[a].cands = batch[a].cands
                 /\ batch'[a].reports = batch[a].reports
        BY <2>1, <2>2 DEF BatchRecord
    <2>4. \A a \in Batch : Items(a, "VALIDATED")' = Items(a, "VALIDATED")
        BY <2>3 DEF Items, Latest
    <2>5. ASSUME NEW r \in Run  PROVE CommittedIsFinal(r)'
        BY <2>2, <2>3 DEF IInv, BatchTx, WholeInv, CommittedIsFinal
    <2>. QED  BY <2>2, <2>3, <2>4, <2>5 DEF WholeInv, CommittedIsWhole
<1>2. CASE \/ \E f \in facts : Invalidate(f)
           \/ \E v \in Version : LeaveScope(v)
           \/ UNCHANGED vars
    <2>1. UNCHANGED <<facts, batch, tx>>
        BY <1>2 DEF Invalidate, LeaveScope, vars
    <2>. QED  BY <2>1, BatchesAlone
<1>. QED  BY <1>1, <1>2, StepWhole, RequestWhole DEF Next

\* The validated candidates of a batch are published together or not at all:
\* once it is COMMITTED, all that its latest report has validated are facts.
THEOREM BatchesWhole == Spec => [](\A b \in Batch : CommittedIsWhole(b))
<1>1. Init => WholeInv
    BY DEF Init, NoBatch, NoTx, WholeInv, CommittedIsWhole, CommittedIsFinal
<1>2. WholeInv => \A b \in Batch : CommittedIsWhole(b)
    BY DEF WholeInv
<1>. QED  BY <1>1, <1>2, WholeInvariant, Invariant, PTL DEF Spec

-----------------------------------------------------------------------------
(* The order of the locks *)

CONSTANTS Tx, RunId, Doc, HotOnly
VARIABLES todo, shared, exclusive

Locks == INSTANCE LockOrder WITH Run <- RunId   \* the ids of runs are numbers there

\* The order: sweepers and idempotency keys, runs, jobs, documents, admission,
\* versions, calls, budgets; within a table by id.
Level == [sweepers |-> 0, keys |-> 1, runs |-> 2, jobs |-> 3, documents |-> 4,
          admission |-> 5, versions |-> 6, calls |-> 7, budgets |-> 8]
Table == {"sweepers", "keys", "runs", "jobs", "documents", "admission", "versions", "calls", "budgets"}
LockId == Table \X Nat

Below(k, l) == \/ Level[k[1]] < Level[l[1]]
               \/ k[1] = l[1] /\ k[2] < l[2]

StatementType == [table : Table, rows : SUBSET Nat, mode : {"S", "X"}, skip : BOOLEAN]

\* After s, the statement r waits only above what s locked or for nothing.
Follows(s, r) ==
    ~r.skip => \A a \in s.rows, b \in r.rows :
                  \/ Below(<<s.table, a>>, <<r.table, b>>)
                  \/ s.table = r.table /\ a = b /\ (s.mode = "X" \/ r.mode = "S")

InOrder(h) == \A i, j \in 1..Len(h) : i < j => Follows(h[i], h[j])

-----------------------------------------------------------------------------
(* The order *)

LEMMA BelowTransitive ==
    ASSUME NEW j \in LockId, NEW k \in LockId, NEW l \in LockId, Below(j, k), Below(k, l)
    PROVE  Below(j, l)
BY DEF Below, LockId, Table, Level

LEMMA BelowIrreflexive ==
    ASSUME NEW l \in LockId
    PROVE  ~Below(l, l)
BY DEF Below, LockId, Table, Level

\* The rows of a statement have a least one: the finite sets 0..r, ordered by
\* inclusion, have a minimal one.
LEMMA LeastRow ==
    ASSUME NEW R \in SUBSET Nat, R # {}
    PROVE  Locks!Min(R) \in R /\ \A r \in R : Locks!Min(R) <= r
<1> DEFINE T == {0..r : r \in R}
<1>1. T \subseteq FiniteSubsetsOf(Nat)
    <2>1. \A r \in R : 0..r \subseteq Nat /\ IsFiniteSet(0..r)
        BY FS_Interval
    <2>. QED  BY <2>1 DEF FiniteSubsetsOf
<1>2. T # {}
    OBVIOUS
<1>3. PICK x \in T : \A y \in T : ~(<<y, x>> \in StrictSubsetOrdering(Nat))
    BY <1>1, <1>2, FS_StrictSubsetOrderingWellFounded, WFMin
<1>4. PICK m \in R : x = 0..m
    BY <1>3
<1>5. \A r \in R : m <= r
    <2>1. SUFFICES ASSUME NEW r \in R, r < m  PROVE FALSE
        OBVIOUS
    <2>2. 0..r \subseteq 0..m /\ m \in 0..m /\ m \notin 0..r
        BY <2>1
    <2>3. 0..r \in SUBSET Nat /\ 0..m \in SUBSET Nat /\ 0..r # 0..m
        BY <2>2
    <2>4. <<0..r, x>> \in StrictSubsetOrdering(Nat)
        BY <2>2, <2>3, <1>4 DEF StrictSubsetOrdering
    <2>. QED  BY <1>3, <2>4
<1>. QED  BY <1>5 DEF Locks!Min

\* In a finite set of transactions with a lock each there is one whose lock no
\* other lock is above.
LEMMA TopLock ==
    ASSUME NEW S, IsFiniteSet(S), S # {}, NEW want, \A t \in S : want[t] \in LockId
    PROVE  \E t \in S : \A u \in S : ~Below(want[t], want[u])
<1> DEFINE Above(t) == {u \in S : Below(want[t], want[u])}
           T == {Above(t) : t \in S}
<1>1. T \subseteq FiniteSubsetsOf(S) /\ T # {}
    <2>1. FiniteSubsetsOf(S) = SUBSET S
        BY FS_FiniteSubsetsOfFinite
    <2>2. T \subseteq SUBSET S
        OBVIOUS
    <2>3. PICK t \in S : TRUE
        OBVIOUS
    <2>4. Above(t) \in T
        OBVIOUS
    <2>. QED  BY <2>1, <2>2, <2>4
<1>2. PICK x \in T : \A y \in T : ~(<<y, x>> \in StrictSubsetOrdering(S))
    BY <1>1, FS_StrictSubsetOrderingWellFounded, WFMin
<1>3. PICK t \in S : x = Above(t)
    BY <1>2
<1>4. ASSUME NEW u \in S, Below(want[t], want[u])  PROVE FALSE
    <2>1. Above(u) \subseteq Above(t)
        BY <1>4, BelowTransitive
    <2>2. u \in Above(t) /\ u \notin Above(u)
        BY <1>4, BelowIrreflexive
    <2>3. <<Above(u), x>> \in StrictSubsetOrdering(S)
        BY <1>3, <2>1, <2>2 DEF StrictSubsetOrdering
    <2>. QED  BY <1>2, <2>3
<1>. QED  BY <1>4

-----------------------------------------------------------------------------
(* The handlers *)

LEMMA StatementTypes ==
    /\ \A table \in Table, rows \in SUBSET Nat, mode \in {"S", "X"} :
          Locks!Rows(table, rows, mode) \in StatementType
    /\ \A table \in Table, rows \in SUBSET Nat : Locks!Skip(table, rows) \in StatementType
BY DEF Locks!Rows, Locks!Skip, StatementType

\* Without HOT_ONLY each handler locks upwards.
LEMMA HandlersInOrder ==
    ASSUME Locks!LockAssumption, ~HotOnly, NEW h \in Locks!Handler
    PROVE  h \in Seq(StatementType) /\ InOrder(h)
<1> DEFINE Goal == h \in Seq(StatementType) /\ InOrder(h)
<1>. USE SMTT(60) DEF Locks!LockAssumption, Locks!Row, Locks!Rows, Locks!Skip, Locks!Scope,
        Locks!StrongScope, Locks!Admission, Locks!Budget, Locks!Key, Locks!Sweepers,
        InOrder, Follows, Below, Level, Table, StatementType
<1>1. ASSUME NEW r \in RunId, h = Locks!CancelQuery(r)  PROVE Goal
    BY <1>1 DEF Locks!CancelQuery
<1>2. ASSUME NEW r \in RunId, h = Locks!ObservePrefix(r)  PROVE Goal
    BY <1>2 DEF Locks!ObservePrefix
<1>3. ASSUME NEW r \in RunId, h = Locks!SettleCall(r)  PROVE Goal
    BY <1>3 DEF Locks!SettleCall
<1>4. ASSUME NEW r \in RunId, h = Locks!FailRecovery(r)  PROVE Goal
    BY <1>4 DEF Locks!FailRecovery
<1>5. ASSUME NEW r \in RunId, h = Locks!ReconcileM2(r)  PROVE Goal
    BY <1>5 DEF Locks!ReconcileM2
<1>6. ASSUME NEW r \in RunId, h = Locks!ReconcileM4(r)  PROVE Goal
    BY <1>6 DEF Locks!ReconcileM4
<1>7. ASSUME NEW r \in RunId, NEW D \in SUBSET Doc, h = Locks!CreateQuery(r, D)  PROVE Goal
    BY <1>7 DEF Locks!CreateQuery
<1>8. ASSUME NEW r \in RunId, NEW D \in SUBSET Doc, h = Locks!ForegroundSnapshot(r, D)  PROVE Goal
    BY <1>8 DEF Locks!ForegroundSnapshot
<1>9. ASSUME NEW r \in RunId, NEW D \in SUBSET Doc, h = Locks!BackgroundSnapshot(r, D)  PROVE Goal
    BY <1>9 DEF Locks!BackgroundSnapshot
<1>10. ASSUME NEW r \in RunId, NEW D \in SUBSET Doc, h = Locks!FinishJob(r, D)  PROVE Goal
    BY <1>10 DEF Locks!FinishJob
<1>11. ASSUME NEW r \in RunId, NEW D \in SUBSET Doc, h = Locks!ReserveForeground(r, D)  PROVE Goal
    BY <1>11 DEF Locks!ReserveForeground
<1>12. ASSUME NEW r \in RunId, NEW D \in SUBSET Doc, h = Locks!ReserveBackground(r, D)  PROVE Goal
    BY <1>12 DEF Locks!ReserveBackground
<1>13. ASSUME NEW r \in RunId, NEW D \in SUBSET Doc, h \in Locks!FinishRun(r, D)  PROVE Goal
    <2>1. CASE h = <<Locks!Row("runs", r), Locks!Scope(D), Locks!Admission,
                  Locks!Row("calls", r), Locks!Budget>>
        BY <2>1
    <2>2. CASE h = <<Locks!Row("runs", r), Locks!StrongScope(D), Locks!Admission,
                  Locks!Row("calls", r), Locks!Budget>>
        BY <2>2
    <2>. HIDE DEF Goal, Locks!Row, Locks!Rows, Locks!Scope, Locks!StrongScope, Locks!Admission, Locks!Budget
    <2>. QED  BY <1>13, <2>1, <2>2, Zenon DEF Locks!FinishRun
<1>14. ASSUME NEW r \in RunId, NEW D \in SUBSET Doc, h \in Locks!M2Transaction(r, D)  PROVE Goal
    <2>1. CASE h = <<Locks!Row("runs", r), Locks!StrongScope(D)>>
        BY <2>1
    <2>2. CASE h = <<Locks!Row("runs", r), Locks!Row("jobs", r), Locks!StrongScope(D)>>
        BY <2>2
    <2>. HIDE DEF Goal, Locks!Row, Locks!Rows, Locks!StrongScope
    <2>. QED  BY <1>14, <2>1, <2>2, Zenon DEF Locks!M2Transaction
<1>15. ASSUME NEW R \in SUBSET RunId, h = Locks!ReconcileJobs(R)  PROVE Goal
    BY <1>15 DEF Locks!ReconcileJobs
<1>16. ASSUME NEW R \in SUBSET RunId, h = Locks!RecoverCalls(R)  PROVE Goal
    BY <1>16 DEF Locks!RecoverCalls
<1>17. ASSUME NEW q \in RunId, NEW r \in RunId, h = Locks!RecoverLeases(q, r)  PROVE Goal
    BY <1>17 DEF Locks!RecoverLeases
<1>18. ASSUME NEW R \in SUBSET RunId, NEW D \in SUBSET Doc, h = Locks!RecoverOwnedWork(R, D)  PROVE Goal
    BY <1>18 DEF Locks!RecoverOwnedWork
<1>19. ASSUME NEW d \in Doc, h = Locks!ChangeDocument(d)  PROVE Goal
    BY <1>19 DEF Locks!ChangeDocument
<1>20. ASSUME NEW d \in Doc, h = Locks!ParseVersion(d)  PROVE Goal
    BY <1>20 DEF Locks!ParseVersion
<1>. HIDE DEF Goal, Locks!Row, Locks!Rows, Locks!Skip, Locks!Scope,
        Locks!StrongScope, Locks!Admission, Locks!Budget, Locks!Key, Locks!Sweepers,
        InOrder, Follows, Below, Level, Table, StatementType
<1>21. ASSUME NEW r \in RunId, h \in Locks!RunHandler(r)  PROVE Goal
    BY <1>1, <1>2, <1>3, <1>4, <1>5, <1>6, <1>21 DEF Locks!RunHandler
<1>22. ASSUME NEW r \in RunId, NEW D \in SUBSET Doc, h \in Locks!ScopeHandler(r, D)  PROVE Goal
    BY <1>7, <1>8, <1>9, <1>10, <1>11, <1>12, <1>13, <1>14, <1>22 DEF Locks!ScopeHandler
<1>23. ASSUME h \in Locks!Sweep  PROVE Goal
    BY <1>15, <1>16, <1>17, <1>18, <1>23 DEF Locks!Sweep
<1>. QED
    BY <1>19, <1>20, <1>21, <1>22, <1>23 DEF Locks!Handler, Goal

-----------------------------------------------------------------------------
(* The inductive invariant of the locks *)

LockTypes ==
    /\ todo \in [Tx -> Seq(StatementType)]
    /\ shared \in [Tx -> SUBSET LockId]
    /\ exclusive \in [Tx -> SUBSET LockId]

Held(t) == shared[t] \cup exclusive[t]

\* Whatever a statement still has to wait for is above all that is held.
Upwards(t) ==
    \A i \in 1..Len(todo[t]) : ~todo[t][i].skip =>
        \A r \in todo[t][i].rows, l \in Held(t) :
            \/ Below(l, <<todo[t][i].table, r>>)
            \/ Locks!Holds(t, <<todo[t][i].table, r>>, todo[t][i].mode)

Ordered == \A t \in Tx : InOrder(todo[t]) /\ Upwards(t)

LockInv == LockTypes /\ Ordered

LEMMA WantedIsMissing ==
    ASSUME LockTypes, NEW t \in Tx, Locks!Waiting(t)
    PROVE  /\ Locks!Statement(t) \in StatementType /\ Locks!Statement(t) = todo[t][1] /\ 1 \in 1..Len(todo[t])
           /\ Locks!Wanted(t) \in LockId
           /\ Locks!Wanted(t)[1] = Locks!Statement(t).table
           /\ Locks!Wanted(t)[2] \in Locks!Missing(t)
           /\ \A r \in Locks!Missing(t) : Locks!Wanted(t)[2] <= r
<1>1. todo[t] \in Seq(StatementType) /\ todo[t] # <<>>
    BY DEF LockTypes, Locks!Waiting
<1>2. Locks!Statement(t) \in StatementType /\ Locks!Statement(t) = todo[t][1] /\ 1 \in 1..Len(todo[t])
    BY <1>1 DEF Locks!Statement
<1>3. Locks!Missing(t) \in SUBSET Nat /\ Locks!Missing(t) # {} /\ Locks!Statement(t).table \in Table
    BY <1>2 DEF Locks!Missing, Locks!Waiting, StatementType
<1>4. /\ Locks!Min(Locks!Missing(t)) \in Locks!Missing(t)
      /\ \A r \in Locks!Missing(t) : Locks!Min(Locks!Missing(t)) <= r
    BY <1>3, LeastRow
<1>. QED  BY <1>2, <1>3, <1>4 DEF Locks!Wanted, LockId

\* What is held lies below what is waited for.
LEMMA HeldBelowWanted ==
    ASSUME LockInv, NEW t \in Tx, Locks!Waiting(t), NEW l \in Held(t)
    PROVE  Below(l, Locks!Wanted(t))
<1>1. Locks!Wanted(t) = <<Locks!Statement(t).table, Locks!Wanted(t)[2]>>
    BY WantedIsMissing DEF LockInv, LockId
<1>2. /\ Locks!Wanted(t)[2] \in Locks!Statement(t).rows
      /\ ~Locks!Holds(t, Locks!Wanted(t), Locks!Statement(t).mode)
    BY <1>1, WantedIsMissing DEF Locks!Missing, LockInv
<1>3. Locks!Statement(t) = todo[t][1] /\ 1 \in 1..Len(todo[t]) /\ ~todo[t][1].skip
    BY WantedIsMissing DEF LockInv, Locks!Waiting
<1>. QED  BY <1>1, <1>2, <1>3 DEF LockInv, Ordered, Upwards

\* The invariant rules out a group in which every transaction waits for another.
LEMMA OrderedNeverCircular ==
    ASSUME Locks!LockAssumption, LockInv
    PROVE  Locks!NoWaitCycle
<1>1. SUFFICES ASSUME NEW S \in (SUBSET Tx) \ {{}}, \A t \in S : \E u \in S : Locks!WaitsFor(t, u)
               PROVE  FALSE
    BY DEF Locks!NoWaitCycle
<1> DEFINE want == [t \in S |-> Locks!Wanted(t)]
<1>2. \A t \in S : Locks!Waiting(t)
    BY <1>1 DEF Locks!WaitsFor
<1>3. \A t \in S : want[t] = Locks!Wanted(t) /\ want[t] \in LockId
    BY <1>2, WantedIsMissing DEF LockInv
<1>4. IsFiniteSet(S) /\ S # {}
    <2>1. IsFiniteSet(Tx)
        <3>1. Locks!IsFiniteSet(Tx)
            BY DEF Locks!LockAssumption
        <3>. QED  BY <3>1, Zenon DEF Locks!IsFiniteSet, IsFiniteSet
    <2>. QED  BY <2>1, FS_Subset
<1>. HIDE DEF want
<1>5. PICK t \in S : \A u \in S : ~Below(want[t], want[u])
    BY <1>3, <1>4, TopLock
<1>6. PICK u \in S : Locks!WaitsFor(t, u)
    BY <1>1
<1>7. Locks!Wanted(t) \in Held(u)
    BY <1>6 DEF Locks!WaitsFor, Locks!Blocks, Held
<1>8. Below(Locks!Wanted(t), Locks!Wanted(u))
    BY <1>2, <1>7, HeldBelowWanted
<1>. QED  BY <1>3, <1>5, <1>8

-----------------------------------------------------------------------------
(* Every step of a transaction keeps it *)

\* Dropping the first statement keeps the order of the rest.
LEMMA TailInOrder ==
    ASSUME NEW h \in Seq(StatementType), h # <<>>, InOrder(h)
    PROVE  /\ Tail(h) \in Seq(StatementType) /\ InOrder(Tail(h))
           /\ Len(Tail(h)) = Len(h) - 1
           /\ \A i \in 1..Len(Tail(h)) : i + 1 \in 1..Len(h) /\ Tail(h)[i] = h[i + 1]
           /\ \A i \in 1..Len(Tail(h)) : Follows(h[1], Tail(h)[i])
<1>1. /\ Tail(h) \in Seq(StatementType) /\ Len(Tail(h)) = Len(h) - 1 /\ Len(h) \in Nat
      /\ \A i \in 1..Len(Tail(h)) : i + 1 \in 1..Len(h) /\ Tail(h)[i] = h[i + 1]
    OBVIOUS
<1>2. InOrder(Tail(h))
    BY <1>1 DEF InOrder
<1>3. \A i \in 1..Len(Tail(h)) : Follows(h[1], Tail(h)[i])
    BY <1>1 DEF InOrder
<1>. QED  BY <1>1, <1>2, <1>3

LEMMA InitOrdered == Locks!Init => LockInv
<1>. SUFFICES ASSUME Locks!Init PROVE LockInv
    OBVIOUS
<1>1. <<>> \in Seq(StatementType) /\ Len(<<>>) = 0
    OBVIOUS
<1>2. LockTypes
    BY <1>1 DEF Locks!Init, LockTypes
<1>3. Ordered
    BY <1>1 DEF Locks!Init, Ordered, InOrder, Upwards
<1>. QED  BY <1>2, <1>3 DEF LockInv

LEMMA BeginKeeps ==
    ASSUME Locks!LockAssumption, ~HotOnly, LockInv, NEW t \in Tx, Locks!Begin(t)
    PROVE  LockInv'
<1>1. PICK h \in Locks!Handler : todo' = [todo EXCEPT ![t] = h]
    BY DEF Locks!Begin
<1>2. h \in Seq(StatementType) /\ InOrder(h)
    BY HandlersInOrder
<1>3. shared' = shared /\ exclusive' = exclusive /\ shared[t] = {} /\ exclusive[t] = {}
    BY DEF Locks!Begin
<1>4. LockTypes'
    BY <1>1, <1>2, <1>3 DEF LockInv, LockTypes
<1>5. ASSUME NEW u \in Tx  PROVE InOrder(todo[u])' /\ Upwards(u)'
    <2>1. CASE u = t
        BY <1>1, <1>2, <1>3, <2>1 DEF LockInv, LockTypes, Upwards, Held
    <2>2. CASE u # t
        BY <1>1, <1>3, <2>2 DEF LockInv, LockTypes, Ordered, Upwards, Held, Locks!Holds, InOrder
    <2>. QED  BY <2>1, <2>2
<1>. QED  BY <1>4, <1>5 DEF LockInv, Ordered

\* A lock that fits the first statement leaves the waits of the rest above it.
LEMMA AcquireKeeps ==
    ASSUME LockInv, NEW t \in Tx, Locks!Acquire(t)
    PROVE  LockInv'
<1>1. PICK w, s, M : w = Locks!Wanted(t) /\ s = Locks!Statement(t) /\ M = Locks!Missing(t)
    OBVIOUS
<1>2. /\ s \in StatementType /\ s = todo[t][1] /\ 1 \in 1..Len(todo[t]) /\ w \in LockId
      /\ w[1] = s.table /\ w[2] \in M /\ \A r \in M : w[2] <= r
    BY <1>1, WantedIsMissing DEF Locks!Acquire, LockInv
<1>3. M \subseteq s.rows /\ \A r \in s.rows : r \notin M => Locks!Holds(t, <<s.table, r>>, s.mode)
    BY <1>1 DEF Locks!Missing
<1>4. s.rows \in SUBSET Nat /\ w = <<s.table, w[2]>> /\ s.mode \in {"S", "X"}
    BY <1>2 DEF LockId, StatementType
<1>5. /\ todo' = todo
      /\ \/ s.mode = "X" /\ exclusive' = [exclusive EXCEPT ![t] = @ \cup {w}] /\ shared' = shared
         \/ s.mode = "S" /\ shared' = [shared EXCEPT ![t] = @ \cup {w}] /\ exclusive' = exclusive
    BY <1>1, <1>4 DEF Locks!Acquire, Locks!Lock
<1>6. LockTypes'
    <2>1. exclusive[t] \cup {w} \subseteq LockId /\ shared[t] \cup {w} \subseteq LockId
        BY <1>2 DEF LockInv, LockTypes
    <2>. QED  BY <1>5, <2>1 DEF LockInv, LockTypes
<1>7. ASSUME NEW u \in Tx, u # t  PROVE InOrder(todo[u])' /\ Upwards(u)'
    <2>1. todo'[u] = todo[u] /\ shared'[u] = shared[u] /\ exclusive'[u] = exclusive[u]
        BY <1>5, <1>7 DEF LockInv, LockTypes
    <2>2. InOrder(todo[u]) /\ Upwards(u)
        BY DEF LockInv, Ordered
    <2>. QED  BY <2>1, <2>2 DEF InOrder, Upwards, Held, Locks!Holds
<1>8. /\ Held(t)' = Held(t) \cup {w}
      /\ \A l, mode : Locks!Holds(t, l, mode) => Locks!Holds(t, l, mode)'
      /\ \A mode \in {"S", "X"} : s.mode = "X" \/ mode = "S" => Locks!Holds(t, w, mode)'
    BY <1>5 DEF LockInv, LockTypes, Held, Locks!Holds
<1>9. Upwards(t)'
    <2>1. SUFFICES ASSUME NEW i \in 1..Len(todo[t]), NEW q, q = todo[t][i], ~q.skip, NEW r \in q.rows
                   PROVE  Below(w, <<q.table, r>>) \/ Locks!Holds(t, <<q.table, r>>, q.mode)'
        <3>1. \A i \in 1..Len(todo[t]) : ~todo[t][i].skip =>
                 \A r \in todo[t][i].rows, l \in Held(t) :
                    \/ Below(l, <<todo[t][i].table, r>>)
                    \/ Locks!Holds(t, <<todo[t][i].table, r>>, todo[t][i].mode)
            BY DEF LockInv, Ordered, Upwards
        <3>. QED  BY <1>5, <1>8, <2>1, <3>1 DEF Upwards
    <2>2. q \in StatementType /\ r \in Nat
        <3>1. todo[t] \in Seq(StatementType)
            BY DEF LockInv, LockTypes
        <3>2. q \in StatementType
            BY <2>1, <3>1
        <3>. QED  BY <2>1, <3>2 DEF StatementType
    <2>3. CASE i = 1
        <3>1. q = s
            BY <1>2, <2>1, <2>3
        <3>2. CASE r \in M /\ r # w[2]
            <4>1. w[2] < r
                BY <1>2, <2>2, <3>2 DEF LockId
            <4>. QED  BY <1>2, <3>1, <4>1 DEF Below
        <3>3. CASE r = w[2]
            BY <1>4, <1>8, <3>1, <3>3
        <3>4. CASE r \notin M
            BY <1>3, <1>8, <2>1, <3>1, <3>4
        <3>. QED  BY <3>2, <3>3, <3>4
    <2>4. CASE i # 1
        <3>1. Follows(s, q)
            BY <1>2, <2>1, <2>4 DEF LockInv, Ordered, InOrder
        <3>2. \/ Below(<<s.table, w[2]>>, <<q.table, r>>)
              \/ s.table = q.table /\ w[2] = r /\ (s.mode = "X" \/ q.mode = "S")
            <4>1. w[2] \in s.rows
                BY <1>2, <1>3
            <4>. QED  BY <2>1, <3>1, <4>1, Zenon DEF Follows
        <3>3. q.mode \in {"S", "X"}
            BY <2>2 DEF StatementType
        <3>. QED  BY <1>4, <1>8, <3>2, <3>3
    <2>. QED  BY <2>3, <2>4
<1>10. InOrder(todo[t])'
    BY <1>5 DEF LockInv, Ordered, InOrder
<1>. QED  BY <1>6, <1>7, <1>9, <1>10 DEF LockInv, Ordered

\* Skipping statements take locks that they do not wait for, all exclusively.
LEMMA AcquireFreeKeeps ==
    ASSUME LockInv, NEW t \in Tx, Locks!AcquireFree(t)
    PROVE  LockInv'
<1>1. PICK s, L : /\ s = todo[t][1] /\ s.skip /\ L \subseteq {<<s.table, r>> : r \in s.rows}
                  /\ exclusive' = [exclusive EXCEPT ![t] = @ \cup L] /\ shared' = shared
                  /\ todo' = [todo EXCEPT ![t] = Tail(@)]
    <2> DEFINE c == Locks!Statement(t)
               looked == IF c.table = "jobs" THEN {r \in c.rows : <<"runs", r>> \in exclusive[t]} ELSE c.rows
               K == {l \in {<<c.table, r>> : r \in looked} : Locks!Free(t, l, "X")}
    <2>1. c = todo[t][1] /\ c.skip /\ todo' = [todo EXCEPT ![t] = Tail(@)]
        BY DEF Locks!AcquireFree, Locks!Statement, LockInv, LockTypes
    <2>2. exclusive' = [exclusive EXCEPT ![t] = @ \cup K] /\ shared' = shared
        BY DEF Locks!AcquireFree, Locks!Lock
    <2>3. K \subseteq {<<c.table, r>> : r \in c.rows}
        OBVIOUS
    <2>. QED  BY <2>1, <2>2, <2>3
<1>2. todo[t] \in Seq(StatementType) /\ todo[t] # <<>> /\ InOrder(todo[t]) /\ Upwards(t)
    BY DEF LockInv, LockTypes, Ordered, Locks!AcquireFree
<1>3. s \in StatementType
    BY <1>1, <1>2
<1>4. L \subseteq LockId
    BY <1>1, <1>3 DEF LockId, StatementType
<1>5. /\ Tail(todo[t]) \in Seq(StatementType) /\ InOrder(Tail(todo[t]))
      /\ \A i \in 1..Len(Tail(todo[t])) : i + 1 \in 1..Len(todo[t]) /\ Tail(todo[t])[i] = todo[t][i + 1]
      /\ \A i \in 1..Len(Tail(todo[t])) : Follows(s, Tail(todo[t])[i])
    BY <1>1, <1>2, TailInOrder
<1>6. LockTypes'
    BY <1>1, <1>4, <1>5 DEF LockInv, LockTypes
<1>7. ASSUME NEW u \in Tx, u # t  PROVE InOrder(todo[u])' /\ Upwards(u)'
    <2>1. todo'[u] = todo[u] /\ shared'[u] = shared[u] /\ exclusive'[u] = exclusive[u]
        BY <1>1, <1>7 DEF LockInv, LockTypes
    <2>2. InOrder(todo[u]) /\ Upwards(u)
        BY DEF LockInv, Ordered
    <2>. QED  BY <2>1, <2>2 DEF InOrder, Upwards, Held, Locks!Holds
<1>8. /\ todo'[t] = Tail(todo[t]) /\ Held(t)' = Held(t) \cup L
      /\ exclusive'[t] = exclusive[t] \cup L /\ shared'[t] = shared[t]
    BY <1>1 DEF LockInv, LockTypes, Held
<1>9. Upwards(t)'
    <2>1. SUFFICES ASSUME NEW i \in 1..Len(Tail(todo[t])), NEW q, q = Tail(todo[t])[i], ~q.skip,
                          NEW r \in q.rows, NEW l \in Held(t) \cup L
                   PROVE  Below(l, <<q.table, r>>) \/ Locks!Holds(t, <<q.table, r>>, q.mode)'
        BY <1>8 DEF Upwards
    <2>2. CASE l \in Held(t)
        <3>1. i + 1 \in 1..Len(todo[t]) /\ q = todo[t][i + 1]
            BY <1>5, <2>1
        <3>2. Below(l, <<q.table, r>>) \/ Locks!Holds(t, <<q.table, r>>, q.mode)
            BY <1>2, <2>1, <2>2, <3>1 DEF Upwards
        <3>. QED  BY <1>8, <3>2 DEF Locks!Holds
    <2>3. CASE l \in L
        <3>1. PICK a \in s.rows : l = <<s.table, a>>
            BY <1>1, <2>3
        <3>2. Follows(s, q)
            BY <1>5, <2>1
        <3>3. Below(l, <<q.table, r>>) \/ l = <<q.table, r>>
            BY <2>1, <3>1, <3>2, Zenon DEF Follows
        <3>. QED  BY <1>8, <2>3, <3>3 DEF Locks!Holds
    <2>. QED  BY <2>2, <2>3
<1>10. InOrder(todo[t])'
    BY <1>5, <1>8
<1>. QED  BY <1>6, <1>7, <1>9, <1>10 DEF LockInv, Ordered

LEMMA AdvanceKeeps ==
    ASSUME LockInv, NEW t \in Tx, Locks!Advance(t)
    PROVE  LockInv'
<1>1. /\ todo' = [todo EXCEPT ![t] = Tail(@)] /\ shared' = shared /\ exclusive' = exclusive
      /\ todo[t] \in Seq(StatementType) /\ todo[t] # <<>> /\ InOrder(todo[t])
    BY DEF Locks!Advance, LockInv, LockTypes, Ordered
<1>2. /\ Tail(todo[t]) \in Seq(StatementType) /\ InOrder(Tail(todo[t]))
      /\ \A i \in 1..Len(Tail(todo[t])) : i + 1 \in 1..Len(todo[t]) /\ Tail(todo[t])[i] = todo[t][i + 1]
    BY <1>1, TailInOrder
<1>3. LockTypes'
    BY <1>1, <1>2 DEF LockInv, LockTypes
<1>4. ASSUME NEW u \in Tx  PROVE InOrder(todo[u])' /\ Upwards(u)'
    <2>1. InOrder(todo[u]) /\ Upwards(u) /\ shared'[u] = shared[u] /\ exclusive'[u] = exclusive[u]
        BY <1>1 DEF LockInv, Ordered
    <2>2. CASE u # t
        <3>1. todo'[u] = todo[u]
            BY <1>1, <2>2 DEF LockInv, LockTypes
        <3>. QED  BY <2>1, <3>1 DEF InOrder, Upwards, Held, Locks!Holds
    <2>3. CASE u = t
        <3>1. todo'[t] = Tail(todo[t])
            BY <1>1 DEF LockInv, LockTypes
        <3>2. Upwards(t)'
            BY <1>2, <2>1, <2>3, <3>1 DEF Upwards, Held, Locks!Holds
        <3>. QED  BY <1>2, <2>3, <3>1, <3>2
    <2>. QED  BY <2>2, <2>3
<1>. QED  BY <1>3, <1>4 DEF LockInv, Ordered

LEMMA EndKeeps ==
    ASSUME LockInv, NEW t \in Tx, Locks!End(t)
    PROVE  LockInv'
<1>1. <<>> \in Seq(StatementType) /\ Len(<<>>) = 0
    OBVIOUS
<1>2. LockTypes'
    BY <1>1 DEF LockInv, LockTypes, Locks!End
<1>3. ASSUME NEW u \in Tx  PROVE InOrder(todo[u])' /\ Upwards(u)'
    <2>1. CASE u = t
        BY <1>1, <2>1 DEF LockInv, LockTypes, Locks!End, InOrder, Upwards
    <2>2. CASE u # t
        <3>1. todo'[u] = todo[u] /\ shared'[u] = shared[u] /\ exclusive'[u] = exclusive[u]
            BY <2>2 DEF LockInv, LockTypes, Locks!End
        <3>2. InOrder(todo[u]) /\ Upwards(u)
            BY DEF LockInv, Ordered
        <3>. QED  BY <3>1, <3>2 DEF InOrder, Upwards, Held, Locks!Holds
    <2>. QED  BY <2>1, <2>2
<1>. QED  BY <1>2, <1>3 DEF LockInv, Ordered

-----------------------------------------------------------------------------
(* No circle *)

\* Without HOT_ONLY no group of handlers, of however many runs over however
\* many documents, waits in a circle: the database aborts none of them.
THEOREM NeverCircular ==
    ASSUME Locks!LockAssumption, ~HotOnly
    PROVE  Locks!Spec => []Locks!NoWaitCycle
<1>1. Locks!Init => LockInv
    BY InitOrdered
<1>2. LockInv /\ [Locks!Next]_Locks!vars => LockInv'
    <2>1. ASSUME LockInv, NEW t \in Tx, \/ Locks!Begin(t) \/ Locks!Acquire(t)
                                      \/ Locks!AcquireFree(t) \/ Locks!Advance(t) \/ Locks!End(t)
          PROVE  LockInv'
        BY <2>1, BeginKeeps, AcquireKeeps, AcquireFreeKeeps, AdvanceKeeps, EndKeeps
    <2>2. ASSUME LockInv, UNCHANGED Locks!vars  PROVE LockInv'
        BY <2>2 DEF Locks!vars, LockInv, LockTypes, Ordered, InOrder, Upwards, Held, Locks!Holds
    <2>. QED  BY <2>1, <2>2 DEF Locks!Next
<1>3. LockInv => Locks!NoWaitCycle
    BY OrderedNeverCircular
<1>. QED  BY <1>1, <1>2, <1>3, PTL DEF Locks!Spec

=============================================================================
