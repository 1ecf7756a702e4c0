----------------------- MODULE DocumentVersions_proofs -----------------------
(***************************************************************************)
(* Proofs of the safety of DocumentVersions for any documents, versions,   *)
(* queries, instances and faults.                                          *)
(***************************************************************************)
EXTENDS DocumentVersions, TLAPS

\* A goroutine that has a PDF to parse.
Working == {"start", "parse", "index", "fail"}
HasFile == \A v \in Version : parser[v].pc \in Working => v \in blob

\* What a query was asked about has been READY; since then it can only have
\* been revoked.
AskedWasReady ==
    \A q \in Query : query[q] = "running" =>
        \A v \in asked[q] : state[v] = "READY" \/ doc[v] \in revoked

\* Only a READY version has regions.
NoneButReady == \A v \in regions : state[v] = "READY"

IInv == TypeOK /\ RevokedIsGone /\ ReadyIsWhole /\ NoneButReady /\ HasFile /\ AskedWasReady

LEMMA InitInvariant == Init => IInv
<1> SUFFICES ASSUME Init  PROVE IInv
  OBVIOUS
<1>1. TypeOK
  BY DocumentAssumption, SMTT(30) DEF Init, TypeOK, VersionState, Unparsed
<1>2. RevokedIsGone /\ ReadyIsWhole /\ NoneButReady /\ AskedWasReady
  BY DEF Init, RevokedIsGone, ReadyIsWhole, NoneButReady, AskedWasReady
<1>3. HasFile
  BY DEF Init, HasFile, Working
<1> QED  BY <1>1, <1>2, <1>3 DEF IInv

-----------------------------------------------------------------------------
(* One lemma per group of steps *)

LEMMA UploadKeeps ==
    ASSUME IInv, NEW i \in Instance, NEW d \in Document, NEW v \in Version, Upload(i, d, v)
    PROVE  IInv'
<1> USE DEF document, version, inst, queries
<1>1. /\ state[v] = "NONE" /\ doc[v] = None /\ d \notin revoked
      /\ head' = [head EXCEPT ![d] = v] /\ doc' = [doc EXCEPT ![v] = d]
      /\ state' = [state EXCEPT ![v] = "QUEUED"] /\ owner' = [owner EXCEPT ![v] = i]
      /\ UNCHANGED <<revoked, regions, up, lease, query, asked, historical, opening>>
  BY DEF Upload, IInv, TypeOK
<1>2. \/ /\ blob' = blob \cup {v} /\ parser' = [parser EXCEPT ![v].pc = "start"]
         /\ orphan' = orphan /\ trouble' = trouble
      \/ /\ blob' = blob /\ parser' = parser /\ orphan' = orphan \cup {v}
         /\ trouble < MaxTrouble /\ trouble' = trouble + 1
  BY DEF Upload, GiveUp
<1>3. TypeOK'
  <2>1. /\ head' \in [Document -> Version \cup {None}]
        /\ \A e \in Document : head'[e] # None => doc'[head'[e]] = e
    BY <1>1, DocumentAssumption DEF IInv, TypeOK
  <2>2. /\ doc' \in [Version -> Document \cup {None}] /\ state' \in [Version -> VersionState]
        /\ \A w \in Version : (state'[w] = "NONE") = (doc'[w] = None)
        /\ owner' \in [Version -> Instance \cup {None}]
    BY <1>1, DocumentAssumption DEF IInv, TypeOK, VersionState, Unparsed
  <2>3. /\ blob' \subseteq Version /\ orphan' \subseteq Version
        /\ parser' \in [Version -> [pc : {"none", "start", "parse", "index", "fail", "gone"},
                                    code : {"FAILED", "INTERRUPTED"}]]
    <3>1. [parser[v] EXCEPT !.pc = "start"] \in
              [pc : {"none", "start", "parse", "index", "fail", "gone"}, code : {"FAILED", "INTERRUPTED"}]
      BY DEF IInv, TypeOK
    <3>2. blob' \subseteq Version /\ orphan' \subseteq Version
      BY <1>2 DEF IInv, TypeOK
    <3>3. parser' = parser \/ parser' = [parser EXCEPT ![v] = [parser[v] EXCEPT !.pc = "start"]]
      BY <1>2
    <3>4. parser \in [Version -> [pc : {"none", "start", "parse", "index", "fail", "gone"},
                                  code : {"FAILED", "INTERRUPTED"}]]
      BY DEF IInv, TypeOK
    <3>5. parser' \in [Version -> [pc : {"none", "start", "parse", "index", "fail", "gone"},
                                   code : {"FAILED", "INTERRUPTED"}]]
      BY <3>1, <3>3, <3>4
    <3> QED  BY <3>2, <3>5
  <2>4. trouble' \in 0..MaxTrouble
    BY <1>2, DocumentAssumption DEF IInv, TypeOK
  <2> QED  BY <1>1, <2>1, <2>2, <2>3, <2>4 DEF IInv, TypeOK
<1>4. RevokedIsGone' /\ ReadyIsWhole' /\ NoneButReady'
  BY <1>1, <1>2 DEF IInv, TypeOK, RevokedIsGone, ReadyIsWhole, NoneButReady
<1>5. HasFile'
  BY <1>2 DEF IInv, TypeOK, HasFile
<1>6. AskedWasReady'
  BY <1>1, DocumentAssumption DEF IInv, TypeOK, AskedWasReady
<1> QED  BY <1>3, <1>4, <1>5, <1>6 DEF IInv

\* A goroutine changes the state of its own version, and never back from READY.
LEMMA ParseKeeps ==
    ASSUME IInv, NEW v \in Version, Parse(v) \/ IndexUnanswered(v) \/ FailParseLost(v)
    PROVE  IInv'
<1> USE DEF document, version, inst, queries
<1>1. /\ UNCHANGED <<head, revoked, doc, owner, blob, up, lease, query, asked, historical, opening>>
      /\ parser[v].pc \in Working
  BY DEF Parse, StartParse, Parsed, Index, FailParse, IndexUnanswered, FailParseLost, Parser, Working
<1>2. PICK p \in [pc : {"none", "start", "parse", "index", "fail", "gone"},
                  code : {"FAILED", "INTERRUPTED"}] : parser' = [parser EXCEPT ![v] = p]
  <2>1. parser \in [Version -> [pc : {"none", "start", "parse", "index", "fail", "gone"},
                                code : {"FAILED", "INTERRUPTED"}]]
    BY DEF IInv, TypeOK
  <2>2. ASSUME NEW pc \in {"parse", "index", "gone"}, To(v, pc)
        PROVE  parser' = [parser EXCEPT ![v] = [parser[v] EXCEPT !.pc = pc]]
               /\ [parser[v] EXCEPT !.pc = pc] \in
                      [pc : {"none", "start", "parse", "index", "fail", "gone"},
                       code : {"FAILED", "INTERRUPTED"}]
    BY <2>1, <2>2 DEF To
  <2>3. ASSUME NEW code \in {"FAILED", "INTERRUPTED"}, FailWith(v, code)
        PROVE  parser' = [parser EXCEPT ![v] = [pc |-> "fail", code |-> code]]
    BY <2>3 DEF FailWith
  <2>4. \/ \E pc \in {"parse", "index", "gone"} : To(v, pc)
        \/ \E code \in {"FAILED", "INTERRUPTED"} : FailWith(v, code)
    BY DEF Parse, StartParse, Parsed, Index, FailParse, IndexUnanswered, FailParseLost
  <2> QED  BY <2>2, <2>3, <2>4
<1>3. PICK s \in VersionState :
         /\ state' = [state EXCEPT ![v] = s]
         /\ \/ s = state[v] /\ regions' = regions
            \/ state[v] \in Unparsed /\ s \in {"PARSING", "FAILED", "INTERRUPTED"} /\ regions' = regions
            \/ /\ parser[v].pc = "index" /\ doc[v] \notin revoked /\ state[v] \in Unparsed
               /\ s = "READY" /\ regions' = regions \cup {v}
  <2>1. state \in [Version -> VersionState] /\ parser[v].code \in {"FAILED", "INTERRUPTED"}
    BY DEF IInv, TypeOK
  <2>2. UNCHANGED <<state, regions>> => state' = [state EXCEPT ![v] = state[v]] /\ regions' = regions
    BY <2>1
  <2>3. CASE StartParse(v)
    <3>1. \/ UNCHANGED <<state, regions>>
          \/ state[v] = "QUEUED" /\ state' = [state EXCEPT ![v] = "PARSING"] /\ regions' = regions
      BY <2>3 DEF StartParse
    <3> QED  BY <2>1, <2>2, <3>1 DEF VersionState, Unparsed
  <2>4. CASE Parsed(v) \/ FailParseLost(v)
    <3>1. UNCHANGED <<state, regions>>
      BY <2>4 DEF Parsed, FailParseLost
    <3> QED  BY <2>1, <2>2, <3>1
  <2>5. CASE Index(v) \/ IndexUnanswered(v)
    <3>1. \/ UNCHANGED <<state, regions>>
          \/ /\ parser[v].pc = "index" /\ doc[v] \notin revoked /\ state[v] = "PARSING"
             /\ state' = [state EXCEPT ![v] = "READY"] /\ regions' = regions \cup {v}
      BY <2>5 DEF Index, IndexUnanswered, Parser, Publishable, StillCurrent
    <3> QED  BY <2>1, <2>2, <3>1 DEF VersionState, Unparsed
  <2>6. CASE FailParse(v)
    <3>1. \/ UNCHANGED <<state, regions>>
          \/ /\ state[v] \in Unparsed
             /\ state' = [state EXCEPT ![v] = parser[v].code] /\ regions' = regions
      BY <2>6 DEF FailParse, Failable
    <3> QED  BY <2>1, <2>2, <3>1 DEF VersionState
  <2> QED  BY <2>3, <2>4, <2>5, <2>6 DEF Parse
<1>4. trouble' \in 0..MaxTrouble /\ orphan' \subseteq Version
  <2>1. \/ UNCHANGED <<orphan, trouble>>
        \/ /\ trouble < MaxTrouble /\ trouble' = trouble + 1
           /\ orphan' = orphan \/ orphan' = orphan \cup {v}
    BY DEF Parse, StartParse, Parsed, Index, FailParse, IndexUnanswered, FailParseLost
  <2> QED  BY <2>1, DocumentAssumption DEF IInv, TypeOK
<1>5. TypeOK'
  <2>1. /\ state' \in [Version -> VersionState] /\ regions' \subseteq Version
        /\ \A w \in Version : (state'[w] = "NONE") = (doc[w] = None)
    BY <1>3 DEF IInv, TypeOK, Unparsed
  <2> QED  BY <1>1, <1>2, <1>4, <2>1 DEF IInv, TypeOK
<1>6. RevokedIsGone'
  BY <1>1, <1>3 DEF IInv, TypeOK, RevokedIsGone, Unparsed
<1>7. HasFile'
  BY <1>1, <1>2 DEF IInv, TypeOK, HasFile
<1>8. ReadyIsWhole' /\ NoneButReady'
  <2>1. ReadyIsWhole'
    BY <1>1, <1>3 DEF IInv, TypeOK, ReadyIsWhole, HasFile, Unparsed
  <2>2. NoneButReady'
    BY <1>3 DEF IInv, TypeOK, NoneButReady, Unparsed
  <2> QED  BY <2>1, <2>2
<1>9. AskedWasReady'
  BY <1>1, <1>3 DEF IInv, TypeOK, AskedWasReady, Unparsed
<1> QED  BY <1>5, <1>6, <1>7, <1>8, <1>9 DEF IInv

LEMMA RevokeKeeps ==
    ASSUME IInv, NEW d \in Document, Revoke(d)
    PROVE  IInv'
<1> USE DEF document, version, inst, queries
<1>1. /\ revoked' = revoked \cup {d} /\ regions' = regions \ VersionsOf(d)
      /\ state' = [v \in Version |-> IF v \in VersionsOf(d) THEN "REVOKED" ELSE state[v]]
      /\ UNCHANGED <<head, doc, owner, blob, parser, up, lease, query, asked, historical, opening,
                     orphan, trouble>>
  BY DEF Revoke, RevokedVersions
<1>2. \A v \in Version : v \in VersionsOf(d) <=> doc[v] = d
  BY DEF VersionsOf
<1>3. TypeOK'
  <2>1. /\ state' \in [Version -> VersionState] /\ regions' \subseteq Version /\ revoked' \subseteq Document
        /\ \A w \in Version : (state'[w] = "NONE") = (doc[w] = None)
    BY <1>1, <1>2, DocumentAssumption DEF IInv, TypeOK, VersionState
  <2> QED  BY <1>1, <2>1 DEF IInv, TypeOK
<1>4. RevokedIsGone' /\ ReadyIsWhole' /\ NoneButReady' /\ HasFile' /\ AskedWasReady'
  BY <1>1, <1>2 DEF IInv, TypeOK, RevokedIsGone, ReadyIsWhole, NoneButReady, HasFile, AskedWasReady
<1> QED  BY <1>3, <1>4 DEF IInv

LEMMA InstanceKeeps ==
    ASSUME IInv, NEW i \in Instance, Crash(i) \/ Expire(i) \/ RecoverOwnedWork(i)
    PROVE  IInv'
<1> USE DEF document, version, inst, queries
<1>1. UNCHANGED <<head, revoked, doc, owner, regions, blob, parser, query, asked, historical, opening, orphan>>
  BY DEF Crash, Expire, RecoverOwnedWork
<1>2. up' \in [Instance -> BOOLEAN] /\ lease' \in [Instance -> {"live", "expired", "stopped"}]
      /\ trouble' \in 0..MaxTrouble
  <2>1. CASE Crash(i)
    BY <2>1, DocumentAssumption DEF Crash, IInv, TypeOK
  <2>2. CASE Expire(i)
    BY <2>2, DocumentAssumption DEF Expire, IInv, TypeOK
  <2>3. CASE RecoverOwnedWork(i)
    BY <2>3 DEF RecoverOwnedWork, IInv, TypeOK
  <2> QED  BY <2>1, <2>2, <2>3
<1>3. /\ state' \in [Version -> VersionState]
      /\ \A v \in Version : \/ state'[v] = state[v]
                            \/ state[v] \in Unparsed /\ state'[v] = "INTERRUPTED"
  <2>1. CASE Crash(i) \/ Expire(i)
    BY <2>1 DEF Crash, Expire, IInv, TypeOK
  <2>2. CASE RecoverOwnedWork(i)
    BY <2>2 DEF RecoverOwnedWork, Taken, IInv, TypeOK, VersionState
  <2> QED  BY <2>1, <2>2
<1>4. TypeOK'
  <2>1. \A w \in Version : (state'[w] = "NONE") = (doc[w] = None)
    BY <1>3 DEF IInv, TypeOK, Unparsed
  <2> QED  BY <1>1, <1>2, <1>3, <2>1 DEF IInv, TypeOK
<1>5. RevokedIsGone'
  BY <1>1, <1>3 DEF IInv, RevokedIsGone, Unparsed
<1>6. ReadyIsWhole' /\ NoneButReady' /\ HasFile'
  BY <1>1, <1>3 DEF IInv, TypeOK, ReadyIsWhole, NoneButReady, HasFile, Unparsed
<1>7. AskedWasReady'
  <2>1. \A q \in Query : asked[q] \subseteq Version
    BY DEF IInv, TypeOK
  <2> QED  BY <1>1, <1>3, <2>1 DEF IInv, AskedWasReady, Unparsed
<1> QED  BY <1>4, <1>5, <1>6, <1>7 DEF IInv

Ask(q) ==
    \/ \E S \in SUBSET Version, hist \in BOOLEAN : Submit(q, S, hist)
    \/ \E v \in Version : Authorize(q, v)
    \/ OpenDocument(q) \/ Denied(q) \/ Finish(q)

LEMMA QueryKeeps ==
    ASSUME IInv, NEW q \in Query, Ask(q)
    PROVE  IInv'
<1> USE DEF document, version, inst, queries
<1>1. UNCHANGED <<head, revoked, doc, state, owner, regions, blob, parser, up, lease, orphan, trouble>>
  BY DEF Ask, Submit, Authorize, OpenDocument, Denied, Finish
<1>2. /\ query' \in [Query -> {"none", "running", "answered", "refused"}]
      /\ asked' \in [Query -> SUBSET Version] /\ historical' \in [Query -> BOOLEAN]
      /\ opening' \in [Query -> Version \cup {None}]
      /\ AskedWasReady'
  <2>1. ASSUME NEW S \in SUBSET Version, NEW hist \in BOOLEAN, Submit(q, S, hist)
        PROVE  /\ query' \in [Query -> {"none", "running", "answered", "refused"}]
               /\ asked' \in [Query -> SUBSET Version] /\ historical' \in [Query -> BOOLEAN]
               /\ opening' \in [Query -> Version \cup {None}]
               /\ AskedWasReady'
    <3>1. /\ \A v \in S : state[v] = "READY"
          /\ query' = [query EXCEPT ![q] = "running"] /\ asked' = [asked EXCEPT ![q] = S]
          /\ historical' = [historical EXCEPT ![q] = hist] /\ opening' = opening
      BY <2>1 DEF Submit, InScope
    <3>2. AskedWasReady'
      BY <1>1, <3>1 DEF IInv, TypeOK, AskedWasReady
    <3> QED  BY <3>1, <3>2 DEF IInv, TypeOK
  <2>2. CASE \/ \E v \in Version : Authorize(q, v)
             \/ OpenDocument(q) \/ Denied(q)
    <3>1. UNCHANGED <<query, asked, historical>> /\ opening' \in [Query -> Version \cup {None}]
      BY <2>2 DEF Authorize, OpenDocument, Denied, IInv, TypeOK
    <3> QED  BY <1>1, <3>1 DEF IInv, TypeOK, AskedWasReady
  <2>3. CASE Finish(q)
    <3>1. /\ UNCHANGED <<asked, historical, opening>>
          /\ query' = [query EXCEPT ![q] = IF LockScope(q) THEN "answered" ELSE "refused"]
      BY <2>3 DEF Finish
    <3> QED  BY <1>1, <3>1 DEF IInv, TypeOK, AskedWasReady
  <2> QED  BY <2>1, <2>2, <2>3 DEF Ask
<1>3. TypeOK'
  BY <1>1, <1>2 DEF IInv, TypeOK
<1>4. RevokedIsGone' /\ ReadyIsWhole' /\ NoneButReady' /\ HasFile'
  BY <1>1 DEF IInv, RevokedIsGone, ReadyIsWhole, NoneButReady, HasFile
<1> QED  BY <1>2, <1>3, <1>4 DEF IInv

LEMMA NextInvariant == IInv /\ [Next]_vars => IInv'
<1> SUFFICES ASSUME IInv, [Next]_vars  PROVE IInv'
  OBVIOUS
<1>1. CASE UNCHANGED vars
  BY <1>1 DEF vars, IInv, TypeOK, RevokedIsGone, ReadyIsWhole, NoneButReady, HasFile, AskedWasReady
<1>2. CASE Next
  BY <1>2, UploadKeeps, ParseKeeps, RevokeKeeps, InstanceKeeps, QueryKeeps DEF Next, Ask
<1> QED  BY <1>1, <1>2

LEMMA Invariant == Spec => []IInv
BY InitInvariant, NextInvariant, PTL DEF Spec

-----------------------------------------------------------------------------
(* Steps *)

\* Each kind of step, as far as the versions' states and the scopes are
\* concerned.
LEMMA StateStep ==
    ASSUME IInv, [Next]_vars, NEW v \in Version
    PROVE  \/ state'[v] = state[v]
           \/ state[v] = "NONE" /\ state'[v] = "QUEUED"
           \/ state[v] \in Unparsed /\ state'[v] \in {"PARSING", "FAILED", "INTERRUPTED"}
           \/ state[v] = "PARSING" /\ state'[v] = "READY"
           \/ state'[v] = "REVOKED" /\ doc[v] \in revoked'
<1> USE DEF document, version, inst, queries
<1>1. ASSUME NEW i \in Instance, NEW d \in Document, NEW w \in Version, Upload(i, d, w)
      PROVE  state'[v] = state[v] \/ (state[v] = "NONE" /\ state'[v] = "QUEUED")
  BY <1>1 DEF Upload, IInv, TypeOK
<1>2. ASSUME NEW w \in Version, Parse(w) \/ IndexUnanswered(w) \/ FailParseLost(w), w # v
      PROVE  state'[v] = state[v]
  BY <1>2 DEF Parse, StartParse, Parsed, Index, FailParse, IndexUnanswered, FailParseLost, IInv, TypeOK
<1>3. ASSUME Parse(v) \/ IndexUnanswered(v) \/ FailParseLost(v)
      PROVE  \/ state'[v] = state[v]
             \/ state[v] \in Unparsed /\ state'[v] \in {"PARSING", "FAILED", "INTERRUPTED"}
             \/ state[v] = "PARSING" /\ state'[v] = "READY"
  <2>1. state \in [Version -> VersionState] /\ parser[v].code \in {"FAILED", "INTERRUPTED"}
    BY DEF IInv, TypeOK
  <2>2. CASE StartParse(v)
    BY <2>1, <2>2 DEF StartParse, Unparsed
  <2>3. CASE Parsed(v) \/ FailParseLost(v)
    BY <2>3 DEF Parsed, FailParseLost
  <2>4. CASE Index(v) \/ IndexUnanswered(v)
    BY <2>1, <2>4 DEF Index, IndexUnanswered, Publishable
  <2>5. CASE FailParse(v)
    BY <2>1, <2>5 DEF FailParse, Failable
  <2> QED  BY <1>3, <2>2, <2>3, <2>4, <2>5 DEF Parse
<1>4. ASSUME NEW d \in Document, Revoke(d)
      PROVE  state'[v] = state[v] \/ (state'[v] = "REVOKED" /\ doc[v] \in revoked')
  BY <1>4 DEF Revoke, RevokedVersions, VersionsOf
<1>5. ASSUME NEW i \in Instance, Crash(i) \/ Expire(i) \/ RecoverOwnedWork(i)
      PROVE  state'[v] = state[v] \/ (state[v] \in Unparsed /\ state'[v] = "INTERRUPTED")
  BY <1>5 DEF Crash, Expire, RecoverOwnedWork, Taken
<1>6. ASSUME NEW q \in Query, Ask(q)  PROVE state'[v] = state[v]
  BY <1>6 DEF Ask, Submit, Authorize, OpenDocument, Denied, Finish
<1>7. CASE UNCHANGED vars
  BY <1>7 DEF vars
<1> QED  BY <1>1, <1>2, <1>3, <1>4, <1>5, <1>6, <1>7 DEF Next, Ask

LEMMA ScopeStep ==
    ASSUME IInv, [Next]_vars
    PROVE  /\ revoked \subseteq revoked'
           /\ \A v \in Version : doc[v] # None => doc'[v] = doc[v]
           /\ \A d \in Document : head'[d] = head[d] \/ (head'[d] \in Version /\ state[head'[d]] = "NONE")
<1> USE DEF document, version, inst, queries
<1>1. ASSUME NEW i \in Instance, NEW d \in Document, NEW w \in Version, Upload(i, d, w)
      PROVE  /\ revoked \subseteq revoked'
             /\ \A v \in Version : doc[v] # None => doc'[v] = doc[v]
             /\ \A e \in Document : head'[e] = head[e] \/ (head'[e] \in Version /\ state[head'[e]] = "NONE")
  BY <1>1 DEF Upload, IInv, TypeOK
<1>2. CASE ~(\E i \in Instance, d \in Document, w \in Version : Upload(i, d, w))
  <2>1. doc' = doc /\ head' = head /\ revoked \subseteq revoked'
    <3>1. ASSUME NEW w \in Version, Parse(w) \/ IndexUnanswered(w) \/ FailParseLost(w)
          PROVE  doc' = doc /\ head' = head /\ revoked' = revoked
      BY <3>1 DEF Parse, StartParse, Parsed, Index, FailParse, IndexUnanswered, FailParseLost
    <3>2. ASSUME NEW d \in Document, Revoke(d)
          PROVE  doc' = doc /\ head' = head /\ revoked \subseteq revoked'
      BY <3>2 DEF Revoke
    <3>3. ASSUME NEW i \in Instance, Crash(i) \/ Expire(i) \/ RecoverOwnedWork(i)
          PROVE  doc' = doc /\ head' = head /\ revoked' = revoked
      BY <3>3 DEF Crash, Expire, RecoverOwnedWork
    <3>4. ASSUME NEW q \in Query, Ask(q)
          PROVE  doc' = doc /\ head' = head /\ revoked' = revoked
      BY <3>4 DEF Ask, Submit, Authorize, OpenDocument, Denied, Finish
    <3>5. CASE UNCHANGED vars
      BY <3>5 DEF vars
    <3> QED  BY <1>2, <3>1, <3>2, <3>3, <3>4, <3>5 DEF Next, Ask
  <2> QED  BY <2>1
<1> QED  BY <1>1, <1>2

LEMMA QueryStep ==
    ASSUME IInv, [Next]_vars, NEW q \in Query, query[q] = "running"
    PROVE  /\ asked'[q] = asked[q] /\ historical'[q] = historical[q]
           /\ query'[q] = "answered" => Whole(q)
<1> USE DEF document, version, inst, queries
<1> DEFINE Goal == /\ asked'[q] = asked[q] /\ historical'[q] = historical[q]
                   /\ query'[q] = "answered" => Whole(q)
<1>1. ASSUME NEW r \in Query, Ask(r)  PROVE Goal
  <2>1. ASSUME NEW S \in SUBSET Version, NEW hist \in BOOLEAN, Submit(r, S, hist)  PROVE Goal
    BY <2>1 DEF Submit, IInv, TypeOK
  <2>2. CASE (\E v \in Version : Authorize(r, v)) \/ OpenDocument(r) \/ Denied(r)
    BY <2>2 DEF Authorize, OpenDocument, Denied
  <2>3. CASE Finish(r)
    BY <2>3 DEF Finish, LockScope, IInv, TypeOK
  <2> QED  BY <1>1, <2>1, <2>2, <2>3 DEF Ask
<1>2. CASE ~(\E r \in Query : Ask(r))
  <2>1. UNCHANGED queries
    BY <1>2 DEF Next, Ask, Upload, Parse, StartParse, Parsed, Index, FailParse, IndexUnanswered,
                FailParseLost, Revoke, Crash, Expire, RecoverOwnedWork, vars
  <2> QED  BY <2>1
<1> QED  BY <1>1, <1>2

\* A scope of a running query that is broken stays broken.
LEMMA BrokenStep ==
    ASSUME IInv, [Next]_vars, NEW q \in Query, query[q] = "running", ~Whole(q)
    PROVE  ~Whole(q)' /\ query'[q] # "answered"
<1>1. PICK v \in asked[q] : ~InScope(v, historical[q])
  BY DEF Whole
<1>2. v \in Version /\ (state[v] = "READY" \/ doc[v] \in revoked)
  BY DEF IInv, TypeOK, AskedWasReady
<1>3. doc[v] \in Document /\ state[v] # "NONE"
  BY <1>2, DocumentAssumption DEF IInv, TypeOK
<1>4. doc'[v] = doc[v] /\ revoked \subseteq revoked'
  BY <1>2, <1>3, ScopeStep, DocumentAssumption
<1>5. asked'[q] = asked[q] /\ historical'[q] = historical[q] /\ query'[q] # "answered"
  BY QueryStep
<1>6. CASE doc[v] \in revoked
  <2>1. ~InScope(v, historical[q])'
    BY <1>4, <1>6 DEF InScope
  <2> QED  BY <1>5, <2>1 DEF Whole, InScope
<1>7. CASE doc[v] \notin revoked
  <2>1. ~historical[q] /\ head[doc[v]] # v
    BY <1>1, <1>2, <1>7 DEF InScope
  <2>2. head'[doc[v]] # v
    BY <1>3, <2>1, ScopeStep
  <2> QED  BY <1>4, <1>5, <2>1, <2>2 DEF Whole, InScope
<1> QED  BY <1>6, <1>7

\* What a query opens, it was asked about, and it ends only afterwards.
OpeningAsked ==
    \A q \in Query : opening[q] # None => query[q] = "running" /\ opening[q] \in asked[q]

LEMMA OpeningStep == IInv /\ OpeningAsked /\ [Next]_vars => OpeningAsked'
<1> SUFFICES ASSUME IInv, OpeningAsked, [Next]_vars  PROVE OpeningAsked'
  OBVIOUS
<1> USE DEF document, version, inst, queries
<1>1. ASSUME NEW r \in Query, Ask(r)  PROVE OpeningAsked'
  <2>1. ASSUME NEW S \in SUBSET Version, NEW hist \in BOOLEAN, Submit(r, S, hist)  PROVE OpeningAsked'
    BY <2>1 DEF Submit, IInv, TypeOK, OpeningAsked
  <2>2. ASSUME NEW v \in Version, Authorize(r, v)  PROVE OpeningAsked'
    BY <2>2 DEF Authorize, IInv, TypeOK, OpeningAsked
  <2>3. CASE OpenDocument(r) \/ Denied(r)
    BY <2>3 DEF OpenDocument, Denied, IInv, TypeOK, OpeningAsked
  <2>4. CASE Finish(r)
    BY <2>4 DEF Finish, IInv, TypeOK, OpeningAsked
  <2> QED  BY <1>1, <2>1, <2>2, <2>3, <2>4 DEF Ask
<1>2. CASE ~(\E r \in Query : Ask(r))
  <2>1. UNCHANGED queries
    BY <1>2 DEF Next, Ask, Upload, Parse, StartParse, Parsed, Index, FailParse, IndexUnanswered,
                FailParseLost, Revoke, Crash, Expire, RecoverOwnedWork, vars
  <2> QED  BY <2>1 DEF OpeningAsked
<1> QED  BY <1>1, <1>2

LEMMA AlwaysAsked == Spec => [](IInv /\ OpeningAsked)
<1>1. Init => OpeningAsked
  BY DEF Init, OpeningAsked
<1> QED  BY <1>1, OpeningStep, Invariant, PTL DEF Spec

-----------------------------------------------------------------------------
(* The theorems *)

\* The rows are well formed: a version has a document from its upload on, and a
\* document's current version is one of its own.
THEOREM TypeCorrect == Spec => []TypeOK
<1>1. IInv => TypeOK
  BY DEF IInv
<1> QED  BY <1>1, Invariant, PTL

\* However many parses, revocations and takeovers overlap, a revoked document
\* leaves nothing.
THEOREM RevocationComplete == Spec => []RevokedIsGone
<1>1. IInv => RevokedIsGone
  BY DEF IInv
<1> QED  BY <1>1, Invariant, PTL

\* Whoever crashes, a READY version has its regions and its PDF.
THEOREM ReadyComplete == Spec => []ReadyIsWhole
<1>1. IInv => ReadyIsWhole
  BY DEF IInv
<1> QED  BY <1>1, Invariant, PTL

\* Nothing but a revocation takes READY away.
THEOREM ReadyIsStable == Spec => ReadyStays
<1>1. IInv /\ [Next]_vars =>
        [\A v \in Version : state[v] = "READY" => state'[v] = "READY" \/ doc[v] \in revoked']_vars
  BY StateStep DEF Unparsed
<1> QED  BY <1>1, Invariant, PTL DEF Spec, ReadyStays

\* A version that was given up is not published by the goroutine that a takeover
\* has left running.
THEOREM GivenUpIsStable == Spec => GivenUpStays
<1>1. IInv /\ [Next]_vars =>
        [\A v \in Version : state[v] \in GivenUp =>
            /\ state'[v] = state[v] \/ doc[v] \in revoked'
            /\ v \notin regions']_vars
  <2> SUFFICES ASSUME IInv, [Next]_vars, NEW v \in Version, state[v] \in GivenUp
               PROVE  /\ state'[v] = state[v] \/ doc[v] \in revoked'
                      /\ v \notin regions'
    OBVIOUS
  <2>1. state'[v] = state[v] \/ (state'[v] = "REVOKED" /\ doc[v] \in revoked')
    BY StateStep DEF GivenUp, Unparsed
  <2>2. NoneButReady'
    BY NextInvariant DEF IInv
  <2> QED  BY <2>1, <2>2 DEF GivenUp, NoneButReady
<1> QED  BY <1>1, Invariant, PTL DEF Spec, GivenUpStays

\* Two looks at the scope, at the submission and at the answer, are enough.
THEOREM TwoLooksSuffice == Spec => BrokenScopeStays
<1>1. IInv /\ [Next]_vars =>
        [\A q \in Query : query[q] = "running" /\ ~Whole(q) =>
            ~Whole(q)' /\ query'[q] # "answered"]_vars
  BY BrokenStep
<1> QED  BY <1>1, Invariant, PTL DEF Spec, BrokenScopeStays

\* A read gets what it was authorized for unless the document was revoked or
\* overtaken in between, and never more.
THEOREM ReadsInScope == Spec => ReadInScope
<1>1. ASSUME IInv, OpeningAsked, NEW q \in Query, OpenDocument(q)
      PROVE  opening[q] \in asked[q] /\ InScope(opening[q], historical[q])
  BY <1>1 DEF OpeningAsked, OpenDocument, Readable
<1>2. ASSUME IInv, OpeningAsked, NEW q \in Query, Denied(q)
      PROVE  \/ doc[opening[q]] \in revoked
             \/ ~historical[q] /\ head[doc[opening[q]]] # opening[q]
  <2>1. /\ query[q] = "running" /\ opening[q] \in asked[q] /\ asked[q] \subseteq Version
        /\ ~Readable(q)
    BY <1>2 DEF OpeningAsked, Denied, IInv, TypeOK
  <2>2. state[opening[q]] = "READY" \/ doc[opening[q]] \in revoked
    BY <1>2, <2>1 DEF IInv, AskedWasReady
  <2>3. state[opening[q]] = "READY" => opening[q] \in regions
    BY <1>2, <2>1 DEF IInv, ReadyIsWhole
  <2> QED  BY <2>1, <2>2, <2>3 DEF Readable, InScope
<1>3. IInv /\ OpeningAsked =>
        [\A q \in Query :
            /\ OpenDocument(q) => opening[q] \in asked[q] /\ InScope(opening[q], historical[q])
            /\ Denied(q) => \/ doc[opening[q]] \in revoked
                            \/ ~historical[q] /\ head[doc[opening[q]]] # opening[q]]_vars
  BY <1>1, <1>2
<1> QED  BY <1>3, AlwaysAsked, PTL DEF ReadInScope

=============================================================================
