-------------------------- MODULE DocumentVersions --------------------------
(***************************************************************************)
(* Documents, their versions and the regions that a version is parsed      *)
(* into: upload, parse, revoke, the takeover of versions whose API         *)
(* instance is lost, and the queries that read regions while all of this   *)
(* goes on.                                                                *)
(*                                                                         *)
(* A transaction that decides something locks the document's row and is    *)
(* one action.  Reading regions is not such a transaction: authorization   *)
(* and the read are two statements, and two actions.                       *)
(*                                                                         *)
(* Bounds: each version is uploaded once, each query is submitted once,    *)
(* MaxTrouble faults.  PDF, regions and answers are abstracted to whether  *)
(* they are there.                                                         *)
(***************************************************************************)
EXTENDS Naturals, FiniteSets

CONSTANTS
    Document, Version, Query, Instance,
    Survivor,      \* an instance that is assumed not to die
    MaxTrouble,    \* bound: faults in one behaviour
    None

ASSUME DocumentAssumption ==
    /\ Survivor \in Instance
    /\ MaxTrouble \in Nat
    /\ None \notin Document \cup Version \cup Instance

VARIABLES
    head,          \* documents.current_version_id
    revoked,       \* documents with revoked_at
    doc, state, owner,   \* document_versions
    regions,       \* versions that have rows in evidence_regions
    blob,          \* versions whose PDF is in the blob directory
    parser,        \* the goroutine of a version
    up, lease,     \* instances: the process; its row in m4_api_instances
    query, asked, historical,   \* query_runs: state, version_ids, historical
    opening,       \* what a query has been authorized to open
    orphan,        \* history: an answer of PostgreSQL about it was lost
    trouble

document == <<head, revoked>>
version  == <<doc, state, owner, regions, blob>>
inst     == <<up, lease>>
queries  == <<query, asked, historical, opening>>
vars     == <<head, revoked, doc, state, owner, regions, blob, parser, up, lease,
              query, asked, historical, opening, orphan, trouble>>

Unparsed == {"QUEUED", "PARSING"}
VersionState == Unparsed \cup {"NONE", "READY", "FAILED", "INTERRUPTED", "REVOKED"}
Gone == [pc |-> "gone", code |-> "FAILED"]

TypeOK ==
    /\ head \in [Document -> Version \cup {None}]
    /\ \A d \in Document : head[d] # None => doc[head[d]] = d
    /\ revoked \subseteq Document
    /\ doc \in [Version -> Document \cup {None}]
    /\ state \in [Version -> VersionState]
    /\ \A v \in Version : (state[v] = "NONE") = (doc[v] = None)
    /\ owner \in [Version -> Instance \cup {None}]
    /\ regions \subseteq Version /\ blob \subseteq Version
    /\ parser \in [Version -> [pc : {"none", "start", "parse", "index", "fail", "gone"},
                               code : {"FAILED", "INTERRUPTED"}]]
    /\ up \in [Instance -> BOOLEAN]
    /\ lease \in [Instance -> {"live", "expired", "stopped"}]
    /\ query \in [Query -> {"none", "running", "answered", "refused"}]
    /\ asked \in [Query -> SUBSET Version]
    /\ historical \in [Query -> BOOLEAN]
    /\ opening \in [Query -> Version \cup {None}]
    /\ orphan \subseteq Version
    /\ trouble \in 0..MaxTrouble

Init ==
    /\ head = [d \in Document |-> None] /\ revoked = {}
    /\ doc = [v \in Version |-> None]
    /\ state = [v \in Version |-> "NONE"]
    /\ owner = [v \in Version |-> None]
    /\ regions = {} /\ blob = {}
    /\ parser = [v \in Version |-> [pc |-> "none", code |-> "FAILED"]]
    /\ up = [i \in Instance |-> TRUE] /\ lease = [i \in Instance |-> "live"]
    /\ query = [q \in Query |-> "none"]
    /\ asked = [q \in Query |-> {}]
    /\ historical = [q \in Query |-> FALSE]
    /\ opening = [q \in Query |-> None]
    /\ orphan = {} /\ trouble = 0

-----------------------------------------------------------------------------
(* upload *)

\* Seeded fault: the version whose file was removed is parsed from memory.
ParseAnyway(v) == parser' = [parser EXCEPT ![v].pc = "start"]

\* The handler returns DOCUMENT_CREATE_FAILED and starts no goroutine.
GiveUp(v) == UNCHANGED parser

\* The PDF is written first.  A new version becomes current before it is parsed.
\* When the answer of COMMIT is lost the file is removed and nothing is parsed.
Upload(i, d, v) ==
    /\ up[i] /\ lease[i] = "live"
    /\ state[v] = "NONE" /\ d \notin revoked
    /\ head' = [head EXCEPT ![d] = v]
    /\ doc' = [doc EXCEPT ![v] = d]
    /\ state' = [state EXCEPT ![v] = "QUEUED"]
    /\ owner' = [owner EXCEPT ![v] = i]
    /\ \/ /\ blob' = blob \cup {v}
          /\ parser' = [parser EXCEPT ![v].pc = "start"]
          /\ UNCHANGED <<orphan, trouble>>
       \/ /\ trouble < MaxTrouble
          /\ trouble' = trouble + 1
          /\ orphan' = orphan \cup {v}
          /\ GiveUp(v) /\ UNCHANGED blob
    /\ UNCHANGED <<revoked, regions, inst, queries>>

-----------------------------------------------------------------------------
(* parse and failParse *)

OwnerLive(v) == lease[owner[v]] = "live"
Parser(v, pc) == parser[v].pc = pc /\ up[owner[v]]
To(v, pc) == parser' = [parser EXCEPT ![v].pc = pc]
FailWith(v, code) == parser' = [parser EXCEPT ![v] = [pc |-> "fail", code |-> code]]

\* UPDATE ... SET state='PARSING', unless the row or the owner has changed.
StartParse(v) ==
    /\ Parser(v, "start")
    /\ \/ /\ state[v] = "QUEUED" /\ OwnerLive(v)
          /\ state' = [state EXCEPT ![v] = "PARSING"] /\ To(v, "parse")
       \/ ~(state[v] = "QUEUED" /\ OwnerLive(v)) /\ To(v, "gone") /\ UNCHANGED state
       \/ FailWith(v, "FAILED") /\ UNCHANGED state
    /\ UNCHANGED <<document, doc, owner, regions, blob, inst, queries, orphan, trouble>>

\* The Parse RPC answers, or fails.
Parsed(v) ==
    /\ Parser(v, "parse")
    /\ To(v, "index") \/ FailWith(v, "FAILED")
    /\ UNCHANGED <<document, version, inst, queries, orphan, trouble>>

\* SELECT ... FROM documents WHERE current_version_id=v ... FOR UPDATE
StillCurrent(v) == head[doc[v]] = v /\ doc[v] \notin revoked

\* Seeded fault: that the version has an owner is enough.
PublishableOwned(v) == StillCurrent(v) /\ owner[v] # None

\* checkM4OwnedRowTx, and UPDATE ... SET state='READY' WHERE state='PARSING'.
Publishable(v) == StillCurrent(v) /\ OwnerLive(v) /\ state[v] = "PARSING"

\* One transaction: the regions and READY, or nothing.  It fails if a region is
\* invalid, if there is none, or if the owner or the state has changed.
Index(v) ==
    /\ Parser(v, "index")
    /\ \/ /\ Publishable(v)
          /\ state' = [state EXCEPT ![v] = "READY"]
          /\ regions' = regions \cup {v}
          /\ To(v, "gone")
       \/ FailWith(v, "FAILED") /\ UNCHANGED <<state, regions>>
       \/ ~StillCurrent(v) /\ FailWith(v, "INTERRUPTED") /\ UNCHANGED <<state, regions>>
    /\ UNCHANGED <<document, doc, owner, blob, inst, queries, orphan, trouble>>

\* Seeded fault: failParse overwrites any state.
FailableAny(v) == OwnerLive(v)

Failable(v) == state[v] \in Unparsed /\ OwnerLive(v)

FailParse(v) ==
    /\ Parser(v, "fail")
    /\ state' = IF Failable(v) THEN [state EXCEPT ![v] = parser[v].code] ELSE state
    /\ To(v, "gone")
    /\ UNCHANGED <<document, doc, owner, regions, blob, inst, queries, orphan, trouble>>

\* COMMIT of the regions takes effect, its answer is lost: failParse follows.
IndexUnanswered(v) ==
    /\ trouble < MaxTrouble
    /\ Parser(v, "index")
    /\ Publishable(v)
    /\ state' = [state EXCEPT ![v] = "READY"]
    /\ regions' = regions \cup {v}
    /\ FailWith(v, "FAILED")
    /\ trouble' = trouble + 1
    /\ UNCHANGED <<document, doc, owner, blob, inst, queries, orphan>>

\* PostgreSQL does not answer failParse.
FailParseLost(v) ==
    /\ trouble < MaxTrouble
    /\ Parser(v, "fail")
    /\ To(v, "gone")
    /\ orphan' = orphan \cup {v}
    /\ trouble' = trouble + 1
    /\ UNCHANGED <<document, version, inst, queries>>

-----------------------------------------------------------------------------
(* revoke *)

VersionsOf(d) == {v \in Version : doc[v] = d}

\* Seeded fault: only the current version of a document is revoked.
RevokedHead(d) == {head[d]}

RevokedVersions(d) == VersionsOf(d)

Revoke(d) ==
    /\ head[d] # None /\ d \notin revoked
    /\ revoked' = revoked \cup {d}
    /\ state' = [v \in Version |-> IF v \in RevokedVersions(d) THEN "REVOKED" ELSE state[v]]
    /\ regions' = regions \ VersionsOf(d)
    /\ UNCHANGED <<head, doc, owner, blob, parser, inst, queries, orphan, trouble>>

-----------------------------------------------------------------------------
(* Instances *)

Crash(i) ==
    /\ trouble < MaxTrouble
    /\ i # Survivor /\ up[i]
    /\ up' = [up EXCEPT ![i] = FALSE]
    /\ trouble' = trouble + 1
    /\ UNCHANGED <<document, version, parser, lease, queries, orphan>>

\* A lease runs out because its process is dead, or its heartbeats are late.
Expire(i) ==
    /\ i # Survivor /\ lease[i] = "live"
    /\ \/ ~up[i] /\ UNCHANGED trouble
       \/ up[i] /\ trouble < MaxTrouble /\ trouble' = trouble + 1
    /\ lease' = [lease EXCEPT ![i] = "expired"]
    /\ UNCHANGED <<document, version, parser, up, queries, orphan>>

\* Seeded fault: the sweep forgets the versions that wait for their parser.
TakenParsing == {"PARSING"}

Taken == Unparsed

\* recoverM4OwnedWork, as far as versions are concerned.
RecoverOwnedWork(i) ==
    LET lost == {v \in Version : state[v] \in Taken /\ lease[owner[v]] # "live"} IN
    /\ up[i]
    /\ lost # {} \/ \E j \in Instance : lease[j] = "expired"
    /\ lease' = [j \in Instance |-> IF lease[j] = "expired" THEN "stopped" ELSE lease[j]]
    /\ state' = [v \in Version |-> IF v \in lost THEN "INTERRUPTED" ELSE state[v]]
    /\ UNCHANGED <<document, doc, owner, regions, blob, parser, up, queries, orphan, trouble>>

-----------------------------------------------------------------------------
(* Queries *)

\* The scope of a query: not revoked, READY, and current unless historical.
InScope(v, hist) ==
    /\ state[v] = "READY" /\ doc[v] \notin revoked
    /\ hist \/ head[doc[v]] = v

Submit(q, S, hist) ==
    /\ query[q] = "none"
    /\ S # {} /\ \A v \in S : InScope(v, hist)
    /\ query' = [query EXCEPT ![q] = "running"]
    /\ asked' = [asked EXCEPT ![q] = S]
    /\ historical' = [historical EXCEPT ![q] = hist]
    /\ UNCHANGED <<document, version, parser, inst, opening, orphan, trouble>>

Whole(q) == \A v \in asked[q] : InScope(v, historical[q])

\* OpenDocument: authorize looks at the scope ...
Authorize(q, v) ==
    /\ query[q] = "running" /\ opening[q] = None
    /\ v \in asked[q] /\ Whole(q)
    /\ opening' = [opening EXCEPT ![q] = v]
    /\ UNCHANGED <<document, version, parser, inst, query, asked, historical, orphan, trouble>>

\* Seeded fault: what was authorized is read without another look.
ReadableAsAuthorized(q) == opening[q] \in regions

\* ... and readRegions joins the document and its version again.
Readable(q) == opening[q] \in regions /\ InScope(opening[q], historical[q])

\* The read; what is no longer readable is PERMISSION_DENIED.
OpenDocument(q) ==
    /\ opening[q] # None /\ Readable(q)
    /\ opening' = [opening EXCEPT ![q] = None]
    /\ UNCHANGED <<document, version, parser, inst, query, asked, historical, orphan, trouble>>

Denied(q) ==
    /\ opening[q] # None /\ ~Readable(q)
    /\ opening' = [opening EXCEPT ![q] = None]
    /\ UNCHANGED <<document, version, parser, inst, query, asked, historical, orphan, trouble>>

\* Seeded fault: the scope that was checked when the query was made is trusted.
LockScopeOnce(q) == asked[q] # {}

LockScope(q) == Whole(q)

\* finishRun with an answer: lockScope decides.
Finish(q) ==
    /\ query[q] = "running" /\ opening[q] = None
    /\ query' = [query EXCEPT ![q] = IF LockScope(q) THEN "answered" ELSE "refused"]
    /\ UNCHANGED <<document, version, parser, inst, asked, historical, opening, orphan, trouble>>

-----------------------------------------------------------------------------

Parse(v) == StartParse(v) \/ Parsed(v) \/ Index(v) \/ FailParse(v)

Next ==
    \/ \E i \in Instance, d \in Document, v \in Version : Upload(i, d, v)
    \/ \E v \in Version : Parse(v) \/ IndexUnanswered(v) \/ FailParseLost(v)
    \/ \E d \in Document : Revoke(d)
    \/ \E i \in Instance : Crash(i) \/ Expire(i) \/ RecoverOwnedWork(i)
    \/ \E q \in Query :
          \/ \E S \in SUBSET Version, hist \in BOOLEAN : Submit(q, S, hist)
          \/ \E v \in Version : Authorize(q, v)
          \/ OpenDocument(q) \/ Denied(q) \/ Finish(q)

Spec == Init /\ [][Next]_vars

\* A goroutine goes on while its process lives (the Parse RPC has a timeout);
\* the lease of a dead process runs out; the survivor's sweep runs.
Fairness ==
    /\ \A v \in Version : WF_vars(Parse(v))
    /\ \A i \in Instance : WF_vars(~up[i] /\ Expire(i))
    /\ WF_vars(RecoverOwnedWork(Survivor))
FairSpec == Spec /\ Fairness

-----------------------------------------------------------------------------
(* Properties *)

\* Nothing of a revoked document is left or comes back: every version of it is
\* REVOKED and has no regions, also when a parse was going on.
RevokedIsGone ==
    \A v \in Version : doc[v] \in revoked => state[v] = "REVOKED" /\ v \notin regions

\* READY means parsed as a whole: the regions and the PDF are there, and they
\* are kept until the document is revoked.  Neither a late failure nor a
\* takeover undoes it, so a historical query keeps its sources.
ReadyIsWhole == \A v \in Version : state[v] = "READY" => v \in regions \cap blob
ReadyStays ==
    [][\A v \in Version :
          state[v] = "READY" => state'[v] = "READY" \/ doc[v] \in revoked']_vars

\* A version that was given up, by its goroutine or by a takeover, stays so and
\* has no regions until its document is revoked, although the goroutine of a
\* process whose heartbeats were late still parses it and gets to its index.
GivenUp == {"FAILED", "INTERRUPTED"}
GivenUpStays ==
    [][\A v \in Version : state[v] \in GivenUp =>
          /\ state'[v] = state[v] \/ doc[v] \in revoked'
          /\ v \notin regions']_vars

\* A read that was authorized succeeds exactly while its version is in the
\* query's scope, although the authorization came earlier: it is denied only
\* because the document has been revoked since or, unless the query is
\* historical, a newer version has been uploaded.
ReadInScope ==
    [][\A q \in Query :
          /\ OpenDocument(q) => opening[q] \in asked[q] /\ InScope(opening[q], historical[q])
          /\ Denied(q) => \/ doc[opening[q]] \in revoked
                          \/ ~historical[q] /\ head[doc[opening[q]]] # opening[q]]_vars

\* The scope of a query is looked at when it is made and when it is answered;
\* that is enough.  A scope that was broken in between is not whole again:
\* a superseded version does not become current, a revoked one does not return.
BrokenScopeStays ==
    [][\A q \in Query : query[q] = "running" /\ ~Whole(q) =>
          ~Whole(q)' /\ query'[q] # "answered"]_vars

\* Every version is settled: parsed, failed, interrupted or revoked, unless an
\* answer of PostgreSQL was lost and its owner keeps its lease.
VersionSettles ==
    \A v \in Version :
        []<>(state[v] \notin Unparsed \/ (v \in orphan /\ lease[owner[v]] = "live"))
=============================================================================
