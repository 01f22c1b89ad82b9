------------------------------ MODULE Ingestion ------------------------------
(***************************************************************************)
(* The ingestion pipeline (ingest_text_chunks) and the bulk deletion       *)
(* (delete_documents) over the stores they share: documents_meta, the PII  *)
(* vault with its project salts, and the vectors in Qdrant.                *)
(*                                                                         *)
(* Every request to PostgreSQL or Qdrant is one step, and no transaction   *)
(* spans two of them.  A request can fail, or take effect while its answer *)
(* is lost; the code swallows some of these errors and raises the others.  *)
(* Left out: the tables nothing reads back (pii_scan_log, the quality      *)
(* columns), the graph and the audit entries of the deletion.  The three   *)
(* collections of Qdrant are one: a document lives in one of them and the  *)
(* deletion treats them alike.  PostgreSQL was reachable at start-up.      *)
(***************************************************************************)
EXTENDS Naturals

CONSTANTS
  Documents,   \* ingestion calls, each with a document id of its own
  Deletions,   \* calls of delete_documents
  Projects,    \* values of the request's field project
  Registered,  \* those with a row in the table projects
  Salts,       \* values secrets.token_hex draws
  Chunks,      \* chunks of a document
  MaxFailures  \* bound: requests that fail

None == "none"
All == "all"

ASSUME NamesAssumption ==
  /\ None \notin Salts \cup Projects
  /\ All \notin Projects
  /\ Registered \subseteq Projects
ASSUME ChunksAssumption == Chunks \in Nat \ {0}

VARIABLES
  call,        \* the ingestion calls
  rows,        \* documents_meta
  salts,       \* pii_vault.project_salts
  stray,       \* projects for which a call used a salt that is not in the table
  vault,       \* pii_vault.original_content and pseudonym_mapping
  points,      \* the points in Qdrant
  rejections,  \* ingestion_rejections
  deletion,    \* the calls of delete_documents
  failures

stores == <<rows, salts, stray, vault, points, rejections>>
vars == <<call, stores, deletion, failures>>

Indices == 1..Chunks
Answers == {"ok", "blocked", "rejected", "failed"}
Actions == {"none", "block", "vault", "mask"}

\* How a request ends.
Outcomes == {"done", "lost", "failed"}
Takes(o) == o # "failed"
Raises(o) == o # "done"
Counted(o) ==
  IF Raises(o) THEN failures < MaxFailures /\ failures' = failures + 1
  ELSE UNCHANGED failures

NoRow == [exists |-> FALSE, project |-> None, chunk_count |-> 0]

\* The INSERT names neither the column project nor source_type.
NewRow(d) == [exists |-> TRUE, project |-> None, chunk_count |-> 0]

NoCall == [at |-> "idle", project |-> None, pii |-> {}, action |-> "none",
           handled |-> {}, refs |-> {}, salt |-> None]
NoDeletion == [at |-> "idle", filter |-> None, ids |-> {}, errors |-> FALSE, before |-> {}]

Init ==
  /\ call = [d \in Documents |-> NoCall]
  /\ rows = [d \in Documents |-> NoRow]
  /\ salts = [p \in Projects |-> None]
  /\ stray = {}
  /\ vault = {}
  /\ points = {}
  /\ rejections = {}
  /\ deletion = [x \in Deletions |-> NoDeletion]
  /\ failures = 0

-----------------------------------------------------------------------------
(* ingest_text_chunks *)

\* Chunks with personal data, found by the scan and kept by the verifier, that
\* are still to be dealt with; they come in order.
Open(d) == call[d].pii \ call[d].handled
IsNext(d, i) == i \in Open(d) /\ \A j \in Open(d) : i <= j

Goto(d, at) == call' = [call EXCEPT ![d].at = at]

Start(d, p, pii) ==
  /\ call[d].at = "idle"
  /\ call' = [call EXCEPT ![d] = [NoCall EXCEPT !.at = "row", !.project = p, !.pii = pii]]
  /\ UNCHANGED <<stores, deletion, failures>>

\* The row is created first, for the vault's foreign key; an error is logged.
InsertRow(d, o) ==
  /\ call[d].at = "row"
  /\ rows' = IF Takes(o) THEN [rows EXCEPT ![d] = NewRow(d)] ELSE rows
  /\ Goto(d, "scan")
  /\ Counted(o)
  /\ UNCHANGED <<salts, stray, vault, points, rejections, deletion>>

AskPrivacy_EveryChunk(d, a) ==
  /\ call[d].at = "scan"
  /\ Open(d) # {}
  /\ a # "none"
  /\ call' = [call EXCEPT ![d].action = a, ![d].at = IF a = "block" THEN "blocked" ELSE "scan"]
  /\ UNCHANGED <<stores, deletion, failures>>

\* check_opa_privacy, at the first chunk with personal data only; "block" also
\* when OPA does not answer.
AskPrivacy(d, a) ==
  /\ call[d].at = "scan"
  /\ Open(d) # {}
  /\ call[d].action = "none"
  /\ a # "none"
  /\ call' = [call EXCEPT ![d].action = a, ![d].at = IF a = "block" THEN "blocked" ELSE "scan"]
  /\ UNCHANGED <<stores, deletion, failures>>

Mask(d) ==
  /\ call[d].at = "scan"
  /\ call[d].action = "mask"
  /\ \E i \in Indices :
       /\ IsNext(d, i)
       /\ call' = [call EXCEPT ![d].handled = @ \cup {i}]
  /\ UNCHANGED <<stores, deletion, failures>>

\* get_or_create_project_salt: SELECT
ReadSalt(d) ==
  /\ call[d].at = "scan"
  /\ call[d].action = "vault"
  /\ Open(d) # {}
  /\ LET salt == salts[call[d].project]
     IN  call' = [call EXCEPT ![d].salt = salt,
                              ![d].at = IF salt = None THEN "new salt" ELSE "store"]
  /\ UNCHANGED <<stores, deletion, failures>>

\* INSERT ... ON CONFLICT DO NOTHING of a fresh salt; an error is swallowed, also
\* that of the foreign key when the project has no row in projects.
InsertSalt(d, s, o) ==
  /\ call[d].at = "new salt"
  /\ LET p == call[d].project
     IN  salts' = IF Takes(o) /\ p \in Registered /\ salts[p] = None
                  THEN [salts EXCEPT ![p] = s] ELSE salts
  /\ call' = [call EXCEPT ![d].salt = s, ![d].at = "reread"]
  /\ Counted(o)
  /\ UNCHANGED <<rows, stray, vault, points, rejections, deletion>>

WinningSalt_Own(d) == call[d].salt
\* The salt in the table, whoever put it there, else the call's own.
WinningSalt(d) ==
  IF salts[call[d].project] = None THEN call[d].salt ELSE salts[call[d].project]

RereadSalt(d) ==
  /\ call[d].at = "reread"
  /\ call' = [call EXCEPT ![d].salt = WinningSalt(d), ![d].at = "store"]
  /\ stray' = IF salts[call[d].project] = None THEN stray \cup {call[d].project} ELSE stray
  /\ UNCHANGED <<rows, salts, vault, points, rejections, deletion, failures>>

StoreInVault_ErrorLogged(d, o) ==
  /\ call[d].at = "store"
  /\ ~rows[d].exists => o = "failed"
  /\ \E i \in Indices :
       /\ IsNext(d, i)
       /\ vault' = IF Takes(o)
                   THEN vault \cup {[doc |-> d, chunk |-> i, salt |-> call[d].salt]}
                   ELSE vault
       /\ call' = [call EXCEPT ![d].at = "scan", ![d].handled = @ \cup {i},
                               ![d].refs = @ \cup {i}]
  /\ IF rows[d].exists THEN Counted(o) ELSE UNCHANGED failures
  /\ UNCHANGED <<rows, salts, stray, points, rejections, deletion>>

\* store_in_vault: original and mapping in one transaction.  The foreign key
\* refuses them when the document's row is missing.
StoreInVault(d, o) ==
  /\ call[d].at = "store"
  /\ ~rows[d].exists => o = "failed"
  /\ \E i \in Indices :
       /\ IsNext(d, i)
       /\ vault' = IF Takes(o)
                   THEN vault \cup {[doc |-> d, chunk |-> i, salt |-> call[d].salt]}
                   ELSE vault
       /\ call' = IF Raises(o) THEN [call EXCEPT ![d].at = "failed"]
                  ELSE [call EXCEPT ![d].at = "scan", ![d].handled = @ \cup {i},
                                    ![d].refs = @ \cup {i}]
  /\ IF rows[d].exists THEN Counted(o) ELSE UNCHANGED failures
  /\ UNCHANGED <<rows, salts, stray, points, rejections, deletion>>

Gate_BeforeTheLastChunk(d, allowed) ==
  /\ call[d].at = "scan"
  /\ Goto(d, IF allowed THEN "embed" ELSE "record")
  /\ UNCHANGED <<stores, deletion, failures>>

\* The quality gate; not allowed also when OPA does not answer.
Gate(d, allowed) ==
  /\ call[d].at = "scan"
  /\ Open(d) = {}
  /\ Goto(d, IF allowed THEN "embed" ELSE "record")
  /\ UNCHANGED <<stores, deletion, failures>>

RecordRejection(d, o) ==
  /\ call[d].at = "record"
  /\ rejections' = IF Takes(o) THEN rejections \cup {d} ELSE rejections
  /\ Goto(d, IF Raises(o) THEN "rejected" ELSE "remove")
  /\ Counted(o)
  /\ UNCHANGED <<rows, salts, stray, vault, points, deletion>>

\* ON DELETE CASCADE of the vault's foreign keys.
Cascade(ds) == {v \in vault : v.doc \notin ds}

DeleteRows(ds) ==
  /\ rows' = [d \in Documents |-> IF d \in ds THEN NoRow ELSE rows[d]]
  /\ vault' = Cascade(ds)

RemoveRejected(d, o) ==
  /\ call[d].at = "remove"
  /\ IF Takes(o) THEN DeleteRows({d}) ELSE UNCHANGED <<rows, vault>>
  /\ Goto(d, "rejected")
  /\ Counted(o)
  /\ UNCHANGED <<salts, stray, points, rejections, deletion>>

\* The points of one layer; raw are the chunks whose personal data is in them.
Layer(d, layer) ==
  [doc |-> d, layer |-> layer, refs |-> IF layer = "L2" THEN call[d].refs ELSE {},
   raw |-> Open(d)]

\* Embedding and upsert of the chunks; errors are raised.
UpsertChunks(d, o) ==
  /\ call[d].at = "embed"
  /\ points' = IF Takes(o) THEN points \cup {Layer(d, "L2")} ELSE points
  /\ Goto(d, IF Raises(o) THEN "failed" ELSE "L0")
  /\ Counted(o)
  /\ UNCHANGED <<rows, salts, stray, vault, rejections, deletion>>

\* The abstract (L0) and the overview (L1) may each be missing.
UpsertLayer(d, layer, made) ==
  /\ call[d].at = layer
  /\ points' = IF made THEN points \cup {Layer(d, layer)} ELSE points
  /\ Goto(d, IF layer = "L0" THEN "L1" ELSE "final")
  /\ UNCHANGED <<rows, salts, stray, vault, rejections, deletion, failures>>

\* The UPDATE of the row, if it is still there; an error is logged.
Finish(d, o) ==
  /\ call[d].at = "final"
  /\ rows' = IF Takes(o) /\ rows[d].exists
             THEN [rows EXCEPT ![d].chunk_count = Chunks] ELSE rows
  /\ Goto(d, "ok")
  /\ Counted(o)
  /\ UNCHANGED <<salts, stray, vault, points, rejections, deletion>>

\* The server stops, or a request whose errors are raised fails.
CallFails(d) ==
  /\ call[d].at \notin Answers \cup {"idle"}
  /\ Goto(d, "failed")
  /\ Counted("failed")
  /\ UNCHANGED <<stores, deletion>>

-----------------------------------------------------------------------------
(* delete_documents *)

\* The row's column, and the point's payload.
RowMatches(d, f) == rows[d].exists /\ (f = All \/ rows[d].project = f)
PointMatches(q, f) == f = All \/ call[q.doc].project = f

Ended == {d \in Documents : call[d].at \in Answers}

\* SELECT id; before is history: the documents whose ingestion was over.
StartDelete(x, f) ==
  /\ deletion[x].at = "idle"
  /\ deletion' = [deletion EXCEPT ![x] =
       [at |-> "points", filter |-> f, ids |-> {d \in Documents : RowMatches(d, f)},
        errors |-> FALSE, before |-> Ended]]
  /\ UNCHANGED <<call, stores, failures>>

DeletedPoints_LayerL2(f) == {q \in points : PointMatches(q, f) /\ q.layer = "L2"}

DeletedPoints(f) == {q \in points : PointMatches(q, f)}

\* Errors of Qdrant are collected for the answer.
DeletePoints(x, o) ==
  /\ deletion[x].at = "points"
  /\ points' = IF Takes(o) THEN points \ DeletedPoints(deletion[x].filter) ELSE points
  /\ deletion' = [deletion EXCEPT ![x].at = "rows", ![x].errors = Raises(o)]
  /\ Counted(o)
  /\ UNCHANGED <<call, rows, salts, stray, vault, rejections>>

\* The filter is evaluated again, unless no row matched at the start.
DeleteMatching(x, o) ==
  /\ deletion[x].at = "rows"
  /\ deletion[x].ids = {} => o = "done"
  /\ IF Takes(o) /\ deletion[x].ids # {}
     THEN DeleteRows({d \in Documents : RowMatches(d, deletion[x].filter)})
     ELSE UNCHANGED <<rows, vault>>
  /\ deletion' = [deletion EXCEPT ![x].at = IF Raises(o) THEN "failed" ELSE "ok"]
  /\ Counted(o)
  /\ UNCHANGED <<call, salts, stray, points, rejections>>

-----------------------------------------------------------------------------
Next ==
  \/ \E d \in Documents :
       \/ \E p \in Projects, pii \in SUBSET Indices : Start(d, p, pii)
       \/ \E a \in Actions : AskPrivacy(d, a)
       \/ Mask(d) \/ ReadSalt(d) \/ RereadSalt(d) \/ CallFails(d)
       \/ \E allowed \in BOOLEAN : Gate(d, allowed)
       \/ \E layer \in {"L0", "L1"}, made \in BOOLEAN : UpsertLayer(d, layer, made)
       \/ \E o \in Outcomes :
            \/ InsertRow(d, o) \/ StoreInVault(d, o) \/ RecordRejection(d, o)
            \/ RemoveRejected(d, o) \/ UpsertChunks(d, o) \/ Finish(d, o)
            \/ \E s \in Salts : InsertSalt(d, s, o)
  \/ \E x \in Deletions :
       \/ \E f \in Projects \cup {All} : StartDelete(x, f)
       \/ \E o \in Outcomes : DeletePoints(x, o) \/ DeleteMatching(x, o)

Spec == Init /\ [][Next]_vars

-----------------------------------------------------------------------------
(* Properties *)

Places == Answers \cup {"idle", "row", "scan", "new salt", "reread", "store", "record",
                        "remove", "embed", "L0", "L1", "final"}
Calls == [at : Places, project : Projects \cup {None}, pii : SUBSET Indices,
          action : Actions, handled : SUBSET Indices, refs : SUBSET Indices,
          salt : Salts \cup {None}]
Rows == [exists : BOOLEAN, project : {None}, chunk_count : 0..Chunks]
Originals == [doc : Documents, chunk : Indices, salt : Salts]
Layers == [doc : Documents, layer : {"L0", "L1", "L2"}, refs : SUBSET Indices,
           raw : SUBSET Indices]
DeletionCalls == [at : {"idle", "points", "rows", "ok", "failed"},
                  filter : Projects \cup {None, All}, ids : SUBSET Documents,
                  errors : BOOLEAN, before : SUBSET Documents]

\* Calls, rows and points hold values of their types.
TypeOK ==
  /\ call \in [Documents -> Calls]
  /\ rows \in [Documents -> Rows]
  /\ salts \in [Projects -> Salts \cup {None}]
  /\ stray \subseteq Projects
  /\ vault \subseteq Originals
  /\ points \subseteq Layers
  /\ rejections \subseteq Documents
  /\ deletion \in [Deletions -> DeletionCalls]
  /\ failures \in Nat

SameProject(v, w) == call[v.doc].project = call[w.doc].project

\* Two ingestions of a project never pseudonymise with different salts, whichever
\* of them creates it, as long as the salt could be stored at all.
OneSalt ==
  \A v, w \in vault :
    SameProject(v, w) /\ call[v.doc].project \notin stray => v.salt = w.salt

\* While a document has its row, every vault_ref of its searchable points finds
\* its original: no deletion, rejection or failure tears them apart.
RefsResolve ==
  \A q \in points : rows[q.doc].exists =>
    \A i \in q.refs : \E v \in vault : v.doc = q.doc /\ v.chunk = i

\* Of an original in the vault: its document was not refused, neither blocked, though
\* earlier chunks were scanned already, nor (unless a request failed) rejected by the
\* quality gate after its originals were stored.
OfAccepted(v) ==
  /\ call[v.doc].at # "blocked"
  /\ call[v.doc].at = "rejected" => failures > 0

\* Of a point: its document was not refused, and the personal data found in its chunk
\* was masked or replaced by a pseudonym.
IsCleared(q) == q.raw = {} /\ call[q.doc].at \notin {"blocked", "rejected"}

\* What a call is refused for stays nowhere, though the pipeline returns in the middle
\* of its loop over the chunks: neither an original in the vault nor a point to search.
RefusalLeavesNothing ==
  /\ \A v \in vault : OfAccepted(v)
  /\ \A q \in points : IsCleared(q)

Erased(d) ==
  /\ ~rows[d].exists
  /\ \A q \in points : q.doc # d
  /\ \A v \in vault : v.doc # d

Reported(x) == deletion[x].at = "ok" /\ ~deletion[x].errors

\* After a deletion of everything that reported no error, whatever had been
\* ingested before it started, or had failed on the way, is in no store, though
\* other ingestions went on all the time.
DeletionErases ==
  \A x \in Deletions : Reported(x) /\ deletion[x].filter = All =>
    \A d \in deletion[x].before : Erased(d)

\* What docs/mcp-tools.md:117 says of a deletion by any filter, "Cascades to
\* Qdrant, PostgreSQL, PII Vault, and Knowledge Graph": no original of the project
\* that was in the vault when it started is left.
FilteredDeletionErasesOriginals ==
  \A x \in Deletions : Reported(x) =>
    \A v \in vault : v.doc \in deletion[x].before =>
      call[v.doc].project # deletion[x].filter

=============================================================================
