------------------------------- MODULE RepoSync -------------------------------
(***************************************************************************)
(* Repository synchronisation (ingestion/sync_service.py and its           *)
(* adapters).  POST /sync, which the worker calls every few minutes, syncs *)
(* the Git repository and then the Office 365 source; POST /sync/{repo}    *)
(* syncs the repository beside it.  The row of repo_sync_state says up to  *)
(* where a source was ingested.                                            *)
(***************************************************************************)
EXTENDS Naturals, Sequences, FiniteSets

CONSTANTS
  Files,         \* paths of the repository
  FileTraits,    \* what the filters see of each path
  AllowDocuments,\* RepoConfig.allow_documents
  Items,         \* Office 365 items: [kind, traits]
  Scheduled,     \* the worker's call of POST /sync
  ByHand,        \* a call of POST /sync/{repo}
  MaxCommits,    \* bound on the commits of the repository
  MaxSyncErrors  \* bound on requests that fail and calls that are lost

ASSUME SyncAssumption ==
  /\ AllowDocuments \in BOOLEAN
  /\ Scheduled # ByHand
  /\ MaxCommits \in Nat \ {0}
  /\ MaxSyncErrors \in Nat

VARIABLES
  trees,    \* the tree of every commit: the commit that wrote each file, 0 if absent
  feed,     \* the items the Office 365 source holds
  state,    \* rows of repo_sync_state
  links,    \* the column delta_links of the Office 365 row
  stored,   \* documents_meta: what was ingested
  calls,    \* the local state of each call
  failures, \* how many requests and calls failed
  dropped   \* history: what a failed request kept from being ingested

syncVars == <<trees, feed, state, links, stored, calls, failures, dropped>>

-----------------------------------------------------------------------------
(* What the adapters fetch *)

Callers == {Scheduled, ByHand}
Sources == {"git", "office365"}
NoSha == 0
NoCall == [at |-> "idle", sha |-> NoSha, last |-> NoSha, docs |-> {},
           resources |-> {}, links |-> {}]
Kinds == {i.kind : i \in Items}

\* _should_include and should_skip_path; what cannot be read or extracted is dropped.
GitDrops == {"skipped directory", "lock file", "binary", "excluded", "unreadable"}
              \cup (IF AllowDocuments THEN {} ELSE {"office document"})

\* SharePointProvider.fetch_documents.
DriveDrops == {"folder", "deleted", "excluded", "oversized", "no text"}

\* OutlookProvider: an attachment is an item of its own.
MailDrops == {"deleted", "no text", "oversized", "inline image"}

\* TeamsProvider: replies are part of their root message, files are left to SharePoint.
ThreadDrops == {"deleted", "reply", "no text"}

\* OneNoteProvider lists the pages there are.
PageDrops == {"deleted", "no text"}

Drops(kind) ==
  CASE kind = "drive"   -> DriveDrops
    [] kind = "mail"    -> MailDrops
    [] kind = "teams"   -> ThreadDrops
    [] kind = "onenote" -> PageDrops

Wanted == {f \in Files : FileTraits[f] \cap GitDrops = {}}
Fetchable(i) == i.traits \cap Drops(i.kind) = {}

\* A request to Graph: timeouts and server errors are tried again and raise in the
\* end; when the last of five answers is 429 it is returned as if it had succeeded.
MaxRetries == 5
Replies == {"ok", "timeout", "5xx", "429", "4xx"}
GraphRequest(replies) ==
  LET final == {k \in 1..MaxRetries : replies[k] \in {"ok", "4xx"}} \cup {MaxRetries}
      last  == replies[CHOOSE k \in final : \A j \in final : k <= j]
  IN  CASE last = "ok"  -> "items"
        [] last = "429" -> "nothing"
        [] OTHER        -> "raises"

GraphAnswers == {GraphRequest(r) : r \in [1..MaxRetries -> Replies]}

-----------------------------------------------------------------------------
(* State *)

SyncInit ==
  /\ \E present \in SUBSET Files :
       trees = <<[f \in Files |-> IF f \in present THEN 1 ELSE 0]>>
  /\ feed \in SUBSET Items
  /\ state = [s \in Sources |-> [sha |-> NoSha, status |-> "pending"]]
  /\ links = {}
  /\ stored = {}
  /\ calls = [c \in Callers |-> NoCall]
  /\ failures = 0
  /\ dropped = {}

Tip == Len(trees)

\* GitHub's comparison of two commits.  A rename removes one path and adds another.
Changed(base, head) == {f \in Files : trees[base][f] # trees[head][f]}

Docs(head, paths) ==
  {[file |-> f, version |-> trees[head][f]] : f \in {g \in paths \cap Wanted : trees[head][g] # 0}}

\* The INSERT into documents_meta names neither source_type nor project.
Row(doc) == [doc |-> doc, source_type |-> "", project |-> ""]

\* _delete_file_documents selects by those columns, and deletes vectors only after.
Matching(f) ==
  {r \in stored : r.source_type = "github" /\ r.project # "" /\ r.doc.file = f}

Upsert(source, sha, status) ==
  state' = [state EXCEPT ![source] = [sha |-> IF sha = NoSha THEN @.sha ELSE sha,
                                      status |-> status]]

\* What a call does when it is done with the Git repository.
AfterGit(c) == IF c = Scheduled THEN [NoCall EXCEPT !.at = "source"] ELSE NoCall

\* n more requests fail.
Fail(n) == failures + n <= MaxSyncErrors /\ failures' = failures + n

-----------------------------------------------------------------------------
(* sync_repo *)

BeginSync_Locked(c) ==
  /\ calls[c].at = "idle"
  /\ state["git"].status # "syncing"
  /\ Upsert("git", NoSha, "syncing")
  /\ calls' = [calls EXCEPT ![c].at = "head"]
  /\ UNCHANGED <<trees, feed, links, stored, failures, dropped>>

\* Nothing looks at the status: a second sync may begin beside the first.
BeginSync(c) ==
  /\ calls[c].at = "idle"
  /\ Upsert("git", NoSha, "syncing")
  /\ calls' = [calls EXCEPT ![c].at = "head"]
  /\ UNCHANGED <<trees, feed, links, stored, failures, dropped>>

ReadHead(c) ==
  /\ calls[c].at = "head"
  /\ calls' = [calls EXCEPT ![c].at = "state", ![c].sha = Tip]
  /\ UNCHANGED <<trees, feed, state, links, stored, failures, dropped>>

ReadState(c) ==
  LET last == state["git"].sha IN
  /\ calls[c].at = "state"
  /\ calls' = [calls EXCEPT ![c].last = last,
                            ![c].at = CASE last = calls[c].sha -> "ingest"
                                        [] last = NoSha        -> "fetch"
                                        [] OTHER               -> "delete"]
  /\ UNCHANGED <<trees, feed, state, links, stored, failures, dropped>>

\* Every request of the adapter asks for the head of the branch again.
DeleteChanged(c) ==
  /\ calls[c].at = "delete"
  /\ stored' = stored \ UNION {Matching(f) : f \in {g \in Changed(calls[c].last, Tip) :
                                                      trees[calls[c].last][g] # 0}}
  /\ calls' = [calls EXCEPT ![c].at = "fetch"]
  /\ UNCHANGED <<trees, feed, state, links, failures, dropped>>

FetchFiles(c) ==
  /\ calls[c].at = "fetch"
  /\ LET last == calls[c].last
         docs == Docs(Tip, IF last = NoSha THEN Files ELSE Changed(last, Tip))
     IN  \E unread \in SUBSET docs :
           /\ Fail(Cardinality(unread))
           /\ calls' = [calls EXCEPT ![c].at = "ingest", ![c].docs = docs \ unread]
           /\ dropped' = dropped \cup unread
  /\ UNCHANGED <<trees, feed, state, links, stored>>

\* A document the ingestion does not take is logged and left out.
IngestNext(c) ==
  /\ calls[c].at \in {"ingest", "ingest source"}
  /\ \E d \in calls[c].docs :
       /\ calls' = [calls EXCEPT ![c].docs = @ \ {d}]
       /\ \/ /\ stored' = stored \cup {Row(d)}
             /\ UNCHANGED <<failures, dropped>>
          \/ /\ Fail(1)
             /\ dropped' = dropped \cup {d}
             /\ UNCHANGED stored
  /\ UNCHANGED <<trees, feed, state, links>>

RecordHead_AskedAgain(c) ==
  /\ calls[c].at = "ingest"
  /\ calls[c].docs = {}
  /\ Upsert("git", Tip, "ok")
  /\ calls' = [calls EXCEPT ![c] = AfterGit(c)]
  /\ UNCHANGED <<trees, feed, links, stored, failures, dropped>>

\* Records the head that was read before anything was fetched.
RecordHead(c) ==
  /\ calls[c].at = "ingest"
  /\ calls[c].docs = {}
  /\ Upsert("git", calls[c].sha, "ok")
  /\ calls' = [calls EXCEPT ![c] = AfterGit(c)]
  /\ UNCHANGED <<trees, feed, links, stored, failures, dropped>>

SyncFails(c) ==
  /\ \/ calls[c].at \in {"head", "state", "delete", "fetch"}
     \/ calls[c].at = "ingest" /\ calls[c].docs = {}
  /\ Fail(1)
  /\ Upsert("git", NoSha, "error")
  /\ calls' = [calls EXCEPT ![c] = AfterGit(c)]
  /\ UNCHANGED <<trees, feed, links, stored, dropped>>

-----------------------------------------------------------------------------
(* sync_office365 *)

BeginSource(c) ==
  /\ calls[c].at = "source"
  /\ Upsert("office365", NoSha, "syncing")
  /\ calls' = [calls EXCEPT ![c].at = "load"]
  /\ UNCHANGED <<trees, feed, links, stored, failures, dropped>>

\* The first sync starts from no link; later ones take the column as asyncpg returns
\* it, which for JSONB without a codec is text.
LoadState(c) ==
  LET last == state["office365"].sha IN
  /\ calls[c].at = "load"
  /\ calls' = [calls EXCEPT ![c].at = "resources", ![c].last = last, ![c].resources = Kinds,
                            ![c].links = IF last = NoSha THEN {} ELSE links]
  /\ UNCHANGED <<trees, feed, state, links, stored, failures, dropped>>

\* The link of a drive, a folder or a channel is kept before its documents are
\* fetched, that of a notebook after; an answer without a link counts as an empty one.
LinkFirst == {"drive", "mail", "teams"}
LinkKept(k, answer) == IF answer = "raises" /\ k \in LinkFirst THEN BOOLEAN ELSE {answer # "raises"}

\* One drive, folder, channel or notebook; what it raises is caught and logged, and
\* so is an item that cannot be read.
FetchInitial(c) ==
  /\ calls[c].at = "resources"
  /\ calls[c].last = NoSha
  /\ \E k \in calls[c].resources, answer \in GraphAnswers : \E kept \in LinkKept(k, answer) :
       LET found  == {i \in feed : i.kind = k /\ Fetchable(i)}
           listed == IF answer = "items" THEN found ELSE {}
           rest   == calls[c].resources \ {k}
       IN  \E unread \in SUBSET listed :
             /\ Fail(IF answer = "items" THEN Cardinality(unread) ELSE 1)
             /\ calls' = [calls EXCEPT ![c].resources = rest,
                                       ![c].at = IF rest = {} THEN "ingest source" ELSE @,
                                       ![c].docs = @ \cup (listed \ unread),
                                       ![c].links = IF kept THEN @ \cup {k} ELSE @]
             /\ dropped' = dropped \cup (found \ listed) \cup unread
  /\ UNCHANGED <<trees, feed, state, links, stored>>

\* self._delta_links.get raises on text, for the changes and again for the
\* documents of every resource: nothing is deleted and nothing fetched.
FetchIncremental(c) ==
  /\ calls[c].at = "resources"
  /\ calls[c].last # NoSha
  /\ calls' = [calls EXCEPT ![c].resources = {}, ![c].at = "ingest source"]
  /\ UNCHANGED <<trees, feed, state, links, stored, failures, dropped>>

RecordSource(c) ==
  /\ calls[c].at = "ingest source"
  /\ calls[c].docs = {}
  /\ Upsert("office365", 1, "ok")
  /\ calls' = [calls EXCEPT ![c].at = "links"]
  /\ UNCHANGED <<trees, feed, links, stored, failures, dropped>>

SaveLinks(c) ==
  /\ calls[c].at = "links"
  /\ links' = calls[c].links
  /\ calls' = [calls EXCEPT ![c] = NoCall]
  /\ UNCHANGED <<trees, feed, state, stored, failures, dropped>>

SourceFails(c) ==
  /\ \/ calls[c].at \in {"load", "links"}
     \/ calls[c].at = "ingest source" /\ calls[c].docs = {}
  /\ Fail(1)
  /\ Upsert("office365", NoSha, "error")
  /\ calls' = [calls EXCEPT ![c] = NoCall]
  /\ UNCHANGED <<trees, feed, links, stored, dropped>>

-----------------------------------------------------------------------------
(* The rest *)

\* The ingestion service stops; the row still says "syncing".
LoseCall(c) ==
  /\ calls[c].at # "idle"
  /\ Fail(1)
  /\ calls' = [calls EXCEPT ![c] = NoCall]
  /\ UNCHANGED <<trees, feed, state, links, stored, dropped>>

Push(f) ==
  /\ Tip < MaxCommits
  /\ \E version \in {0, Tip + 1} \ {trees[Tip][f]} :
       trees' = Append(trees, [trees[Tip] EXCEPT ![f] = version])
  /\ UNCHANGED <<feed, state, links, stored, calls, failures, dropped>>

ItemArrives(i) ==
  /\ i \notin feed
  /\ feed' = feed \cup {i}
  /\ UNCHANGED <<trees, state, links, stored, calls, failures, dropped>>

SyncStep(c) ==
  \/ ReadHead(c) \/ ReadState(c) \/ DeleteChanged(c) \/ FetchFiles(c) \/ IngestNext(c)
  \/ RecordHead(c) \/ SyncFails(c) \/ BeginSource(c) \/ LoadState(c) \/ FetchInitial(c)
  \/ FetchIncremental(c) \/ RecordSource(c) \/ SaveLinks(c)
  \/ SourceFails(c)

SyncNext ==
  \/ \E c \in Callers : BeginSync(c) \/ SyncStep(c) \/ LoseCall(c)
  \/ \E f \in Files : Push(f)
  \/ \E i \in Items : ItemArrives(i)

\* The worker posts /sync on a schedule, and a call that is not lost goes on.
SyncFairness == WF_syncVars(BeginSync(Scheduled)) /\ WF_syncVars(SyncStep(Scheduled))

SyncSpec == SyncInit /\ [][SyncNext]_syncVars /\ SyncFairness

-----------------------------------------------------------------------------
(* Properties *)

SyncTypeOK ==
  /\ \A n \in DOMAIN trees : trees[n] \in [Files -> 0..n]
  /\ feed \subseteq Items
  /\ state \in [Sources ->
                 [sha : 0..MaxCommits, status : {"pending", "syncing", "ok", "error"}]]
  /\ links \subseteq Kinds
  /\ failures \in 0..MaxSyncErrors

Handled(d) == Row(d) \in stored \/ d \in dropped

\* Of every file of the recorded commit, this version or a later one was ingested, or
\* a failed request kept it out and was logged, or the file has been removed since: a
\* sync that is overtaken by commits or by another sync records nothing it skipped.
RecordedIsIngested ==
  LET sha == state["git"].sha IN
  sha # NoSha =>
    \A f \in Wanted : trees[sha][f] # 0 =>
      \E n \in sha..Tip :
        \/ trees[n][f] = 0
        \/ Handled([file |-> f, version |-> trees[n][f]])

\* When no more is pushed the index catches up with the repository, and a row that
\* says "syncing" does not say so for ever, whatever failed or was lost before.
SyncCatchesUp ==
  /\ (Tip = MaxCommits) ~> (\A d \in Docs(Tip, Files) : Handled(d))
  /\ \A s \in Sources : (state[s].status = "syncing") ~> (state[s].status # "syncing")

\* When nothing more arrives the index catches up with an Office 365 source: the
\* syncs after the first take what changed (adapter.py fetch_changed_files).
Office365IsIncremental ==
  (feed = Items) ~> (\A i \in Items : Fetchable(i) => Handled(i))

=============================================================================
