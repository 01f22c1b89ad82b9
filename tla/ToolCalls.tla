------------------------------ MODULE ToolCalls ------------------------------
(***************************************************************************)
(* One call of a tool of the MCP server, from the gates of its handler to  *)
(* the answer, beside administrators who change the access policy and      *)
(* services that fail.  Searches are modelled hit by hit; the other tools  *)
(* by what their handlers do in which order, one entry of Handler each.    *)
(* The kill switch and the approval queue before the handler, deletions    *)
(* and incidents have modules of their own, and so has the cache of the    *)
(* policy's decisions: "permitted" is what check_opa_policy answers.       *)
(***************************************************************************)
EXTENDS Naturals, Sequences, FiniteSets

CONSTANTS
  Chunks,     \* what a search may find
  Class,      \* [Chunks -> classification]; "internal" where the payload has none
  Sealed,     \* the chunks whose originals are in the vault
  TopK,
  MaxUpdates, \* bound on changes of the policy
  MaxFaults   \* bound on failures

Classes == {"internal", "confidential"}

ASSUME ToolCallsAssumption ==
  /\ Class \in [Chunks -> Classes]
  /\ Sealed \subseteq Chunks
  /\ TopK \in Nat \ {0}

VARIABLES
  tool, role,
  token,     \* a valid PII token and a purpose came with the call
  resource,  \* the classification of the data set or document asked for
  permitted, \* the classifications the policy allows the role now
  opens,     \* those whose originals the vault policy allows for the purpose
  ever,      \* the classifications permitted at some time of the call
  at,        \* the step the handler is at, or how it ended
  found,     \* the hits, in the order of the search
  judged,    \* hits whose decision is there
  cleared,   \* and was to allow
  ranked,    \* the hits of the answer
  position,  \* in ranked, while originals are looked up
  revealed,    \* hits whose original was put into the answer
  vaultLog,  \* pii_vault.vault_access_log
  audited,     \* the call's entry in agent_access_log
  done,      \* the tool's work was done; of check_policy, that the answer was yes
  updates, faults

callVars == <<tool, role, token, resource, permitted, opens, ever, at, found, judged,
              cleared, ranked, position, revealed, vaultLog, audited, done, updates, faults>>

fixed == <<tool, role, token, resource>>
policies == <<permitted, opens, ever, updates>>
result == <<found, judged, cleared, ranked, position, revealed>>
records == <<vaultLog, audited, done>>

-----------------------------------------------------------------------------
(* What the handlers do *)

\* Who may, and what the handler does: log a denial, end early with an error that is
\* not logged, change something, answer with a failure of its work as the result, and
\* log the access.
Tool(gate, traits) == [gate |-> gate, traits |-> traits]

query_data == Tool("policy", {"denial logged", "ends early", "logged"})
manage_policies == Tool("admin", {"denial logged", "ends early", "changes", "logged"})
get_rules == Tool("none", {"failure answered", "logged"})
check_policy == Tool("none", {"logged"})
ingest_data == Tool("none", {"changes", "failure answered", "logged"})
get_classification == Tool("none", {"ends early"})
graph_query == Tool("none", {"failure answered", "logged"})
graph_mutate == Tool("developer", {"denial logged", "changes", "failure answered", "logged"})
submit_feedback == Tool("none", {"changes"})
get_eval_stats == Tool("none", {})
create_snapshot == Tool("admin", {"changes", "failure answered", "logged"})
list_snapshots == Tool("none", {})
get_document == Tool("policy", {"logged"})
generate_compliance_doc == Tool("admin", {"denial logged", "ends early", "changes", "logged"})
get_system_info == Tool("none", {"logged"})
verify_audit_integrity == Tool("admin", {"denial logged", "logged"})
export_audit_log == Tool("admin", {"denial logged", "ends early", "logged"})

Handler ==
  [query_data |-> query_data, manage_policies |-> manage_policies, get_rules |-> get_rules,
   check_policy |-> check_policy, ingest_data |-> ingest_data,
   get_classification |-> get_classification, graph_query |-> graph_query,
   graph_mutate |-> graph_mutate, submit_feedback |-> submit_feedback,
   get_eval_stats |-> get_eval_stats, create_snapshot |-> create_snapshot,
   list_snapshots |-> list_snapshots, get_document |-> get_document,
   generate_compliance_doc |-> generate_compliance_doc, get_system_info |-> get_system_info,
   verify_audit_integrity |-> verify_audit_integrity, export_audit_log |-> export_audit_log]

\* The tools that answer with hits; the last is the POST the proxy can resolve
\* pseudonyms with.
Searches == {"search_knowledge", "get_code_context"}
Lists == {"list_datasets"}
Resolves == {"/vault/resolve"}
Tools == DOMAIN Handler \cup Searches \cup Lists \cup Resolves

\* The tools without an entry of their own in the audit log.
Unlogged ==
  {t \in DOMAIN Handler : "logged" \notin Handler[t].traits} \cup Lists \cup Resolves

-----------------------------------------------------------------------------
ToolCallsInit ==
  /\ tool \in Tools
  /\ role \in {"analyst", "developer", "admin"}
  /\ token \in BOOLEAN
  /\ tool \in Resolves => token
  /\ token => tool \in Searches \cup Resolves
  /\ tool \notin DOMAIN Handler => role = "analyst"
  /\ resource \in Classes
  /\ resource = "internal" \/ tool \in {"query_data", "get_document", "check_policy"}
  /\ permitted \in SUBSET Classes
  /\ opens \in SUBSET Classes
  /\ ever = permitted
  /\ at = "called"
  /\ found = <<>> /\ judged = {} /\ cleared = {} /\ ranked = <<>>
  /\ position = 1
  /\ revealed = {} /\ vaultLog = {}
  /\ audited = "none"
  /\ done = FALSE
  /\ updates = 0 /\ faults = 0

Over == {"answered", "denied", "error"}

UpdatePolicy ==
  /\ updates < MaxUpdates
  /\ at \notin Over
  /\ permitted' \in SUBSET Classes
  /\ opens' \in SUBSET Classes
  /\ ever' = ever \cup permitted'
  /\ updates' = updates + 1
  /\ UNCHANGED <<fixed, at, result, records, faults>>

Fault == faults < MaxFaults /\ faults' = faults + 1

\* Any statement or request may raise, save those of the summary: call_tool makes an
\* error of it.  The work may have been done before.
CallRaises ==
  /\ at \notin Over \cup {"summary"}
  /\ Fault
  /\ at' = "error"
  /\ done' \in {done, at = "working"}
  /\ UNCHANGED <<fixed, policies, result, vaultLog, audited>>

Go(step) == at' = step /\ UNCHANGED <<fixed, policies, faults>>

-----------------------------------------------------------------------------
(* Searches *)

Items(s) == {s[i] : i \in DOMAIN s}

\* The sequences of different members of a set.
Orders(S) ==
  UNION {{s \in [1..n -> S] : \A i, j \in 1..n : i # j => s[i] # s[j]} : n \in 0..TopK + 1}

Least(m, n) == IF m < n THEN m ELSE n

Find ==
  /\ at = "called"
  /\ tool \in Searches \cup Lists
  /\ found' \in Orders(Chunks)
  /\ Go("judging")
  /\ UNCHANGED <<judged, cleared, ranked, position, revealed, records>>

\* All hits are asked about at once; the answers come in any order.
Judge(c) ==
  /\ at = "judging"
  /\ c \in Items(found) \ judged
  /\ judged' = judged \cup {c}
  /\ cleared' = IF Class[c] \in permitted THEN cleared \cup {c} ELSE cleared
  /\ Go("judging")
  /\ UNCHANGED <<found, ranked, position, revealed, records>>

\* Whatever fails but the connection is a denial.
JudgeFails(c) ==
  /\ at = "judging"
  /\ c \in Items(found) \ judged
  /\ Fault
  /\ judged' = judged \cup {c}
  /\ UNCHANGED <<fixed, policies, at, found, cleared, ranked, position, revealed, records>>

Judged == at = "judging" /\ judged = Items(found)

Before(c, d) == \E i, j \in DOMAIN found : i < j /\ found[i] = c /\ found[j] = d

\* The hits that were allowed, in the order of the search: one sequence.
Allowed ==
  {s \in Orders(cleared) :
     /\ Items(s) = cleared
     /\ \A i, j \in DOMAIN s : i < j => Before(s[i], s[j])}

AnswerList ==
  /\ Judged
  /\ tool \in Lists
  /\ ranked' \in Allowed
  /\ Go("answered")
  /\ UNCHANGED <<found, judged, cleared, position, revealed, records>>

\* What a reranker may return: top_n of the hits it was sent, in its order.
Reranked == {s \in Orders(cleared) : Len(s) = Least(TopK, Cardinality(cleared))}

\* The boosts may change the order once more.
Rerank ==
  /\ Judged
  /\ tool \in Searches
  /\ ranked' \in Reranked
  /\ Go(IF tool = "search_knowledge" THEN "opening" ELSE "logging")
  /\ UNCHANGED <<found, judged, cleared, position, revealed, records>>

\* The reranker is off or does not answer.
KeepOrder_All ==
  /\ Judged
  /\ tool \in Searches
  /\ ranked' = SubSeq(found, 1, Least(TopK, Len(found)))
  /\ Go(IF tool = "search_knowledge" THEN "opening" ELSE "logging")
  /\ UNCHANGED <<found, judged, cleared, position, revealed, records>>

KeepOrder ==
  /\ Judged
  /\ tool \in Searches
  /\ \E s \in Allowed : ranked' = SubSeq(s, 1, Least(TopK, Len(s)))
  /\ Go(IF tool = "search_knowledge" THEN "opening" ELSE "logging")
  /\ UNCHANGED <<found, judged, cleared, position, revealed, records>>

-----------------------------------------------------------------------------
(* Originals from the vault *)

\* The chunks the pseudonyms of a text were made in; the text itself is not asked about.
FindPseudonyms ==
  /\ at = "called"
  /\ tool \in Resolves
  /\ ranked' \in Orders(Sealed)
  /\ Go("opening")
  /\ UNCHANGED <<found, judged, cleared, position, revealed, records>>

AtHit == at = "opening" /\ token /\ position <= Len(ranked)

\* The vault policy is asked, and the original put into the answer.
OpenOriginal ==
  /\ AtHit
  /\ LET c == ranked[position]
     IN /\ c \in Sealed
        /\ Class[c] \in opens
        /\ revealed' = revealed \cup {c}
  /\ Go("filing")
  /\ UNCHANGED <<found, judged, cleared, ranked, position, records>>

\* The policy says no or cannot be asked, or the vault has nothing (any more).
SkipOriginal ==
  /\ AtHit
  /\ position' = position + 1
  /\ Go("opening")
  /\ UNCHANGED <<found, judged, cleared, ranked, revealed, records>>

FileAccess ==
  /\ at = "filing"
  /\ vaultLog' = vaultLog \cup {ranked[position]}
  /\ position' = position + 1
  /\ Go("opening")
  /\ UNCHANGED <<found, judged, cleared, ranked, revealed, audited, done>>

EndOpening ==
  /\ at = "opening"
  /\ ~AtHit
  /\ Go(IF tool \in Resolves THEN "answered" ELSE "logging")
  /\ UNCHANGED <<result, records>>

-----------------------------------------------------------------------------
(* The other tools *)

RolePasses ==
  LET gate == Handler[tool].gate
  IN /\ gate = "admin" => role = "admin"
     /\ gate = "developer" => role \in {"developer", "admin"}

Passes == RolePasses /\ (Handler[tool].gate = "policy" => resource \in permitted)

Does(trait) == trait \in Handler[tool].traits

Called == at = "called" /\ tool \in DOMAIN Handler

Enter == Called /\ Passes /\ Go("working") /\ UNCHANGED <<result, records>>

Refuse ==
  /\ Called
  /\ ~Passes
  /\ Go(IF Does("denial logged") THEN "denying" ELSE "denied")
  /\ UNCHANGED <<result, records>>

\* A document without points is not asked about.
EnterEmpty ==
  /\ Called
  /\ tool = "get_document"
  /\ Go("logging")
  /\ UNCHANGED <<result, records>>

\* Nothing of that name, a format or a value that is not accepted; no answer of OPA
\* to an update of the policy, which may have taken it.
AnswerEarly ==
  /\ at = "working" \/ (at = "called" /\ tool = "query_data")
  /\ Does("ends early")
  /\ done' \in {FALSE, tool = "manage_policies"}
  /\ Go("error")
  /\ UNCHANGED <<result, vaultLog, audited>>

LogDenial ==
  /\ at = "denying"
  /\ audited' = "deny"
  /\ Go("denied")
  /\ UNCHANGED <<result, vaultLog, done>>

Work ==
  /\ at = "working"
  /\ done' = (tool = "check_policy" => resource \in permitted)
  /\ Go(IF Does("logged") THEN "logging" ELSE "answered")
  /\ UNCHANGED <<result, vaultLog, audited>>

\* The failure is told in the answer, and an entry written all the same; what was
\* asked for may have been done.
WorkFails ==
  /\ at = "working"
  /\ Does("failure answered")
  /\ Fault
  /\ done' \in {FALSE, Does("changes")}
  /\ at' = "logging"
  /\ UNCHANGED <<fixed, policies, result, vaultLog, audited>>

-----------------------------------------------------------------------------
(* The entry and the summary *)

AfterEntry == IF tool \in Searches THEN "summary" ELSE "answered"

\* The query is masked first, or kept as it is when the scanner does not answer.
LogAccess ==
  /\ at = "logging"
  /\ audited' = IF tool = "check_policy" /\ ~done THEN "deny" ELSE "allow"
  /\ Go(AfterEntry)
  /\ UNCHANGED <<result, vaultLog, done>>

\* A summary that the policy requires for the first hit's classification replaces the
\* contents; the hits stay those of the answer, whatever fails.
Summarise ==
  /\ at = "summary"
  /\ Go("answered")
  /\ UNCHANGED <<result, records>>

ToolCallsNext ==
  \/ UpdatePolicy \/ CallRaises
  \/ Find \/ AnswerList \/ Rerank \/ KeepOrder
  \/ \E c \in Chunks : Judge(c) \/ JudgeFails(c)
  \/ FindPseudonyms \/ OpenOriginal \/ SkipOriginal \/ FileAccess \/ EndOpening
  \/ Enter \/ EnterEmpty \/ Refuse \/ AnswerEarly \/ LogDenial \/ Work \/ WorkFails
  \/ LogAccess \/ Summarise

ToolCallsSpec == ToolCallsInit /\ [][ToolCallsNext]_callVars

-----------------------------------------------------------------------------
(* Correctness *)

\* The records have their types.
ToolCallsTypeOK ==
  /\ tool \in Tools
  /\ permitted \cup opens \cup ever \subseteq Classes
  /\ judged \cup cleared \cup revealed \cup vaultLog \subseteq Chunks
  /\ Items(found) \cup Items(ranked) \subseteq Chunks
  /\ audited \in {"none", "allow", "deny"}
  /\ done \in BOOLEAN

AnswerIsAudited ==
  /\ audited = "none" => tool \in Unlogged
  /\ revealed \subseteq vaultLog

AnswerIsPermitted ==
  /\ tool \in Searches \cup Lists =>
       /\ revealed \subseteq Items(ranked)
       /\ \A c \in Items(ranked) : c \in cleared /\ Class[c] \in ever
  /\ tool \in DOMAIN Handler /\ Handler[tool].gate = "policy" /\ done => resource \in ever

WorkIsPermitted ==
  /\ done => RolePasses
  /\ at = "denied" => ~done /\ (Does("denial logged") => audited = "deny")

\* What is answered was permitted during the call: each hit was asked about and allowed
\* in whatever order and by whichever path it got into the answer, originals are only
\* those of such hits, and rows are of a data set that was.  And it is on record: in the
\* audit log for the tools that keep an entry, whatever failed on the way, and in the
\* vault's log for each original.  No tool did anything for a role that its gate keeps
\* out, calls that ended with an error or the failure as their answer included; and one
\* that is refused did nothing and has its entry, where the handler keeps one.
ReleasedIsPermitted ==
  /\ at = "answered" => AnswerIsAudited /\ AnswerIsPermitted
  /\ tool \in DOMAIN Handler => WorkIsPermitted

=============================================================================
