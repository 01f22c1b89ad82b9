---------------------------- MODULE LookupCaches ----------------------------
(***************************************************************************)
(* The answers the services keep in their processes: an access decision    *)
(* and the fields to redact (OPA), the graph keys to mask (OPA), the       *)
(* transparency report (OPA, Qdrant, PostgreSQL), the proxy's API keys     *)
(* (PostgreSQL) and embeddings (the model server).  A lookup gives way to  *)
(* others while it waits, and then fills the cache whatever happened       *)
(* meanwhile.  One key of one cache is modelled; the caches differ in what *)
(* is kept, for how long and since when.                                   *)
(***************************************************************************)
EXTENDS Integers

CONSTANTS
  Lookups,     \* the requests that may look the key up at once
  Kinds,       \* the caches a behaviour may be about
  TTL,         \* OPA_CACHE_TTL, TRANSPARENCY_CACHE_TTL, cache_ttl
  NegativeTTL, \* negative_cache_ttl of the proxy
  MaxLookup,   \* the longest lookup: the clients' timeouts
  MaxTime,     \* bound on the clock
  MaxVersions, \* bound on the changes of what is looked up
  MaxMisses    \* bound on failed requests

AllKinds == {"decision", "redaction", "graph keys", "transparency", "proxy key",
             "embedding"}

ASSUME CachesAssumption ==
  /\ Kinds \subseteq AllKinds
  /\ TTL \in Nat
  /\ NegativeTTL \in 0..TTL
  /\ MaxLookup \in Nat

VARIABLES
  kind,      \* which cache
  version,   \* of the policy data, the key or the report's sources
  entry,     \* what the cache holds
  lookup,    \* the local state of each lookup
  update,    \* where manage_policies is
  announced, \* the version of the last update that was answered "updated"
  now,
  misses

cacheVars == <<kind, version, entry, lookup, update, announced, now, misses>>

-----------------------------------------------------------------------------
(* What the caches do differently *)

Default == -1
NoEntry == [answer |-> Default, read |-> 0, dated |-> 0, late |-> FALSE, held |-> FALSE]

\* read: when the answer was true; late: an update was announced after that, and
\* before the answer was stored; floor: announced when the lookup ended.
NoLookup == [at |-> "idle", since |-> 0, answer |-> Default, read |-> 0, late |-> FALSE,
             attempt |-> 1, floor |-> 0]

\* A key that was revoked is remembered as such, for a shorter time.
Negative(answer) == kind = "proxy key" /\ answer % 2 = 1

\* The graph keys are loaded once.
Live_Forever(e) == e.held

Live(e) ==
  /\ e.held
  /\ \/ kind = "graph keys"
     \/ now - e.dated < (IF Negative(e.answer) THEN NegativeTTL ELSE TTL)

\* The report is dated from before it was built, the others from when they are stored.
DatedFrom(l) == IF kind = "transparency" THEN lookup[l].since ELSE now

\* manage_policies clears these two caches.
ClearedByUpdate_None == {}
ClearedByUpdate == {"decision", "redaction"}

\* OPA's data is changed by manage_policies; keys and the sources of the report are
\* changed by statements that know nothing of the caches.
ChangedByUpdate == {"decision", "redaction", "graph keys"}

\* These have a size limit, and give up an entry for another key.
Bounded == {"decision", "redaction", "proxy key", "embedding"}

-----------------------------------------------------------------------------
CachesInit ==
  /\ kind \in Kinds
  /\ version = 0
  /\ entry = NoEntry
  /\ lookup = [l \in Lookups |-> NoLookup]
  /\ update = "idle"
  /\ announced = 0
  /\ now = 0
  /\ misses = 0

InFlight(l) == lookup[l].at \in {"asked", "answered"}

\* A request is over before its timeouts are.
Tick ==
  /\ now < MaxTime
  /\ \A l \in Lookups : InFlight(l) => now < lookup[l].since + MaxLookup
  /\ now' = now + 1
  /\ lookup' = [l \in Lookups |-> IF lookup[l].at = "done" THEN NoLookup ELSE lookup[l]]
  /\ UNCHANGED <<kind, version, entry, update, announced, misses>>

ServeCached(l) ==
  /\ lookup[l].at = "idle"
  /\ Live(entry)
  /\ lookup' = [lookup EXCEPT ![l].at = "done", ![l].answer = entry.answer,
                              ![l].read = entry.read, ![l].late = entry.late,
                              ![l].floor = announced]
  /\ UNCHANGED <<kind, version, entry, update, announced, now, misses>>

Ask(l) ==
  /\ lookup[l].at = "idle"
  /\ ~Live(entry)
  /\ lookup' = [lookup EXCEPT ![l].at = "asked", ![l].since = now]
  /\ UNCHANGED <<kind, version, entry, update, announced, now, misses>>

ReceiveAnswer(l) ==
  /\ lookup[l].at = "asked"
  /\ lookup' = [lookup EXCEPT ![l].at = "answered", ![l].answer = version, ![l].read = now]
  /\ UNCHANGED <<kind, version, entry, update, announced, now, misses>>

Miss == misses < MaxMisses /\ misses' = misses + 1

\* An error counts as an answer: deny, the default fields or keys, an empty section.
AssumeDefault(l) ==
  /\ lookup[l].at = "asked"
  /\ kind \notin {"proxy key", "embedding"}
  /\ Miss
  /\ lookup' = [lookup EXCEPT ![l].at = "answered", ![l].answer = Default, ![l].read = now]
  /\ UNCHANGED <<kind, version, entry, update, announced, now>>

\* A decision is asked for twice when OPA cannot be reached; then, and at once for a
\* key, the request fails and nothing is kept.  For an embedding the lookup starts over.
ConnectionFails(l) ==
  /\ lookup[l].at = "asked"
  /\ kind \in {"decision", "proxy key", "embedding"}
  /\ Miss
  /\ lookup' = [lookup EXCEPT ![l] = IF kind = "decision" /\ @.attempt = 1
                                     THEN [@ EXCEPT !.attempt = 2] ELSE NoLookup]
  /\ UNCHANGED <<kind, version, entry, update, announced, now>>

StoreAnswer(l) ==
  /\ lookup[l].at = "answered"
  /\ entry' = [answer |-> lookup[l].answer, read |-> lookup[l].read, dated |-> DatedFrom(l),
               late |-> lookup[l].late, held |-> TRUE]
  /\ lookup' = [lookup EXCEPT ![l].at = "done", ![l].floor = announced]
  /\ UNCHANGED <<kind, version, update, announced, now, misses>>

EndLookup(l) ==
  /\ lookup[l].at = "done"
  /\ lookup' = [lookup EXCEPT ![l] = NoLookup]
  /\ UNCHANGED <<kind, version, entry, update, announced, now, misses>>

Evict ==
  /\ entry.held
  /\ kind \in Bounded
  /\ entry' = NoEntry
  /\ UNCHANGED <<kind, version, lookup, update, announced, now, misses>>

-----------------------------------------------------------------------------
(* Changes *)

ChangeSource ==
  /\ kind \notin ChangedByUpdate
  /\ version < MaxVersions
  /\ version' = version + 1
  /\ UNCHANGED <<kind, entry, lookup, update, announced, now, misses>>

PutPolicy ==
  /\ kind \in ChangedByUpdate
  /\ update = "idle"
  /\ version < MaxVersions
  /\ version' = version + 1
  /\ update' = "put"
  /\ UNCHANGED <<kind, entry, lookup, announced, now, misses>>

\* OPA took the data and its answer is lost: an error is returned, nothing cleared.
PutUnanswered ==
  /\ update = "put"
  /\ Miss
  /\ update' = "idle"
  /\ UNCHANGED <<kind, version, entry, lookup, announced, now>>

ClearAndAnswer ==
  /\ update = "put"
  /\ update' = "idle"
  /\ announced' = version
  /\ entry' = IF kind \in ClearedByUpdate THEN NoEntry ELSE entry
  /\ lookup' = [l \in Lookups |->
                  IF lookup[l].at = "answered" THEN [lookup[l] EXCEPT !.late = TRUE]
                                               ELSE lookup[l]]
  /\ UNCHANGED <<kind, version, now, misses>>

CachesNext ==
  \/ Tick \/ Evict \/ ChangeSource \/ PutPolicy \/ PutUnanswered \/ ClearAndAnswer
  \/ \E l \in Lookups :
       \/ ServeCached(l) \/ Ask(l) \/ ReceiveAnswer(l) \/ AssumeDefault(l)
       \/ ConnectionFails(l) \/ StoreAnswer(l) \/ EndLookup(l)

CachesSpec == CachesInit /\ [][CachesNext]_cacheVars

-----------------------------------------------------------------------------
(* Properties *)

Answers == {Default} \cup Nat

CachesTypeOK ==
  /\ kind \in Kinds
  /\ version \in Nat /\ announced \in Nat /\ now \in Nat /\ misses \in Nat
  /\ update \in {"idle", "put"}
  /\ entry \in [answer : Answers, read : Nat, dated : Nat, late : BOOLEAN, held : BOOLEAN]
  /\ lookup \in [Lookups ->
       [at : {"idle", "asked", "answered", "done"}, since : Nat, answer : Answers,
        read : Nat, late : BOOLEAN, attempt : 1..2, floor : Nat]]

\* However lookups overlap and whatever fails, an answer was true (or its failure was
\* met) at most one TTL and one lookup ago: refilling never extends the life of an
\* old answer.  The graph keys promise nothing.
AnswersAreRecent ==
  \A l \in Lookups :
    lookup[l].at = "done" /\ kind # "graph keys" => now - lookup[l].read <= TTL + MaxLookup

\* Once manage_policies has answered "updated", no lookup ends with a decision or with
\* fields from before the update, but for what a lookup under way at the clearing had
\* read before it and put into the cache after it.
UpdatesTakeEffect ==
  \A l \in Lookups :
    /\ lookup[l].at = "done"
    /\ kind \in {"decision", "redaction"}
    /\ lookup[l].answer # Default
    /\ ~lookup[l].late
    => lookup[l].answer >= lookup[l].floor

=============================================================================
