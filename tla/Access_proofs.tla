---------------------------- MODULE Access_proofs ----------------------------
(***************************************************************************)
(* Proofs about what stands between a client and the data: the caches of   *)
(* decisions and keys (LookupCaches), logins and their tokens (OAuth), and *)
(* a chat request through the proxy (Proxy); for any number of lookups,    *)
(* tokens, names, servers and requests, and every TTL and bound.           *)
(***************************************************************************)
EXTENDS LookupCaches, OAuth, Proxy, TLAPS

-----------------------------------------------------------------------------
(* LookupCaches: how old an answer may be, and what an update leaves       *)

Entries == [answer : Answers, read : Nat, dated : Nat, late : BOOLEAN, held : BOOLEAN]

Places == {"idle", "asked", "answered", "done"}
Attempts == [at : Places, since : Nat, answer : Answers, read : Nat, late : BOOLEAN,
             attempt : 1..2, floor : Nat]

\* A lookup is over one timeout after it began, and its answer was read in between.
InTime(l) ==
  /\ lookup[l].at \in {"asked", "answered"} =>
       lookup[l].since <= now /\ now <= lookup[l].since + MaxLookup
  /\ lookup[l].at = "answered" => lookup[l].since <= lookup[l].read /\ lookup[l].read <= now

\* An entry lives from a date at most one lookup after its answer was read.
DatedInTime == entry.held => entry.dated <= entry.read + MaxLookup

FreshEnough(l) ==
  lookup[l].at = "done" /\ kind # "graph keys" => now - lookup[l].read <= TTL + MaxLookup

RecentInv == CachesTypeOK /\ DatedInTime /\ \A l \in Lookups : InTime(l) /\ FreshEnough(l)

\* What is in the cache, and what is about to be put there, is of the last announced
\* update, or was a failure, or came late.
OfLastUpdate(given, late, from) == given # Default /\ ~late => given >= from

FollowsUpdates(l) ==
  /\ lookup[l].at \in {"idle", "asked"} => ~lookup[l].late
  /\ lookup[l].at = "answered" => OfLastUpdate(lookup[l].answer, lookup[l].late, announced)
  /\ lookup[l].at = "done" =>
       OfLastUpdate(lookup[l].answer, lookup[l].late, lookup[l].floor)

UpdatesInv ==
  /\ announced <= version
  /\ kind \in {"decision", "redaction"} =>
       /\ entry.held => OfLastUpdate(entry.answer, entry.late, announced)
       /\ \A l \in Lookups : FollowsUpdates(l)

-----------------------------------------------------------------------------
LEMMA Ages ==
  ASSUME NEW n \in Nat, NEW dated \in Nat, NEW read \in Nat, NEW t \in Nat, NEW k \in Nat,
         n - dated <= t, dated <= read + k
  PROVE  n - read <= t + k
OBVIOUS

LEMMA Younger ==
  ASSUME NEW n \in Nat, NEW dated \in Nat, NEW t \in Nat, NEW short \in Nat, short <= t,
         NEW negative, n - dated < IF negative THEN short ELSE t
  PROVE  n - dated <= t
<1>1. CASE negative
  BY <1>1
<1>2. CASE ~negative
  BY <1>2
<1>. QED
  BY <1>1, <1>2

LEMMA NoLookupIsOne == NoLookup \in Attempts /\ NoEntry \in Entries
BY DEF NoLookup, Attempts, Places, NoEntry, Entries, Answers, Default

\* The cache, the lookups and the clock keep their types: a lookup ends with a version of
\* what was looked up or with the default.
THEOREM CachesTypes == CachesSpec => []CachesTypeOK
<1>. USE CachesAssumption DEF CachesTypeOK
<1>1. CachesInit => CachesTypeOK
  BY NoLookupIsOne DEF CachesInit, Attempts, Places, Entries
<1>2. CachesTypeOK /\ [CachesNext]_cacheVars => CachesTypeOK'
  <2>. SUFFICES ASSUME CachesTypeOK, [CachesNext]_cacheVars PROVE CachesTypeOK'
    OBVIOUS
  <2>0. lookup \in [Lookups -> Attempts] /\ entry \in Entries
    BY DEF Attempts, Places, Entries
  <2>1. CASE Tick
    <3>1. lookup' \in [Lookups -> Attempts]
      BY <2>0, <2>1, NoLookupIsOne DEF Tick
    <3>. QED
      BY <2>1, <3>1 DEF Tick, Attempts, Places
  <2>2. ASSUME NEW l \in Lookups, ServeCached(l) PROVE CachesTypeOK'
    <3>1. [lookup[l] EXCEPT !.at = "done", !.answer = entry.answer, !.read = entry.read,
                            !.late = entry.late, !.floor = announced] \in Attempts
      BY <2>0 DEF Attempts, Entries, Places
    <3>2. lookup' = [lookup EXCEPT ![l] =
             [lookup[l] EXCEPT !.at = "done", !.answer = entry.answer, !.read = entry.read,
                               !.late = entry.late, !.floor = announced]]
      BY <2>2, Zenon DEF ServeCached
    <3>3. lookup' \in [Lookups -> Attempts]
      BY <2>0, <3>1, <3>2
    <3>. QED
      BY <2>2, <3>3 DEF ServeCached, Attempts, Places
  <2>3. ASSUME NEW l \in Lookups, Ask(l) PROVE CachesTypeOK'
    <3>1. [lookup[l] EXCEPT !.at = "asked", !.since = now] \in Attempts
      BY <2>0 DEF Attempts, Places
    <3>2. lookup' = [lookup EXCEPT ![l] = [lookup[l] EXCEPT !.at = "asked", !.since = now]]
      BY <2>3, Zenon DEF Ask
    <3>3. lookup' \in [Lookups -> Attempts]
      BY <2>0, <3>1, <3>2
    <3>. QED
      BY <2>3, <3>3 DEF Ask, Attempts, Places
  <2>4. ASSUME NEW l \in Lookups, ReceiveAnswer(l) \/ AssumeDefault(l) PROVE CachesTypeOK'
    <3>0. PICK given \in Answers :
            lookup' = [lookup EXCEPT ![l] = [lookup[l] EXCEPT !.at = "answered",
                                             !.answer = given, !.read = now]]
      <4>1. version \in Answers /\ Default \in Answers
        BY DEF Answers
      <4>. QED
        BY <2>4, <4>1, Zenon DEF ReceiveAnswer, AssumeDefault
    <3>1. [lookup[l] EXCEPT !.at = "answered", !.answer = given, !.read = now] \in Attempts
      BY <2>0 DEF Attempts, Places
    <3>2. lookup' \in [Lookups -> Attempts]
      BY <2>0, <3>0, <3>1
    <3>3. /\ UNCHANGED <<kind, version, entry, update, announced, now>>
          /\ misses' \in Nat
      <4>1. CASE ReceiveAnswer(l)
        BY <4>1 DEF ReceiveAnswer
      <4>2. CASE AssumeDefault(l)
        <5>1. misses' = misses + 1
          BY <4>2, Zenon DEF AssumeDefault, Miss
        <5>2. UNCHANGED <<kind, version, entry, update, announced, now>>
          BY <4>2, Zenon DEF AssumeDefault
        <5>. QED
          BY <5>1, <5>2
      <4>. QED
        BY <2>4, <4>1, <4>2
    <3>. QED
      BY <3>2, <3>3 DEF Attempts, Places
  <2>5. ASSUME NEW l \in Lookups, ConnectionFails(l) PROVE CachesTypeOK'
    <3>1. [lookup[l] EXCEPT !.attempt = 2] \in Attempts
      BY <2>0 DEF Attempts, Places
    <3>2. lookup' \in [Lookups -> Attempts]
      BY <2>0, <2>5, <3>1, NoLookupIsOne DEF ConnectionFails
    <3>3. UNCHANGED <<kind, version, entry, update, announced, now>>
      BY <2>5, Zenon DEF ConnectionFails
    <3>4. misses' = misses + 1
      BY <2>5, Zenon DEF ConnectionFails, Miss
    <3>. QED
      BY <3>2, <3>3, <3>4 DEF Attempts, Places
  <2>6. ASSUME NEW l \in Lookups, StoreAnswer(l) PROVE CachesTypeOK'
    <3>1. [lookup[l] EXCEPT !.at = "done", !.floor = announced] \in Attempts
      BY <2>0 DEF Attempts, Places
    <3>2. lookup' = [lookup EXCEPT ![l] = [lookup[l] EXCEPT !.at = "done",
                                                            !.floor = announced]]
      BY <2>6, Zenon DEF StoreAnswer
    <3>3. lookup' \in [Lookups -> Attempts]
      BY <2>0, <3>1, <3>2
    <3>4. lookup[l] \in Attempts /\ DatedFrom(l) \in Nat
      BY <2>0 DEF DatedFrom, Attempts
    <3>5. entry' \in Entries
      BY <2>6, <3>4 DEF StoreAnswer, Entries, Attempts
    <3>. QED
      BY <2>6, <3>3, <3>5 DEF StoreAnswer, Attempts, Places, Entries
  <2>7. ASSUME NEW l \in Lookups, EndLookup(l) PROVE CachesTypeOK'
    <3>1. lookup' \in [Lookups -> Attempts]
      BY <2>0, <2>7, NoLookupIsOne DEF EndLookup
    <3>. QED
      BY <2>7, <3>1 DEF EndLookup, Attempts, Places
  <2>8. CASE Evict
    BY <2>8, NoLookupIsOne DEF Evict, Entries
  <2>9. CASE ChangeSource \/ PutPolicy \/ PutUnanswered
    BY <2>9 DEF ChangeSource, PutPolicy, PutUnanswered, Miss
  <2>10. CASE ClearAndAnswer
    <3>1. \A l \in Lookups : [lookup[l] EXCEPT !.late = TRUE] \in Attempts
      BY <2>0 DEF Attempts, Places
    <3>2. lookup' \in [Lookups -> Attempts]
      BY <2>0, <2>10, <3>1 DEF ClearAndAnswer
    <3>3. entry' \in Entries
      BY <2>0, <2>10, NoLookupIsOne DEF ClearAndAnswer
    <3>. QED
      BY <2>10, <3>2, <3>3 DEF ClearAndAnswer, Attempts, Places, Entries
  <2>11. CASE UNCHANGED cacheVars
    BY <2>11 DEF cacheVars
  <2>. QED
    BY <2>1, <2>2, <2>3, <2>4, <2>5, <2>6, <2>7, <2>8, <2>9, <2>10, <2>11 DEF CachesNext
<1>. QED
  BY <1>1, <1>2, PTL DEF CachesSpec

-----------------------------------------------------------------------------
(* What each action does to a lookup, field by field                       *)

\* Every field but those of a served, asked, answered, stored or ended lookup stays.
Kept(m) == lookup'[m] = lookup[m]

Reset(m) == lookup'[m].at = "idle" /\ ~lookup'[m].late

LEMMA LookupSteps ==
  ASSUME CachesTypeOK, NEW l \in Lookups, NEW m \in Lookups
  PROVE  /\ ServeCached(l) \/ Ask(l) \/ ReceiveAnswer(l) \/ AssumeDefault(l)
              \/ ConnectionFails(l) \/ StoreAnswer(l) \/ EndLookup(l)
              => (m # l => Kept(m))
         /\ ServeCached(l) =>
              /\ lookup'[l].at = "done" /\ lookup'[l].answer = entry.answer
              /\ lookup'[l].read = entry.read /\ lookup'[l].late = entry.late
              /\ lookup'[l].floor = announced
         /\ Ask(l) => lookup'[l] = [lookup[l] EXCEPT !.at = "asked", !.since = now]
         /\ ReceiveAnswer(l) \/ AssumeDefault(l) =>
              /\ lookup'[l].at = "answered" /\ lookup'[l].read = now
              /\ lookup'[l].since = lookup[l].since /\ lookup'[l].late = lookup[l].late
              /\ lookup'[l].answer \in {version, Default}
         /\ ConnectionFails(l) => Reset(l) \/ lookup'[l] = [lookup[l] EXCEPT !.attempt = 2]
         /\ StoreAnswer(l) =>
              lookup'[l] = [lookup[l] EXCEPT !.at = "done", !.floor = announced]
         /\ EndLookup(l) => Reset(l)
<1>. lookup \in [Lookups -> Attempts]
  BY DEF CachesTypeOK, Attempts, Places
<1>1. ServeCached(l) \/ Ask(l) \/ ReceiveAnswer(l) \/ AssumeDefault(l)
        \/ ConnectionFails(l) \/ StoreAnswer(l) \/ EndLookup(l)
        => (m # l => Kept(m))
  BY DEF ServeCached, Ask, ReceiveAnswer, AssumeDefault, ConnectionFails, StoreAnswer,
         EndLookup, Kept
<1>2. ServeCached(l) =>
        /\ lookup'[l].at = "done" /\ lookup'[l].answer = entry.answer
        /\ lookup'[l].read = entry.read /\ lookup'[l].late = entry.late
        /\ lookup'[l].floor = announced
  BY DEF ServeCached, Attempts
<1>3. Ask(l) => lookup'[l] = [lookup[l] EXCEPT !.at = "asked", !.since = now]
  BY DEF Ask
<1>4. ReceiveAnswer(l) \/ AssumeDefault(l) =>
        /\ lookup'[l].at = "answered" /\ lookup'[l].read = now
        /\ lookup'[l].since = lookup[l].since /\ lookup'[l].late = lookup[l].late
        /\ lookup'[l].answer \in {version, Default}
  <2>1. ReceiveAnswer(l) =>
          lookup' = [lookup EXCEPT ![l] = [lookup[l] EXCEPT !.at = "answered",
                                           !.answer = version, !.read = now]]
    BY Zenon DEF ReceiveAnswer
  <2>2. AssumeDefault(l) =>
          lookup' = [lookup EXCEPT ![l] = [lookup[l] EXCEPT !.at = "answered",
                                           !.answer = Default, !.read = now]]
    BY Zenon DEF AssumeDefault
  <2>. QED
    BY <2>1, <2>2 DEF Attempts
<1>5. ConnectionFails(l) => Reset(l) \/ lookup'[l] = [lookup[l] EXCEPT !.attempt = 2]
  <2>1. ConnectionFails(l) =>
          lookup' = [lookup EXCEPT ![l] = IF kind = "decision" /\ lookup[l].attempt = 1
                                          THEN [lookup[l] EXCEPT !.attempt = 2]
                                          ELSE NoLookup]
    BY Zenon DEF ConnectionFails
  <2>. QED
    BY <2>1 DEF Reset, NoLookup
<1>6. StoreAnswer(l) =>
        lookup'[l] = [lookup[l] EXCEPT !.at = "done", !.floor = announced]
  BY DEF StoreAnswer
<1>7. EndLookup(l) => Reset(l)
  BY DEF EndLookup, Reset, NoLookup
<1>. QED
  BY <1>1, <1>2, <1>3, <1>4, <1>5, <1>6, <1>7

-----------------------------------------------------------------------------
(* How old an answer may be                                                *)

\* However lookups overlap and whatever requests fail, a refill never extends the life of
\* an old answer: what a lookup ends with was true at most one TTL and one lookup ago.
THEOREM AnswersStayRecent == CachesSpec => []AnswersAreRecent
<1>. USE CachesAssumption
<1>1. CachesInit => RecentInv
  <2>. SUFFICES ASSUME CachesInit PROVE RecentInv
    OBVIOUS
  <2>1. CachesTypeOK
    BY NoLookupIsOne DEF CachesInit, CachesTypeOK, Attempts, Places, Entries
  <2>. QED
    BY <2>1 DEF CachesInit, RecentInv, DatedInTime, NoEntry, InTime, FreshEnough, NoLookup
<1>2. ASSUME RecentInv, [CachesNext]_cacheVars
      PROVE  DatedInTime'
  <2>1. ASSUME NEW l \in Lookups, StoreAnswer(l) PROVE DatedInTime'
    <3>1. /\ lookup[l] \in Attempts /\ lookup[l].at = "answered" /\ InTime(l)
          /\ now \in Nat /\ MaxLookup \in Nat
      BY <1>2, <2>1 DEF StoreAnswer, RecentInv, CachesTypeOK, Attempts, Places
    <3>2. lookup[l].since <= lookup[l].read /\ now <= lookup[l].read + MaxLookup
      BY <3>1 DEF InTime, Attempts
    <3>3. entry'.read = lookup[l].read /\ entry'.dated = DatedFrom(l)
      BY <2>1 DEF StoreAnswer
    <3>. QED
      BY <3>1, <3>2, <3>3 DEF DatedInTime, DatedFrom, Attempts
  <2>2. CASE Evict \/ ClearAndAnswer
    <3>1. entry' \in {entry, NoEntry}
      BY <2>2 DEF Evict, ClearAndAnswer
    <3>. QED
      BY <1>2, <3>1 DEF RecentInv, DatedInTime, NoEntry
  <2>3. ASSUME UNCHANGED entry PROVE DatedInTime'
    BY <1>2, <2>3 DEF RecentInv, DatedInTime
  <2>. QED
    BY <1>2, <2>1, <2>2, <2>3 DEF CachesNext, cacheVars, Tick, ServeCached, Ask,
       ReceiveAnswer, AssumeDefault, ConnectionFails, EndLookup, ChangeSource, PutPolicy,
       PutUnanswered
<1>3. ASSUME RecentInv, CachesTypeOK', [CachesNext]_cacheVars, NEW m \in Lookups
      PROVE  InTime(m)' /\ FreshEnough(m)'
  <2>0. /\ CachesTypeOK /\ DatedInTime /\ InTime(m) /\ FreshEnough(m)
        /\ lookup[m] \in Attempts /\ entry \in Entries
        /\ lookup'[m] \in Attempts /\ now \in Nat /\ TTL \in Nat /\ MaxLookup \in Nat
    BY <1>3 DEF RecentInv, CachesTypeOK, Attempts, Places, Entries
  <2>1. CASE Tick
    <3>1. /\ now' = now + 1 /\ UNCHANGED <<kind, entry>>
          /\ IF lookup[m].at = "done" THEN lookup'[m].at = "idle"
                                      ELSE lookup'[m] = lookup[m]
          /\ InFlight(m) => now < lookup[m].since + MaxLookup
      BY <2>1 DEF Tick, NoLookup
    <3>2. CASE lookup[m].at = "done"
      BY <3>1, <3>2 DEF InTime, FreshEnough
    <3>3. CASE lookup[m].at # "done"
      <4>1. lookup[m].since \in Nat /\ lookup[m].read \in Nat
        BY <2>0 DEF Attempts
      <4>2. lookup'[m] = lookup[m]
        BY <3>1, <3>3
      <4>3. InTime(m)'
        BY <2>0, <3>1, <4>1, <4>2 DEF InTime, InFlight
      <4>4. FreshEnough(m)'
        BY <3>3, <4>2 DEF FreshEnough
      <4>. QED
        BY <4>3, <4>4
    <3>. QED
      BY <3>2, <3>3
  <2>2. ASSUME NEW l \in Lookups, ServeCached(l)
        PROVE  InTime(m)' /\ FreshEnough(m)'
    <3>1. UNCHANGED <<kind, entry, now>>
      BY <2>2 DEF ServeCached
    <3>2. CASE m # l
      <4>1. Kept(m)
        BY <2>0, <2>2, <3>2, LookupSteps
      <4>. QED
        BY <2>0, <3>1, <4>1 DEF InTime, FreshEnough, Kept
    <3>3. CASE m = l
      <4>1. lookup'[l].at = "done" /\ lookup'[l].read = entry.read
        BY <2>0, <2>2, LookupSteps
      <4>2. entry.dated \in Nat /\ entry.read \in Nat
        BY <2>0 DEF Entries
      <4>3. ASSUME kind # "graph keys" PROVE now - entry.dated <= TTL
        <5>1. now - entry.dated < IF Negative(entry.answer) THEN NegativeTTL ELSE TTL
          BY <2>2, <4>3 DEF ServeCached, Live
        <5>2. NegativeTTL <= TTL /\ NegativeTTL \in Nat
          BY <2>0
        <5>. QED
          BY <2>0, <4>2, <5>1, <5>2, Younger
      <4>4. entry.dated <= entry.read + MaxLookup
        BY <2>0, <2>2 DEF ServeCached, Live, DatedInTime
      <4>5. kind # "graph keys" => now - entry.read <= TTL + MaxLookup
        BY <2>0, <4>2, <4>3, <4>4, Ages
      <4>. QED
        BY <3>1, <3>3, <4>1, <4>5 DEF InTime, FreshEnough
    <3>. QED
      BY <3>2, <3>3
  <2>3. ASSUME NEW l \in Lookups, Ask(l) \/ ReceiveAnswer(l) \/ AssumeDefault(l)
                                    \/ ConnectionFails(l) \/ EndLookup(l)
        PROVE  InTime(m)' /\ FreshEnough(m)'
    <3>1. UNCHANGED <<kind, entry, now>>
      BY <2>3 DEF Ask, ReceiveAnswer, AssumeDefault, ConnectionFails, EndLookup
    <3>2. CASE m # l
      <4>1. Kept(m)
        BY <2>0, <2>3, <3>2, LookupSteps
      <4>. QED
        BY <2>0, <3>1, <4>1 DEF InTime, FreshEnough, Kept
    <3>3. CASE m = l /\ Ask(l)
      <4>1. lookup'[l].at = "asked" /\ lookup'[l].since = now
        BY <2>0, <3>3, LookupSteps DEF Attempts
      <4>2. now <= now + MaxLookup /\ now <= now
        BY <2>0
      <4>3. lookup'[m].at = "asked" /\ lookup'[m].since = now /\ now' = now
        BY <3>1, <3>3, <4>1
      <4>. QED
        BY <4>2, <4>3 DEF InTime, FreshEnough
    <3>4. CASE m = l /\ (ReceiveAnswer(l) \/ AssumeDefault(l))
      <4>1. /\ lookup[l].at = "asked" /\ lookup'[l].at = "answered"
            /\ lookup'[l].read = now /\ lookup'[l].since = lookup[l].since
        BY <2>0, <3>4, LookupSteps DEF ReceiveAnswer, AssumeDefault
      <4>2. lookup[l].since <= now /\ now <= lookup[l].since + MaxLookup /\ now <= now
        BY <2>0, <3>4, <4>1 DEF InTime
      <4>. QED
        BY <3>1, <3>4, <4>1, <4>2 DEF InTime, FreshEnough
    <3>5. CASE m = l /\ ConnectionFails(l)
      <4>1. Reset(l) \/ lookup'[l] = [lookup[l] EXCEPT !.attempt = 2]
        BY <2>0, <3>5, LookupSteps
      <4>2. CASE Reset(l)
        BY <2>0, <3>1, <3>5, <4>2 DEF InTime, FreshEnough, Reset
      <4>3. CASE lookup'[l] = [lookup[l] EXCEPT !.attempt = 2]
        BY <2>0, <3>1, <3>5, <4>3 DEF InTime, FreshEnough, Attempts
      <4>. QED
        BY <4>1, <4>2, <4>3
    <3>6. CASE m = l /\ EndLookup(l)
      <4>1. Reset(l)
        BY <2>0, <3>6, LookupSteps
      <4>. QED
        BY <2>0, <3>1, <3>6, <4>1 DEF InTime, FreshEnough, Reset
    <3>. QED
      BY <2>3, <3>2, <3>3, <3>4, <3>5, <3>6
  <2>4. ASSUME NEW l \in Lookups, StoreAnswer(l)
        PROVE  InTime(m)' /\ FreshEnough(m)'
    <3>0. /\ lookup[l].at = "answered" /\ InTime(l)
          /\ UNCHANGED <<kind, now>>
      BY <1>3, <2>4 DEF StoreAnswer, RecentInv
    <3>1. lookup[l].read \in Nat /\ now <= lookup[l].read + MaxLookup
      <4>1. lookup[l].since \in Nat /\ lookup[l].read \in Nat
        BY <2>0 DEF CachesTypeOK
      <4>. QED
        BY <2>0, <3>0, <4>1 DEF InTime
    <3>3. CASE m # l
      <4>1. Kept(m)
        BY <2>0, <2>4, <3>3, LookupSteps
      <4>. QED
        BY <2>0, <3>0, <4>1 DEF InTime, FreshEnough, Kept
    <3>4. CASE m = l
      <4>1. lookup'[l].at = "done" /\ lookup'[l].read = lookup[l].read
        <5>1. lookup'[l] = [lookup[l] EXCEPT !.at = "done", !.floor = announced]
          BY <2>0, <2>4, LookupSteps
        <5>. QED
          BY <2>0, <3>4, <5>1 DEF Attempts
      <4>2. now - lookup[l].read <= TTL + MaxLookup
        <5>1. now - now <= TTL
          BY <2>0
        <5>. QED
          BY <2>0, <3>1, <5>1, Ages
      <4>. QED
        BY <3>0, <3>4, <4>1, <4>2 DEF InTime, FreshEnough
    <3>. QED
      BY <3>3, <3>4
  <2>5. CASE Evict
    BY <2>0, <2>5 DEF Evict, InTime, FreshEnough
  <2>6. CASE ChangeSource \/ PutPolicy \/ PutUnanswered
    BY <2>0, <2>6 DEF ChangeSource, PutPolicy, PutUnanswered, InTime,
                      FreshEnough
  <2>7. CASE ClearAndAnswer
    <3>1. /\ UNCHANGED <<kind, now>> /\ entry' \in {entry, NoEntry}
          /\ lookup'[m].at = lookup[m].at /\ lookup'[m].since = lookup[m].since
          /\ lookup'[m].read = lookup[m].read
      BY <2>0, <2>7 DEF ClearAndAnswer, Attempts
    <3>. QED
      BY <2>0, <3>1 DEF InTime, FreshEnough, NoEntry
  <2>8. CASE UNCHANGED cacheVars
    BY <2>0, <2>8 DEF cacheVars, InTime, FreshEnough
  <2>. QED
    BY <1>3, <2>1, <2>2, <2>3, <2>4, <2>5, <2>6, <2>7, <2>8 DEF CachesNext
<1>4. RecentInv /\ CachesTypeOK' /\ [CachesNext]_cacheVars => RecentInv'
  BY <1>2, <1>3 DEF RecentInv
<1>5. RecentInv => AnswersAreRecent
  BY DEF RecentInv, FreshEnough, AnswersAreRecent
<1>. QED
  BY <1>1, <1>4, <1>5, CachesTypes, PTL DEF CachesSpec

-----------------------------------------------------------------------------
(* What an update leaves behind                                            *)

\* Once manage_policies has answered "updated", only an answer that a lookup had received
\* before and stored after the clearing can still be of an earlier version.
THEOREM UpdatesReachLookups == CachesSpec => []UpdatesTakeEffect
<1>1. CachesInit => UpdatesInv
  BY DEF CachesInit, UpdatesInv, NoEntry, NoLookup, FollowsUpdates
<1>2. ASSUME CachesTypeOK, CachesTypeOK', UpdatesInv, [CachesNext]_cacheVars
      PROVE  UpdatesInv'
  <2>0. /\ announced \in Nat /\ version \in Nat /\ announced <= version
        /\ \A m \in Lookups : lookup[m] \in Attempts
    BY <1>2 DEF CachesTypeOK, UpdatesInv, Attempts, Places
  <2>. SUFFICES ASSUME kind \in {"decision", "redaction"}
                PROVE  UpdatesInv'
    <3>1. kind' = kind
      BY <1>2 DEF CachesNext, cacheVars, Tick, ServeCached, Ask, ReceiveAnswer,
         AssumeDefault, ConnectionFails, StoreAnswer, EndLookup, Evict, ChangeSource,
         PutPolicy, PutUnanswered, ClearAndAnswer
    <3>2. announced' <= version'
      <4>1. CASE ChangeSource \/ PutPolicy
        BY <2>0, <4>1 DEF ChangeSource, PutPolicy
      <4>2. CASE ClearAndAnswer
        BY <2>0, <4>2 DEF ClearAndAnswer
      <4>3. ASSUME UNCHANGED <<version, announced>> PROVE announced' <= version'
        BY <2>0, <4>3
      <4>. QED
        BY <1>2, <4>1, <4>2, <4>3 DEF CachesNext, cacheVars, Tick, ServeCached, Ask,
           ReceiveAnswer, AssumeDefault, ConnectionFails, StoreAnswer, EndLookup, Evict,
           PutUnanswered
    <3>. QED
      BY <3>1, <3>2 DEF UpdatesInv
  <2>1. /\ entry.held => OfLastUpdate(entry.answer, entry.late, announced)
        /\ \A m \in Lookups : FollowsUpdates(m)
    BY <1>2 DEF UpdatesInv
  <2>2. CASE Tick
    <3>1. UNCHANGED <<kind, version, entry, announced>>
      BY <2>2 DEF Tick
    <3>2. ASSUME NEW m \in Lookups PROVE FollowsUpdates(m)'
      <4>1. lookup'[m] = lookup[m] \/ Reset(m)
        BY <2>2, <3>2 DEF Tick, NoLookup, Reset
      <4>. QED
        BY <2>1, <3>1, <3>2, <4>1 DEF FollowsUpdates, Reset
    <3>. QED
      BY <2>0, <2>1, <3>1, <3>2 DEF UpdatesInv
  <2>3. ASSUME NEW l \in Lookups,
               ServeCached(l) \/ Ask(l) \/ ReceiveAnswer(l) \/ AssumeDefault(l)
                 \/ ConnectionFails(l) \/ StoreAnswer(l) \/ EndLookup(l)
        PROVE  UpdatesInv'
    <3>1. UNCHANGED <<kind, version, announced>>
      BY <2>3 DEF ServeCached, Ask, ReceiveAnswer, AssumeDefault, ConnectionFails,
                  StoreAnswer, EndLookup
    <3>2. entry'.held => OfLastUpdate(entry'.answer, entry'.late, announced)
      <4>1. CASE StoreAnswer(l)
        <5>1. /\ lookup[l].at = "answered" /\ entry'.answer = lookup[l].answer
              /\ entry'.late = lookup[l].late
          BY <4>1 DEF StoreAnswer
        <5>. QED
          BY <2>1, <5>1 DEF FollowsUpdates
      <4>2. CASE ~StoreAnswer(l)
        <5>1. entry' = entry
          BY <2>3, <4>2 DEF ServeCached, Ask, ReceiveAnswer, AssumeDefault,
                            ConnectionFails, EndLookup
        <5>. QED
          BY <2>1, <5>1
      <4>. QED
        BY <4>1, <4>2
    <3>3. FollowsUpdates(l)'
      <4>1. CASE ServeCached(l)
        <5>1. /\ lookup'[l].at = "done" /\ lookup'[l].answer = entry.answer
              /\ lookup'[l].late = entry.late /\ lookup'[l].floor = announced
          BY <1>2, <4>1, LookupSteps
        <5>2. entry.held
          BY <4>1 DEF ServeCached, Live
        <5>. QED
          BY <2>1, <3>1, <5>1, <5>2 DEF FollowsUpdates
      <4>2. CASE Ask(l)
        <5>1. lookup'[l] = [lookup[l] EXCEPT !.at = "asked", !.since = now]
          BY <1>2, <4>2, LookupSteps
        <5>2. lookup'[l].at = "asked" /\ lookup'[l].late = lookup[l].late
          BY <2>0, <5>1 DEF Attempts
        <5>3. ~lookup[l].late
          BY <2>1, <4>2 DEF Ask, FollowsUpdates
        <5>. QED
          BY <5>2, <5>3 DEF FollowsUpdates
      <4>3. CASE ReceiveAnswer(l) \/ AssumeDefault(l)
        <5>1. /\ lookup'[l].at = "answered" /\ lookup'[l].late = lookup[l].late
              /\ lookup'[l].answer \in {version, Default}
          BY <1>2, <4>3, LookupSteps
        <5>. QED
          BY <2>0, <3>1, <5>1 DEF FollowsUpdates, OfLastUpdate
      <4>4. CASE ConnectionFails(l)
        <5>1. Reset(l) \/ lookup'[l] = [lookup[l] EXCEPT !.attempt = 2]
          BY <1>2, <4>4, LookupSteps
        <5>2. CASE Reset(l)
          BY <5>2 DEF Reset, FollowsUpdates
        <5>3. CASE lookup'[l] = [lookup[l] EXCEPT !.attempt = 2]
          <6>1. lookup'[l].at = lookup[l].at /\ lookup'[l].late = lookup[l].late
            BY <2>0, <5>3 DEF Attempts
          <6>2. lookup[l].at = "asked"
            BY <4>4 DEF ConnectionFails
          <6>. QED
            BY <2>1, <6>1, <6>2 DEF FollowsUpdates
        <5>. QED
          BY <5>1, <5>2, <5>3
      <4>5. CASE StoreAnswer(l)
        <5>1. lookup'[l] = [lookup[l] EXCEPT !.at = "done", !.floor = announced]
          BY <1>2, <4>5, LookupSteps
        <5>2. /\ lookup'[l].at = "done" /\ lookup'[l].floor = announced
              /\ lookup'[l].answer = lookup[l].answer /\ lookup'[l].late = lookup[l].late
          BY <2>0, <5>1 DEF Attempts
        <5>3. lookup[l].at = "answered"
          BY <4>5 DEF StoreAnswer
        <5>. QED
          BY <2>1, <5>2, <5>3 DEF FollowsUpdates
      <4>6. CASE EndLookup(l)
        <5>1. Reset(l)
          BY <1>2, <4>6, LookupSteps
        <5>. QED
          BY <5>1 DEF Reset, FollowsUpdates
      <4>. QED
        BY <2>3, <4>1, <4>2, <4>3, <4>4, <4>5, <4>6
    <3>4. ASSUME NEW m \in Lookups, m # l PROVE FollowsUpdates(m)'
      <4>1. Kept(m)
        BY <1>2, <2>3, <3>4, LookupSteps
      <4>. QED
        BY <2>1, <3>1, <3>4, <4>1 DEF FollowsUpdates, Kept
    <3>. QED
      BY <2>0, <3>1, <3>2, <3>3, <3>4 DEF UpdatesInv
  <2>4. CASE Evict
    BY <2>0, <2>1, <2>4 DEF Evict, NoEntry, UpdatesInv, FollowsUpdates
  <2>5. CASE ChangeSource \/ PutPolicy \/ PutUnanswered
    BY <2>0, <2>1, <2>5 DEF ChangeSource, PutPolicy, PutUnanswered, UpdatesInv,
                            FollowsUpdates
  <2>6. CASE ClearAndAnswer
    <3>1. announced' = version /\ version' = version /\ kind' = kind
      BY <2>6 DEF ClearAndAnswer
    <3>2. ~entry'.held
      BY <2>6 DEF ClearAndAnswer, ClearedByUpdate, NoEntry
    <3>3. ASSUME NEW m \in Lookups PROVE FollowsUpdates(m)'
      <4>1. lookup'[m] = IF lookup[m].at = "answered"
                         THEN [lookup[m] EXCEPT !.late = TRUE] ELSE lookup[m]
        BY <2>6, <3>3 DEF ClearAndAnswer
      <4>2. CASE lookup[m].at = "answered"
        <5>1. lookup'[m].at = "answered" /\ lookup'[m].late
          BY <2>0, <3>3, <4>1, <4>2 DEF Attempts
        <5>. QED
          BY <5>1 DEF FollowsUpdates, OfLastUpdate
      <4>3. CASE lookup[m].at # "answered"
        BY <2>1, <3>3, <4>1, <4>3 DEF FollowsUpdates
      <4>. QED
        BY <4>2, <4>3
    <3>. QED
      BY <2>0, <3>1, <3>2, <3>3 DEF UpdatesInv
  <2>7. CASE UNCHANGED cacheVars
    BY <2>0, <2>1, <2>7 DEF cacheVars, UpdatesInv, FollowsUpdates
  <2>. QED
    BY <1>2, <2>2, <2>3, <2>4, <2>5, <2>6, <2>7 DEF CachesNext
<1>3. UpdatesInv => UpdatesTakeEffect
  BY DEF UpdatesInv, FollowsUpdates, OfLastUpdate, UpdatesTakeEffect
<1>4. CachesTypeOK /\ CachesTypeOK' /\ UpdatesInv /\ [CachesNext]_cacheVars => UpdatesInv'
  BY <1>2
<1>. QED
  BY <1>1, <1>3, <1>4, CachesTypes, PTL DEF CachesSpec

-----------------------------------------------------------------------------
(* OAuth: what a login has led to *)

\* A login is a pending session, a code, an exchange that stores its tokens, or a
\* grant, one at a time and in this order.
OneAtATime ==
  /\ session # None => opened /\ codes = 0
  /\ code # None => codes = 1 /\ exchange.at = "idle" /\ grants = 0
  /\ exchange.at = "storing" => codes = 1 /\ grants = 0
  /\ ~opened => codes = 0
  /\ codes = 0 => code = None /\ exchange.at = "idle" /\ grants = 0
  /\ codes <= 1 /\ grants <= 1

\* A token that is being answered for is stored within MaxDelay.
InDelay(awaited) ==
  awaited.at = "storing" => awaited.start <= clock /\ clock <= awaited.start + MaxDelay

\* What the handlers have read of the clock and of the row.
ClockRead ==
  /\ used <= clock
  /\ sweep <= clock
  /\ InDelay(exchange)
  /\ \A r \in Refreshes : InDelay(refresh[r])
  /\ \A r \in Refreshes : refresh[r].at = "deleting" => refresh[r].seen < clock

\* Until the token is revoked its row lasts nearly as long as was answered, or that
\* time is over: a restart forgets a revocation that has not deleted the row.
RowLasts ==
  grants > 0 /\ revoke # "answered" /\ "expiry" \notin spoiled =>
    \/ row >= used + RefreshTTL - MaxDelay
    \/ used + RefreshTTL - MaxDelay < clock

\* A revoked row stays away: nobody that had read it is left to write it back.
NobodyPutsBack ==
  /\ revoke # "none" => grants > 0
  /\ revoke = "answered" /\ "revocation" \notin spoiled =>
       /\ row = None
       /\ \A r \in Refreshes : refresh[r].at \notin {"read", "storing"}

OAuthInv == OAuthTypeOK /\ OneAtATime /\ ClockRead /\ RowLasts /\ NobodyPutsBack

\* The steps of one refresh request, seen from the rest of the state.
LEMMA RefreshType ==
  ASSUME OAuthTypeOK, NEW r \in Refreshes
  PROVE  /\ refresh[r] \in [at : {"idle", "read", "storing", "deleting"},
                            seen : Times, start : Nat]
         /\ refresh[r].at \in {"idle", "read", "storing", "deleting"}
         /\ refresh[r].seen \in Times /\ refresh[r].start \in Nat
         /\ refresh[r].seen \in Int
BY DEF OAuthTypeOK, Times, None

LEMMA OAuthInvInit == OAuthInit => OAuthInv
<1>. SUFFICES ASSUME OAuthInit PROVE OAuthInv
  OBVIOUS
<1>1. OAuthTypeOK
  BY DEF OAuthInit, OAuthTypeOK, Times, None, IdleRefresh, IdleExchange
<1>2. OneAtATime /\ RowLasts /\ NobodyPutsBack
  BY DEF OAuthInit, IdleExchange, OneAtATime, RowLasts, NobodyPutsBack
<1>3. ClockRead
  BY DEF OAuthInit, None, IdleRefresh, IdleExchange, ClockRead, InDelay
<1>. QED
  BY <1>1, <1>2, <1>3 DEF OAuthInv

LEMMA TickKeeps ==
  ASSUME OAuthInv, OAuthTick
  PROVE  OAuthInv'
<1>. USE OAuthAssumption DEF OAuthInv, OAuthTick
<1>1. OAuthTypeOK'
  BY DEF OAuthTypeOK, Times
<1>2. OneAtATime' /\ NobodyPutsBack'
  BY DEF OneAtATime, NobodyPutsBack
<1>3. ClockRead'
  BY RefreshType DEF ClockRead, InDelay, Waits, OAuthTypeOK, Times, None
<1>4. RowLasts'
  BY DEF RowLasts, OAuthTypeOK, Times, None
<1>. QED
  BY <1>1, <1>2, <1>3, <1>4

LEMMA LoginKeeps ==
  ASSUME OAuthInv,
         \/ Authorize
         \/ \E s \in Submits : SubmitKey(s) \/ RefuseKey(s) \/ IssueCode(s)
         \/ ExchangeCode
  PROVE  OAuthInv'
<1>. USE OAuthAssumption DEF OAuthInv
<1>1. /\ UNCHANGED <<clock, grants, row, refresh, revoke, sweep, used, spoiled>>
      /\ exchange'.at = exchange.at \/ exchange'.start = clock
      /\ exchange'.at = exchange.at => exchange' = exchange
  BY DEF Authorize, SubmitKey, RefuseKey, IssueCode, ExchangeCode
<1>2. OAuthTypeOK' /\ OneAtATime'
  <2>1. CASE Authorize
    BY <2>1 DEF Authorize, OAuthTypeOK, Times, None, OneAtATime
  <2>2. ASSUME NEW s \in Submits, SubmitKey(s) \/ RefuseKey(s)
        PROVE  OAuthTypeOK' /\ OneAtATime'
    BY <2>2 DEF SubmitKey, RefuseKey, OAuthTypeOK, OneAtATime
  <2>3. ASSUME NEW s \in Submits, IssueCode(s)
        PROVE  OAuthTypeOK' /\ OneAtATime'
    BY <2>3 DEF IssueCode, OAuthTypeOK, Times, None, OneAtATime
  <2>4. CASE ExchangeCode
    <3>1. OneAtATime'
      BY <2>4 DEF ExchangeCode, OAuthTypeOK, OneAtATime
    <3>2. exchange' \in [at : {"idle", "storing"}, start : Nat] /\ access' \subseteq Nat
      <4>1. CASE code < clock
        BY <2>4, <4>1 DEF ExchangeCode, OAuthTypeOK
      <4>2. CASE ~(code < clock)
        <5>1. clock + AccessTTL \in Nat /\ clock \in Nat
          BY DEF OAuthTypeOK
        <5>2. exchange' = [at |-> "storing", start |-> clock]
          BY <2>4, <4>2 DEF ExchangeCode
        <5>3. access' = access \cup {clock + AccessTTL} /\ access \subseteq Nat
          BY <2>4, <4>2 DEF ExchangeCode, OAuthTypeOK
        <5>. QED
          BY <5>1, <5>2, <5>3
      <4>. QED
        BY <4>1, <4>2
    <3>3. OAuthTypeOK'
      BY <2>4, <3>2 DEF ExchangeCode, OAuthTypeOK, Times
    <3>. QED
      BY <3>1, <3>3
  <2>. QED
    BY <2>1, <2>2, <2>3, <2>4
<1>3. ClockRead'
  BY <1>1 DEF ClockRead, InDelay, OAuthTypeOK
<1>4. RowLasts' /\ NobodyPutsBack'
  BY <1>1 DEF RowLasts, NobodyPutsBack
<1>. QED
  BY <1>2, <1>3, <1>4

LEMMA GrantKeeps ==
  ASSUME OAuthInv, StoreGrant \/ StoreGrantFails
  PROVE  OAuthInv'
<1>. USE OAuthAssumption DEF OAuthInv
<1>1. exchange.at = "storing" /\ exchange.start \in Nat /\ InDelay(exchange)
  BY DEF StoreGrant, StoreGrantFails, OAuthTypeOK, ClockRead
<1>2. CASE StoreGrant
  <2>1. OAuthTypeOK' /\ OneAtATime'
    BY <1>1, <1>2 DEF StoreGrant, OAuthTypeOK, Times, None, IdleExchange, OneAtATime
  <2>2. ClockRead' /\ RowLasts'
    BY <1>1, <1>2 DEF StoreGrant, OAuthTypeOK, ClockRead, RowLasts, InDelay, IdleExchange
  <2>3. NobodyPutsBack'
    BY <1>1, <1>2 DEF StoreGrant, OneAtATime, NobodyPutsBack
  <2>. QED
    BY <2>1, <2>2, <2>3
<1>3. CASE StoreGrantFails
  BY <1>1, <1>3 DEF StoreGrantFails, Fail, OAuthTypeOK, IdleExchange, OneAtATime, ClockRead,
                    InDelay, RowLasts, NobodyPutsBack
<1>. QED
  BY <1>2, <1>3

\* A refresh that reads, grants or gives up leaves the row alone.
LEMMA RefreshKeeps ==
  ASSUME OAuthInv, NEW r \in Refreshes,
         ReadRow(r) \/ GrantAccess(r) \/ FindExpired(r) \/ RefreshFails(r)
  PROVE  OAuthInv'
<1>. USE OAuthAssumption DEF OAuthInv
<1>1. UNCHANGED <<clock, session, opened, submit, code, codes, exchange, grants, row, revoke,
                  sweep, used, spoiled, restarts>>
  BY DEF ReadRow, GrantAccess, FindExpired, RefreshFails
<1>2. /\ refresh' \in [Refreshes -> [at : {"idle", "read", "storing", "deleting"},
                                     seen : Times, start : Nat]]
      /\ access' \subseteq Nat /\ failures' \in Nat
      /\ \A q \in Refreshes \ {r} : refresh'[q] = refresh[q]
  BY DEF ReadRow, GrantAccess, FindExpired, RefreshFails, Fail, OAuthTypeOK, Times,
         IdleRefresh, None
<1>3. /\ InDelay(refresh[r])'
      /\ refresh'[r].at = "deleting" => refresh'[r].seen < clock
  BY RefreshType DEF ReadRow, GrantAccess, FindExpired, RefreshFails, InDelay, OAuthTypeOK,
                     IdleRefresh
<1>4. /\ refresh'[r].at = "read" => row # None
      /\ refresh'[r].at = "storing" => refresh[r].at = "read"
  BY DEF ReadRow, GrantAccess, FindExpired, RefreshFails, OAuthTypeOK, IdleRefresh
<1>5. OAuthTypeOK'
  BY <1>1, <1>2 DEF OAuthTypeOK
<1>6. OneAtATime' /\ RowLasts'
  BY <1>1 DEF OneAtATime, RowLasts
<1>7. ClockRead'
  BY <1>1, <1>2, <1>3 DEF ClockRead, InDelay
<1>8. NobodyPutsBack'
  BY <1>1, <1>2, <1>4 DEF NobodyPutsBack
<1>. QED
  BY <1>5, <1>6, <1>7, <1>8

\* A refresh that moves the row or deletes it is at rest behind it.
LEMMA RowKeeps ==
  ASSUME OAuthInv, NEW r \in Refreshes, SlideExpiry(r) \/ DeleteExpired(r)
  PROVE  OAuthInv'
<1>. USE OAuthAssumption DEF OAuthInv
<1>1. /\ UNCHANGED <<clock, session, opened, submit, code, codes, exchange, grants, access,
                     revoke, sweep, restarts, failures>>
      /\ refresh' = [refresh EXCEPT ![r] = IdleRefresh]
  BY DEF SlideExpiry, DeleteExpired
<1>2. /\ refresh' \in [Refreshes -> [at : {"idle", "read", "storing", "deleting"},
                                     seen : Times, start : Nat]]
      /\ refresh'[r].at = "idle"
      /\ \A q \in Refreshes \ {r} : refresh'[q] = refresh[q]
  BY <1>1 DEF OAuthTypeOK, Times, IdleRefresh, None
<1>3. /\ row' \in Times /\ used' \in Nat /\ used' <= clock
      /\ spoiled' \subseteq {"expiry", "revocation"} /\ spoiled \subseteq spoiled'
      /\ "revocation" \in spoiled' <=> "revocation" \in spoiled
  <2>1. CASE SlideExpiry(r)
    BY <2>1, RefreshType DEF SlideExpiry, OAuthTypeOK, Times, Later, ClockRead, InDelay
  <2>2. CASE DeleteExpired(r)
    BY <2>2 DEF DeleteExpired, OAuthTypeOK, Times, ClockRead
  <2>. QED
    BY <2>1, <2>2
<1>4. RowLasts'
  <2>1. CASE SlideExpiry(r)
    BY <1>1, <2>1, RefreshType
       DEF SlideExpiry, Later, OAuthTypeOK, ClockRead, InDelay, RowLasts
  <2>2. CASE DeleteExpired(r)
    BY <1>1, <2>2, RefreshType
       DEF DeleteExpired, OAuthTypeOK, Times, None, ClockRead, RowLasts
  <2>. QED
    BY <2>1, <2>2
<1>5. OAuthTypeOK'
  BY <1>1, <1>2, <1>3 DEF OAuthTypeOK
<1>6. OneAtATime'
  BY <1>1 DEF OneAtATime
<1>7. ClockRead'
  BY <1>1, <1>2, <1>3 DEF ClockRead, InDelay
<1>8. NobodyPutsBack'
  BY <1>1, <1>2, <1>3 DEF NobodyPutsBack, SlideExpiry, DeleteExpired
<1>. QED
  BY <1>4, <1>5, <1>6, <1>7, <1>8

LEMMA RevocationKeeps ==
  ASSUME OAuthInv, StartRevocation \/ DeleteRevoked \/ RevocationFails
  PROVE  OAuthInv'
<1>. USE OAuthAssumption DEF OAuthInv
<1>0. UNCHANGED <<clock, session, opened, submit, code, codes, exchange, grants, access, refresh,
                  sweep, used, restarts>>
  BY DEF StartRevocation, DeleteRevoked, RevocationFails
<1>1. OneAtATime' /\ ClockRead'
  BY <1>0 DEF OneAtATime, ClockRead, InDelay
<1>4. OAuthTypeOK'
  <2>1. /\ revoke' \in {"none", "deleting", "answered"} /\ row' \in Times
        /\ spoiled' \subseteq {"expiry", "revocation"} /\ failures' \in Nat
    <3>1. CASE StartRevocation
      BY <3>1 DEF StartRevocation, OAuthTypeOK
    <3>2. CASE DeleteRevoked
      BY <3>2 DEF DeleteRevoked, OAuthTypeOK, Times
    <3>3. CASE RevocationFails
      BY <3>3 DEF RevocationFails, Fail, OAuthTypeOK
    <3>. QED
      BY <3>1, <3>2, <3>3
  <2>. QED
    BY <1>0, <2>1 DEF OAuthTypeOK
<1>2. RowLasts'
  BY DEF StartRevocation, DeleteRevoked, RevocationFails, RowLasts
<1>3. NobodyPutsBack'
  BY DEF StartRevocation, DeleteRevoked, RevocationFails, NobodyPutsBack
<1>. QED
  BY <1>1, <1>2, <1>3, <1>4

LEMMA CleaningKeeps ==
  ASSUME OAuthInv, CleanMemory \/ CleanRows \/ DropAccess
  PROVE  OAuthInv'
<1>. USE OAuthAssumption DEF OAuthInv
<1>1. CASE CleanMemory
  <2>1. OAuthTypeOK' /\ OneAtATime'
    BY <1>1 DEF CleanMemory, OAuthTypeOK, Times, None, OneAtATime
  <2>2. ClockRead' /\ RowLasts' /\ NobodyPutsBack'
    BY <1>1 DEF CleanMemory, OAuthTypeOK, ClockRead, InDelay, RowLasts, NobodyPutsBack
  <2>. QED
    BY <2>1, <2>2
<1>2. CASE CleanRows
  <2>1. OAuthTypeOK' /\ OneAtATime' /\ NobodyPutsBack'
    BY <1>2 DEF CleanRows, OAuthTypeOK, Times, OneAtATime, NobodyPutsBack
  <2>2. ClockRead' /\ RowLasts'
    BY <1>2 DEF CleanRows, OAuthTypeOK, Times, None, ClockRead, InDelay, RowLasts
  <2>. QED
    BY <2>1, <2>2
<1>3. CASE DropAccess
  BY <1>3 DEF DropAccess, OAuthTypeOK, OneAtATime, ClockRead, InDelay, RowLasts,
              NobodyPutsBack
<1>. QED
  BY <1>1, <1>2, <1>3

LEMMA RestartKeeps ==
  ASSUME OAuthInv, Restart
  PROVE  OAuthInv'
<1>. USE OAuthAssumption DEF OAuthInv
<1>1. OAuthTypeOK' /\ OneAtATime'
  BY DEF Restart, OAuthTypeOK, Times, None, IdleRefresh, IdleExchange, OneAtATime
<1>2. RowLasts' /\ NobodyPutsBack'
  <2>1. /\ revoke \in {"none", "deleting", "answered"}
        /\ revoke' = IF revoke = "deleting" THEN "none" ELSE revoke
        /\ UNCHANGED <<clock, grants, row, used, spoiled>>
        /\ \A r \in Refreshes : refresh'[r].at = "idle"
    BY DEF Restart, IdleRefresh, OAuthTypeOK
  <2>. QED
    BY <2>1 DEF RowLasts, NobodyPutsBack
<1>3. ClockRead'
  BY DEF Restart, OAuthTypeOK, None, IdleRefresh, IdleExchange, ClockRead, InDelay
<1>. QED
  BY <1>1, <1>2, <1>3

LEMMA OAuthInvStep == OAuthInv /\ [OAuthNext]_oauthVars => OAuthInv'
<1>1. OAuthInv /\ UNCHANGED oauthVars => OAuthInv'
  BY DEF oauthVars, OAuthInv, OAuthTypeOK, OneAtATime, ClockRead, InDelay, RowLasts,
         NobodyPutsBack
<1>. QED
  BY <1>1, TickKeeps, LoginKeeps, GrantKeeps, RefreshKeeps, RowKeeps, RevocationKeeps,
     CleaningKeeps, RestartKeeps DEF OAuthNext

\* However often the form is submitted and whatever fails in between, a login ends
\* in one code and one pair of tokens.
THEOREM LoginGrantsOnce == OAuthSpec => []OneGrantPerLogin
<1>1. OAuthInv => OneGrantPerLogin
  BY DEF OAuthInv, OneAtATime, OneGrantPerLogin
<1>. QED
  BY <1>1, OAuthInvInit, OAuthInvStep, PTL DEF OAuthSpec

\* A client that comes back in time finds its refresh token, for every lifetime and
\* delay and any number of refreshes that overtake one another.
THEOREM RefreshTokensSurvive == OAuthSpec => []RefreshSurvives
<1>1. OAuthInv => RefreshSurvives
  BY OAuthAssumption DEF OAuthInv, OAuthTypeOK, Times, None, RowLasts, RefreshSurvives
<1>. QED
  BY <1>1, OAuthInvInit, OAuthInvStep, PTL DEF OAuthSpec

\* A token whose revocation was answered does not come back, unless its deletion
\* failed or a refresh that had read it before stores it again.
THEOREM RevocationsHold == OAuthSpec => []RevocationHolds
<1>1. OAuthInv => RevocationHolds
  BY DEF OAuthInv, NobodyPutsBack, RevocationHolds
<1>. QED
  BY <1>1, OAuthInvInit, OAuthInvStep, PTL DEF OAuthSpec

-----------------------------------------------------------------------------
(* Proxy: names and pseudonyms *)

\* Before the messages were scanned there is nothing to restore or to hide.
Unscanned ==
  status \in {"received", "denied", "accepted", "extracted", "attachment error", "filtered",
              "scanner unavailable"}
    => /\ chat = {} /\ mapped = {} /\ loopMap = {} /\ answer = {}
       /\ turn = 0

TurnLeft == status = "model" => turn < MaxIterations

AllPlain(tokens) == \A t \in tokens : t.plain

\* What the loop's map can turn into names.
Restorable(tokens) == \A t \in tokens : t.plain \/ t.name \in loopMap

\* The handler's map is the loop's, unless the first scan found nothing.
MapsAgree == mapped # {} => loopMap = mapped

ToolsSeeNames == AllPlain(toolSaw) /\ AllPlain(call.args)

\* A tool may repeat pseudonyms it was given unrestored; they can be restored later.
CallRestorable == Restorable(call.result)

AnswerRestored == status = "answered" /\ mapped # {} => AllPlain(answer)

ProxyInv ==
  /\ ProxyTypeOK
  /\ Unscanned
  /\ TurnLeft
  /\ NamesAreHidden
  /\ MapsAgree
  /\ Restorable(chat) /\ Restorable(answer)
  /\ ToolsSeeNames /\ CallRestorable
  /\ AnswerRestored


\* Restoring names gives tokens, each of the name and at least as plain as before.
LEMMA RestoredToken ==
  ASSUME NEW tokens \in SUBSET Tokens, NEW names, NEW t \in Restored(tokens, names)
  PROVE  /\ t \in Tokens
         /\ \E u \in tokens : t.name = u.name /\ (t.plain <=> u.plain \/ u.name \in names)
<1>1. PICK u \in tokens : t = [u EXCEPT !.plain = u.plain \/ u.name \in names]
  BY DEF Restored
<1>2. u \in Tokens
  OBVIOUS
<1>3. PICK n \in Names, p \in BOOLEAN : u = [name |-> n, plain |-> p]
  BY <1>2 DEF Tokens
<1>4. t = [name |-> n, plain |-> (p \/ n \in names)]
  BY <1>1, <1>3
<1>5. t.name = u.name
  BY <1>3, <1>4
<1>6. t.plain <=> u.plain \/ u.name \in names
  BY <1>3, <1>4
<1>7. t \in Tokens
  <2>1. (p \/ n \in names) \in BOOLEAN
    OBVIOUS
  <2> QED BY <1>4, <2>1 DEF Tokens
<1> QED BY <1>5, <1>6, <1>7

\* What /pseudonymize gives has the names it was given, none of them in plain.
LEMMA HiddenToken ==
  ASSUME NEW tokens \in SUBSET Tokens, NEW t \in Hidden(tokens)
  PROVE  t \in Tokens /\ ~t.plain /\ \E u \in tokens : t.name = u.name
<1>1. PICK u \in tokens : t = [u EXCEPT !.plain = FALSE]
  BY DEF Hidden
<1>2. u \in Tokens
  OBVIOUS
<1>3. PICK n \in Names, p \in BOOLEAN : u = [name |-> n, plain |-> p]
  BY <1>2 DEF Tokens
<1>4. t = [name |-> n, plain |-> FALSE]
  BY <1>1, <1>3
<1> QED BY <1>3, <1>4 DEF Tokens

LEMMA PlainToken ==
  ASSUME NEW names \in SUBSET Names, NEW t \in Plain(names)
  PROVE  t \in Tokens /\ t.plain /\ t.name \in names
BY DEF Plain, Tokens

\* Tokens that are restored with every name they may need are all names.
LEMMA RestoringEnds ==
  ASSUME NEW tokens \in SUBSET Tokens, NEW names,
         \A u \in tokens : u.plain \/ u.name \in names
  PROVE  AllPlain(Restored(tokens, names))
BY RestoredToken DEF AllPlain

\* Restoring never takes from a token what can be restored.
LEMMA RestoringKeeps ==
  ASSUME NEW tokens \in SUBSET Tokens, NEW names, Restorable(tokens)
  PROVE  Restorable(Restored(tokens, names))
BY RestoredToken DEF Restorable

LEMMA RestoredTokens ==
  ASSUME NEW tokens \in SUBSET Tokens, NEW names
  PROVE  Restored(tokens, names) \subseteq Tokens
BY RestoredToken

LEMMA HiddenTokens ==
  ASSUME NEW tokens \in SUBSET Tokens
  PROVE  Hidden(tokens) \subseteq Tokens /\ NamesIn(Hidden(tokens)) = {}
BY HiddenToken DEF NamesIn

LEMMA PlainTokens ==
  ASSUME NEW names \in SUBSET Names
  PROVE  Plain(names) \subseteq Tokens /\ AllPlain(Plain(names)) /\ NamesIn(Plain(names)) \subseteq names
BY PlainToken DEF NamesIn, AllPlain

LEMMA NamesInNames ==
  ASSUME NEW tokens \in SUBSET Tokens
  PROVE  NamesIn(tokens) \subseteq Names
BY DEF NamesIn, Tokens

LEMMA NamesInUnion ==
  ASSUME NEW S, NEW T
  PROVE  NamesIn(S \cup T) = NamesIn(S) \cup NamesIn(T)
BY DEF NamesIn

\* What the scanner sees and does not see of messages are names.
LEMMA ScannedNames ==
  ASSUME NEW messages \in SUBSET Messages
  PROVE  Scanned(messages) \subseteq Names /\ Unscannable(messages) \subseteq Names
BY DEF Scanned, Unscannable, Messages

\* The conversions of messages give messages.
LEMMA ConvertedMessages ==
  ASSUME NEW m \in Messages
  PROVE  Converted(m) \in Messages /\ Extracted(m) \in Messages /\ Filtered(m) \in Messages
<1>1. PICK l \in BOOLEAN, x \in SUBSET Names, f \in SUBSET Names, y \in SUBSET Names :
        m = [listed |-> l, text |-> x, file |-> f, rest |-> y]
  BY DEF Messages
<1>2. PICK b \in BOOLEAN : b = (m.file # {})
  OBVIOUS
<1>3. Extracted(m) = [listed |-> l, text |-> x \cup f, file |-> {}, rest |-> y]
  <2>1. Extracted(m) = [m EXCEPT !.text = m.text \cup m.file, !.file = {}]
    BY <1>1 DEF Extracted
  <2>. QED BY <1>1, <2>1
<1>4. Filtered(m) = [listed |-> l, text |-> x, file |-> {}, rest |-> y]
  BY <1>1 DEF Filtered
<1>5. Converted(m) = [m EXCEPT !.listed = b]
  BY <1>2, Zenon DEF Converted
<1>6. Converted(m) \in Messages
  BY <1>1, <1>5 DEF Messages
<1>7. Extracted(m) \in Messages
  BY <1>1, <1>3 DEF Messages
<1>8. Filtered(m) \in Messages
  BY <1>1, <1>4 DEF Messages
<1> QED BY <1>6, <1>7, <1>8

LEMMA ProxyInitInv == ProxyInit => ProxyInv
<1> SUFFICES ASSUME ProxyInit PROVE ProxyInv
  OBVIOUS
<1>1. ProxyTypeOK
  BY ProxyAssumption, RequestsAssumption DEF ProxyInit, ProxyTypeOK, NoCall, Statuses
<1>2. Unscanned /\ TurnLeft /\ MapsAgree /\ AnswerRestored
  BY DEF ProxyInit, Unscanned, TurnLeft, MapsAgree, AnswerRestored
<1>3. NamesAreHidden /\ Restorable(chat) /\ Restorable(answer)
  BY DEF ProxyInit, NamesAreHidden, NamesIn, Restorable
<1>4. ToolsSeeNames /\ CallRestorable
  BY DEF ProxyInit, ToolsSeeNames, CallRestorable, NoCall, AllPlain, Restorable
<1> QED BY <1>1, <1>2, <1>3, <1>4 DEF ProxyInv

\* The steps that only end the request, or prepare what the scanner will see.
LEMMA ProxyEndInv ==
  ASSUME ProxyInv, NEW how \in Statuses, End(how), how \notin {"model", "answered"},
         how \in {"denied", "attachment error", "scanner unavailable"}
           => status \in {"received", "accepted", "filtered"},
         how \notin {"received", "accepted", "extracted", "filtered"}
  PROVE  ProxyInv'
<1>1. ProxyTypeOK'
  BY DEF ProxyInv, ProxyTypeOK, End
<1>2. Unscanned' /\ TurnLeft' /\ MapsAgree' /\ AnswerRestored'
  BY DEF ProxyInv, End, Unscanned, TurnLeft, MapsAgree, AnswerRestored
<1>3. NamesAreHidden' /\ Restorable(chat)' /\ Restorable(answer)' /\ ToolsSeeNames'
      /\ CallRestorable'
  BY DEF ProxyInv, End, NamesAreHidden, NamesIn, Restorable, ToolsSeeNames, CallRestorable,
         AllPlain
<1> QED BY <1>1, <1>2, <1>3 DEF ProxyInv

LEMMA PrepareInv ==
  ASSUME ProxyInv, Accept \/ ExtractDocuments \/ FilterNonText
  PROVE  ProxyInv'
<1>1. /\ status \in {"received", "accepted", "extracted"}
      /\ status' \in {"accepted", "extracted", "filtered"}
      /\ UNCHANGED <<handler, policy, mapped, loopMap, chat, call, turn, tools, toolSaw, answer,
                     unscanned>>
  BY DEF Accept, ExtractDocuments, FilterNonText
<1>2. request' \subseteq Messages
  <2>1. request \subseteq Messages
    BY DEF ProxyInv, ProxyTypeOK
  <2>2. \/ request' = request
        \/ request' = {Converted(m) : m \in request}
        \/ request' = {Extracted(m) : m \in request}
        \/ request' = {Filtered(m) : m \in request}
    BY DEF Accept, ExtractDocuments, FilterNonText
  <2> QED BY <2>1, <2>2, ConvertedMessages
<1>3. chat = {} /\ mapped = {} /\ loopMap = {} /\ answer = {} /\ turn = 0
  BY <1>1 DEF ProxyInv, Unscanned
<1>4. ProxyTypeOK'
  BY <1>1, <1>2 DEF ProxyInv, ProxyTypeOK, Statuses
<1>5. Unscanned' /\ TurnLeft' /\ MapsAgree' /\ AnswerRestored'
  BY <1>1, <1>3 DEF Unscanned, TurnLeft, MapsAgree, AnswerRestored
<1>6. NamesAreHidden' /\ Restorable(chat)' /\ Restorable(answer)'
  BY <1>1, <1>3 DEF NamesAreHidden, NamesIn, Restorable
<1>7. ToolsSeeNames' /\ CallRestorable'
  BY <1>1 DEF ProxyInv, ToolsSeeNames, CallRestorable, AllPlain, Restorable
<1> QED BY <1>4, <1>5, <1>6, <1>7 DEF ProxyInv

LEMMA PseudonymizeInv ==
  ASSUME ProxyInv, PseudonymizeMessages
  PROVE  ProxyInv'
<1>1. Scanned(request) \subseteq Names /\ Unscannable(request) \subseteq Names
  BY ScannedNames DEF ProxyInv, ProxyTypeOK
<1>2. /\ Plain(Scanned(request)) \subseteq Tokens
      /\ Plain(Unscannable(request)) \subseteq Tokens
      /\ AllPlain(Plain(Unscannable(request)))
      /\ NamesIn(Plain(Unscannable(request))) \subseteq Unscannable(request)
  BY <1>1, PlainTokens
<1>3. /\ Hidden(Plain(Scanned(request))) \subseteq Tokens
      /\ NamesIn(Hidden(Plain(Scanned(request)))) = {}
  BY <1>2, HiddenTokens
<1>4. /\ status = "filtered" /\ status' = "model"
      /\ mapped' = Scanned(request) /\ loopMap' = Scanned(request)
      /\ chat' = Hidden(Plain(Scanned(request))) \cup Plain(Unscannable(request))
      /\ UNCHANGED <<handler, policy, request, call, turn, tools, toolSaw, answer, unscanned>>
  BY DEF PseudonymizeMessages
<1>5. answer = {} /\ turn = 0 /\ loopMap = {}
  BY <1>4 DEF ProxyInv, Unscanned
<1>6. ProxyTypeOK'
  BY <1>1, <1>2, <1>3, <1>4 DEF ProxyInv, ProxyTypeOK, Statuses
<1>7. Unscanned' /\ MapsAgree' /\ AnswerRestored'
  BY <1>4 DEF Unscanned, MapsAgree, AnswerRestored
<1>8. TurnLeft'
  BY <1>4, <1>5, ProxyAssumption DEF TurnLeft
<1>9. NamesAreHidden'
  <2>1. NamesIn(chat') \subseteq Unscannable(request)
    BY <1>2, <1>3, <1>4, NamesInUnion
  <2>2. request' = request
    BY <1>4
  <2> QED BY <2>1, <2>2 DEF NamesAreHidden, NamesIn
<1>10. Restorable(chat)'
  <2> SUFFICES ASSUME NEW t \in chat' PROVE t.plain \/ t.name \in loopMap'
    BY DEF Restorable
  <2>1. CASE t \in Hidden(Plain(Scanned(request)))
    <3>1. PICK u \in Plain(Scanned(request)) : t.name = u.name
      BY <2>1, <1>2, HiddenToken
    <3>2. u.name \in Scanned(request)
      BY <1>1, PlainToken
    <3> QED BY <3>1, <3>2, <1>4
  <2>2. CASE t \in Plain(Unscannable(request))
    BY <2>2, <1>2 DEF AllPlain
  <2> QED BY <1>4, <2>1, <2>2
<1>11. Restorable(answer)' /\ ToolsSeeNames' /\ CallRestorable'
  BY <1>4, <1>5 DEF ProxyInv, Restorable, ToolsSeeNames, CallRestorable, AllPlain
<1> QED BY <1>6, <1>7, <1>8, <1>9, <1>10, <1>11 DEF ProxyInv

LEMMA AnswerInv ==
  ASSUME ProxyInv, Answer
  PROVE  ProxyInv'
<1>1. PICK said \in SUBSET chat : answer' = Restored(said, mapped)
  BY DEF Answer
<1>2. /\ status = "model" /\ status' = "answered" /\ turn' = turn + 1
      /\ UNCHANGED <<handler, policy, request, mapped, loopMap, chat, call, tools, toolSaw,
                     unscanned>>
  BY DEF Answer
<1>3. said \in SUBSET Tokens /\ Restorable(said)
  BY DEF ProxyInv, ProxyTypeOK, Restorable
<1>4. answer' \subseteq Tokens /\ Restorable(answer')
  BY <1>1, <1>3, RestoredTokens, RestoringKeeps
<1>5. ProxyTypeOK'
  <2>1. turn' \in 0..MaxIterations
    BY <1>2, ProxyAssumption DEF ProxyInv, ProxyTypeOK, TurnLeft
  <2> QED BY <2>1, <1>2, <1>4 DEF ProxyInv, ProxyTypeOK, Statuses
<1>6. Unscanned' /\ TurnLeft' /\ MapsAgree'
  BY <1>2 DEF ProxyInv, Unscanned, TurnLeft, MapsAgree
<1>7. NamesAreHidden' /\ Restorable(chat)' /\ ToolsSeeNames' /\ CallRestorable'
  BY <1>2 DEF ProxyInv, NamesAreHidden, NamesIn, Restorable, ToolsSeeNames, CallRestorable,
              AllPlain
<1>8. Restorable(answer)'
  BY <1>2, <1>4 DEF Restorable
<1>9. AnswerRestored'
  <2> SUFFICES ASSUME mapped # {} PROVE AllPlain(answer')
    BY <1>2 DEF AnswerRestored, AllPlain
  <2>1. loopMap = mapped
    BY DEF ProxyInv, MapsAgree
  <2> QED BY <1>1, <1>3, <2>1, RestoringEnds DEF Restorable
<1> QED BY <1>5, <1>6, <1>7, <1>8, <1>9 DEF ProxyInv

LEMMA AskForToolInv ==
  ASSUME ProxyInv, AskForTool
  PROVE  ProxyInv'
<1>1. PICK s \in Servers, args \in SUBSET chat :
        call' = [NoCall EXCEPT !.server = s, !.args = Restored(args, loopMap)]
  BY DEF AskForTool
<1>2. call' = [server |-> s, args |-> Restored(args, loopMap), result |-> {}]
  BY <1>1 DEF NoCall
<1>3. answer' \subseteq chat
  BY DEF AskForTool
<1>4. /\ status = "model" /\ status' = "tool" /\ turn < MaxIterations /\ turn' = turn + 1
      /\ UNCHANGED <<handler, policy, request, mapped, loopMap, chat, tools, toolSaw,
                     unscanned>>
  BY DEF AskForTool
<1>5. args \in SUBSET Tokens /\ \A u \in args : u.plain \/ u.name \in loopMap
  BY DEF ProxyInv, ProxyTypeOK, Restorable
<1>6. Restored(args, loopMap) \subseteq Tokens /\ AllPlain(Restored(args, loopMap))
  BY <1>5, RestoredTokens, RestoringEnds
<1>7. ProxyTypeOK'
  <2>1. turn' \in 0..MaxIterations
    BY <1>4, ProxyAssumption DEF ProxyInv, ProxyTypeOK
  <2>2. call' \in [server : Servers \cup {"none"}, args : SUBSET Tokens, result : SUBSET Tokens]
    BY <1>2, <1>6
  <2> QED BY <2>1, <2>2, <1>3, <1>4 DEF ProxyInv, ProxyTypeOK, Statuses
<1>8. Unscanned' /\ TurnLeft' /\ MapsAgree' /\ AnswerRestored'
  BY <1>4 DEF ProxyInv, Unscanned, TurnLeft, MapsAgree, AnswerRestored
<1>9. NamesAreHidden' /\ Restorable(chat)' /\ Restorable(answer)'
  BY <1>3, <1>4 DEF ProxyInv, NamesAreHidden, NamesIn, Restorable
<1>10. ToolsSeeNames'
  <2>1. AllPlain(call'.args)
    BY <1>2, <1>6
  <2> QED BY <2>1, <1>4 DEF ProxyInv, ToolsSeeNames, AllPlain
<1>11. CallRestorable'
  BY <1>2, <1>4, <1>5 DEF CallRestorable, Restorable
<1> QED BY <1>7, <1>8, <1>9, <1>10, <1>11 DEF ProxyInv

LEMMA UnknownToolInv ==
  ASSUME ProxyInv, UnknownTool
  PROVE  ProxyInv'
<1>1. /\ status = "tool" /\ status' = "result" /\ call' = NoCall
      /\ UNCHANGED <<handler, policy, request, mapped, loopMap, chat, turn, tools, toolSaw,
                     answer, unscanned>>
  BY DEF UnknownTool
<1>2. ProxyTypeOK'
  BY <1>1 DEF ProxyInv, ProxyTypeOK, Statuses, NoCall
<1>3. Unscanned' /\ TurnLeft' /\ MapsAgree' /\ AnswerRestored'
  BY <1>1 DEF ProxyInv, Unscanned, TurnLeft, MapsAgree, AnswerRestored
<1>4. NamesAreHidden' /\ Restorable(chat)' /\ Restorable(answer)'
  BY <1>1 DEF ProxyInv, NamesAreHidden, NamesIn, Restorable
<1>5. ToolsSeeNames' /\ CallRestorable'
  BY <1>1 DEF ProxyInv, ToolsSeeNames, CallRestorable, AllPlain, Restorable, NoCall
<1> QED BY <1>2, <1>3, <1>4, <1>5 DEF ProxyInv

LEMMA CallToolInv ==
  ASSUME ProxyInv, CallTool
  PROVE  ProxyInv'
<1>1. PICK result \in SUBSET (Plain(Names) \cup call.args \cup chat) :
        call' = [call EXCEPT !.result = result]
  BY DEF CallTool
<1>2. /\ status = "tool" /\ status' = "result" /\ toolSaw' = toolSaw \cup call.args
      /\ UNCHANGED <<handler, policy, request, mapped, loopMap, chat, turn, tools, answer,
                     unscanned>>
  BY DEF CallTool
<1>3. call \in [server : Servers \cup {"none"}, args : SUBSET Tokens, result : SUBSET Tokens]
  BY DEF ProxyInv, ProxyTypeOK
<1>4. /\ call'.args = call.args /\ call'.result = result
      /\ call' = [server |-> call.server, args |-> call.args, result |-> result]
  BY <1>1, <1>3
<1>5. AllPlain(call.args) /\ AllPlain(toolSaw) /\ Restorable(chat) /\ chat \subseteq Tokens
  BY DEF ProxyInv, ProxyTypeOK, ToolsSeeNames
<1>6. result \subseteq Tokens /\ Restorable(result)
  <2>1. Plain(Names) \subseteq Tokens /\ AllPlain(Plain(Names))
    BY PlainTokens
  <2> QED BY <2>1, <1>3, <1>5 DEF AllPlain, Restorable
<1>7. ProxyTypeOK'
  <2>1. call' \in [server : Servers \cup {"none"}, args : SUBSET Tokens, result : SUBSET Tokens]
    BY <1>3, <1>4, <1>6
  <2> QED BY <2>1, <1>2, <1>3 DEF ProxyInv, ProxyTypeOK, Statuses
<1>8. Unscanned' /\ TurnLeft' /\ MapsAgree' /\ AnswerRestored'
  BY <1>2 DEF ProxyInv, Unscanned, TurnLeft, MapsAgree, AnswerRestored
<1>9. NamesAreHidden' /\ Restorable(chat)' /\ Restorable(answer)'
  BY <1>2 DEF ProxyInv, NamesAreHidden, NamesIn, Restorable
<1>10. ToolsSeeNames'
  BY <1>2, <1>4, <1>5 DEF ToolsSeeNames, AllPlain
<1>11. CallRestorable'
  BY <1>2, <1>4, <1>5, <1>6 DEF CallRestorable, Restorable
<1> QED BY <1>7, <1>8, <1>9, <1>10, <1>11 DEF ProxyInv

\* The loop's map and the handler's stay the same map, if they ever were.
LEMMA ExtendKeeps ==
  ASSUME MapsAgree, NEW names \in SUBSET Names, Extend(names),
         mapped \subseteq Names, loopMap \subseteq Names
  PROVE  MapsAgree' /\ mapped' \subseteq Names /\ loopMap' \subseteq Names
         /\ loopMap' = loopMap \cup names
BY DEF Extend, Same, MapsAgree

LEMMA ScanResultInv ==
  ASSUME ProxyInv, ScanResult
  PROVE  ProxyInv'
<1>1. /\ status = "result" /\ call' = NoCall
      /\ chat' = chat \cup Hidden(call.result)
      /\ Extend(NamesIn(call.result))
      /\ UNCHANGED <<handler, policy, request, turn, tools, toolSaw, answer, unscanned>>
  BY DEF ScanResult
<1>2. status' \in {"exhausted", "model"} /\ (status' = "model" => turn # MaxIterations)
  BY DEF ScanResult, NextTurn
<1>3. call.result \in SUBSET Tokens /\ Restorable(call.result)
  BY DEF ProxyInv, ProxyTypeOK, CallRestorable
<1>4. NamesIn(call.result) \in SUBSET Names
  BY <1>3, NamesInNames
<1>5. MapsAgree' /\ mapped' \subseteq Names /\ loopMap' \subseteq Names
      /\ loopMap' = loopMap \cup NamesIn(call.result)
  BY <1>1, <1>4, ExtendKeeps DEF ProxyInv, ProxyTypeOK
<1>6. Hidden(call.result) \subseteq Tokens /\ NamesIn(Hidden(call.result)) = {}
  BY <1>3, HiddenTokens
<1>7. ProxyTypeOK'
  BY <1>1, <1>2, <1>5, <1>6 DEF ProxyInv, ProxyTypeOK, Statuses, NoCall
<1>8. Unscanned' /\ AnswerRestored'
  BY <1>2 DEF Unscanned, AnswerRestored
<1>9. TurnLeft'
  BY <1>1, <1>2, ProxyAssumption DEF ProxyInv, ProxyTypeOK, TurnLeft
<1>10. NamesAreHidden'
  <2>1. NamesIn(chat') = NamesIn(chat)
    BY <1>1, <1>6, NamesInUnion
  <2>2. NamesIn(chat)' = NamesIn(chat')
    BY DEF NamesIn
  <2> QED BY <1>1, <2>1, <2>2 DEF ProxyInv, NamesAreHidden
<1>11. Restorable(chat)'
  <2> SUFFICES ASSUME NEW t \in chat' PROVE t.plain \/ t.name \in loopMap'
    BY DEF Restorable
  <2>1. CASE t \in chat
    BY <2>1, <1>5 DEF ProxyInv, Restorable
  <2>2. CASE t \in Hidden(call.result)
    <3>1. PICK u \in call.result : t.name = u.name
      BY <2>2, <1>3, HiddenToken
    <3>2. u.name \in NamesIn(call.result) \/ u.name \in loopMap
      BY <1>3 DEF NamesIn, Restorable
    <3> QED BY <3>1, <3>2, <1>5
  <2> QED BY <1>1, <2>1, <2>2
<1>12. Restorable(answer)'
  BY <1>1, <1>5 DEF ProxyInv, Restorable
<1>13. ToolsSeeNames' /\ CallRestorable'
  BY <1>1 DEF ProxyInv, ToolsSeeNames, CallRestorable, AllPlain, Restorable, NoCall
<1> QED BY <1>5, <1>7, <1>8, <1>9, <1>10, <1>11, <1>12, <1>13 DEF ProxyInv

LEMMA TakeResultInv ==
  ASSUME ProxyInv, TakeResult
  PROVE  ProxyInv'
<1>1. /\ status = "result" /\ call' = NoCall
      /\ chat' = chat \cup call.result
      /\ unscanned' = unscanned \cup NamesIn(call.result)
      /\ UNCHANGED <<handler, policy, request, mapped, loopMap, turn, tools, toolSaw, answer>>
  BY DEF TakeResult
<1>2. status' \in {"exhausted", "model"} /\ (status' = "model" => turn # MaxIterations)
  BY DEF TakeResult, NextTurn
<1>3. call.result \in SUBSET Tokens /\ Restorable(call.result)
  BY DEF ProxyInv, ProxyTypeOK, CallRestorable
<1>4. NamesIn(call.result) \in SUBSET Names
  BY <1>3, NamesInNames
<1>5. ProxyTypeOK'
  BY <1>1, <1>2, <1>3, <1>4 DEF ProxyInv, ProxyTypeOK, Statuses, NoCall
<1>6. Unscanned' /\ MapsAgree' /\ AnswerRestored'
  BY <1>1, <1>2 DEF ProxyInv, Unscanned, MapsAgree, AnswerRestored
<1>7. TurnLeft'
  BY <1>1, <1>2, ProxyAssumption DEF ProxyInv, ProxyTypeOK, TurnLeft
<1>8. NamesAreHidden'
  <2>1. NamesIn(chat') = NamesIn(chat) \cup NamesIn(call.result)
    BY <1>1, NamesInUnion
  <2>2. NamesIn(chat)' = NamesIn(chat')
    BY DEF NamesIn
  <2> QED BY <1>1, <2>1, <2>2 DEF ProxyInv, NamesAreHidden
<1>9. Restorable(chat)' /\ Restorable(answer)'
  BY <1>1, <1>3 DEF ProxyInv, Restorable
<1>10. ToolsSeeNames' /\ CallRestorable'
  BY <1>1 DEF ProxyInv, ToolsSeeNames, CallRestorable, AllPlain, Restorable, NoCall
<1> QED BY <1>5, <1>6, <1>7, <1>8, <1>9, <1>10 DEF ProxyInv

LEMMA GiveUpInv ==
  ASSUME ProxyInv, GiveUp
  PROVE  ProxyInv'
<1>1. /\ status = "exhausted" /\ status' = "answered"
      /\ answer' = Restored(answer, mapped)
      /\ UNCHANGED <<handler, policy, request, mapped, loopMap, chat, call, turn, tools,
                     toolSaw, unscanned>>
  BY DEF GiveUp
<1>2. answer \in SUBSET Tokens /\ Restorable(answer)
  BY DEF ProxyInv, ProxyTypeOK
<1>3. answer' \subseteq Tokens /\ Restorable(answer')
  BY <1>1, <1>2, RestoredTokens, RestoringKeeps
<1>4. ProxyTypeOK'
  BY <1>1, <1>3 DEF ProxyInv, ProxyTypeOK, Statuses
<1>5. Unscanned' /\ TurnLeft' /\ MapsAgree'
  BY <1>1 DEF ProxyInv, Unscanned, TurnLeft, MapsAgree
<1>6. NamesAreHidden' /\ Restorable(chat)' /\ ToolsSeeNames' /\ CallRestorable'
  BY <1>1 DEF ProxyInv, NamesAreHidden, NamesIn, Restorable, ToolsSeeNames, CallRestorable,
              AllPlain
<1>7. Restorable(answer)'
  BY <1>1, <1>3 DEF Restorable
<1>8. AnswerRestored'
  <2> SUFFICES ASSUME mapped # {} PROVE AllPlain(answer')
    BY <1>1 DEF AnswerRestored, AllPlain
  <2>1. loopMap = mapped
    BY DEF ProxyInv, MapsAgree
  <2> QED BY <1>1, <1>2, <2>1, RestoringEnds DEF Restorable
<1> QED BY <1>4, <1>5, <1>6, <1>7, <1>8 DEF ProxyInv

LEMMA RefreshToolsInv ==
  ASSUME ProxyInv, RefreshTools \/ UNCHANGED proxyVars
  PROVE  ProxyInv'
<1>1. UNCHANGED <<handler, policy, request, status, mapped, loopMap, chat, call, turn, toolSaw,
                  answer, unscanned>>
  BY DEF RefreshTools, proxyVars
<1>2. tools' \in (SUBSET Servers) \ {{}}
  <2>1. tools \in (SUBSET Servers) \ {{}}
    BY DEF ProxyInv, ProxyTypeOK
  <2>2. CASE RefreshTools
    <3>1. PICK reachable \in SUBSET Servers : tools' = IF reachable = {} THEN tools ELSE reachable
      BY <2>2 DEF RefreshTools
    <3>2. CASE reachable = {}
      BY <2>1, <3>1, <3>2
    <3>3. CASE reachable # {}
      <4>1. tools' = reachable
        BY <3>1, <3>3
      <4> QED BY <4>1, <3>3
    <3> QED BY <3>2, <3>3
  <2>3. CASE UNCHANGED proxyVars
    BY <2>1, <2>3 DEF proxyVars
  <2> QED BY <2>2, <2>3
<1>3. ProxyTypeOK'
  BY <1>1, <1>2 DEF ProxyInv, ProxyTypeOK
<1>4. Unscanned' /\ TurnLeft' /\ MapsAgree' /\ AnswerRestored'
  BY <1>1 DEF ProxyInv, Unscanned, TurnLeft, MapsAgree, AnswerRestored, AllPlain
<1>5. NamesAreHidden' /\ Restorable(chat)' /\ Restorable(answer)' /\ ToolsSeeNames'
      /\ CallRestorable'
  BY <1>1 DEF ProxyInv, NamesAreHidden, NamesIn, Restorable, ToolsSeeNames, CallRestorable,
              AllPlain
<1> QED BY <1>3, <1>4, <1>5 DEF ProxyInv

LEMMA ProxyStepInv == ProxyInv /\ [ProxyNext]_proxyVars => ProxyInv'
<1> SUFFICES ASSUME ProxyInv, [ProxyNext]_proxyVars PROVE ProxyInv'
  OBVIOUS
<1>1. CASE Deny
  BY <1>1, ProxyEndInv DEF Deny, Statuses
<1>2. CASE Accept \/ ExtractDocuments \/ FilterNonText
  BY <1>2, PrepareInv
<1>3. CASE ExtractionFails
  BY <1>3, ProxyEndInv DEF ExtractionFails, Statuses
<1>4. CASE ScanFails
  BY <1>4, ProxyEndInv DEF ScanFails, Statuses
<1>5. CASE NoRoute
  BY <1>5, ProxyEndInv DEF NoRoute, Statuses
<1>6. CASE LoopFails
  BY <1>6, ProxyEndInv DEF LoopFails, Statuses
<1>7. CASE PseudonymizeMessages
  BY <1>7, PseudonymizeInv
<1>8. CASE Answer
  BY <1>8, AnswerInv
<1>9. CASE AskForTool
  BY <1>9, AskForToolInv
<1>10. CASE UnknownTool
  BY <1>10, UnknownToolInv
<1>11. CASE CallTool
  BY <1>11, CallToolInv
<1>12. CASE ScanResult
  BY <1>12, ScanResultInv
<1>13. CASE TakeResult
  BY <1>13, TakeResultInv
<1>14. CASE GiveUp
  BY <1>14, GiveUpInv
<1>15. CASE RefreshTools \/ UNCHANGED proxyVars
  BY <1>15, RefreshToolsInv
<1> QED BY <1>1, <1>2, <1>3, <1>4, <1>5, <1>6, <1>7, <1>8, <1>9, <1>10, <1>11, <1>12, <1>13,
           <1>14, <1>15 DEF ProxyNext

LEMMA ProxyInvariance == ProxySpec => []ProxyInv
BY ProxyInitInv, ProxyStepInv, PTL DEF ProxySpec

\* A name reaches the model in plain only where nothing scans for it: in a part of a list
\* content, beside the content (the arguments of tool calls, the sender's name), or from a
\* tool whose result is not scanned; however many tools are called with the names, and
\* whatever their results repeat.
THEOREM NamesStayHidden == ProxySpec => []NamesAreHidden
<1>1. ProxyInv => NamesAreHidden
  BY DEF ProxyInv
<1> QED BY <1>1, ProxyInvariance, PTL

\* In the arguments that restoration looks at, every call of a tool has the names and no
\* pseudonym; and if the first scan found anything, the answer has no pseudonym, one from
\* a tool's result included.  Keys and lists within lists are not looked at.
THEOREM PseudonymsAreRestored == ProxySpec => []PseudonymsStayInside
<1>1. ProxyInv => PseudonymsStayInside
  BY DEF ProxyInv, ToolsSeeNames, AnswerRestored, AllPlain, PseudonymsStayInside
<1> QED BY <1>1, ProxyInvariance, PTL

=============================================================================
