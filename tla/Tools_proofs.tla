---------------------------- MODULE Tools_proofs -----------------------------
(***************************************************************************)
(* Proofs about the calls of the MCP server: what a tool answers and what  *)
(* it leaves on record (ToolCalls), the incidents its tools keep           *)
(* (Incidents), and what may refuse a call before it is looked at: the     *)
(* limit on requests (RateLimiter) and the kill-switch (CircuitBreaker);   *)
(* for any hits, incidents, agents, capacities, processes and tasks,       *)
(* whatever fails.                                                         *)
(***************************************************************************)
EXTENDS ToolCalls, Incidents, RateLimiter, CircuitBreaker, SequenceTheorems, TLAPS

-----------------------------------------------------------------------------
(* ToolCalls: what is answered was permitted and is on record              *)

\* The hits, their decisions and the answer.
Sorted ==
  /\ found \in Seq(Chunks) /\ ranked \in Seq(Chunks)
  /\ position \in Nat \ {0}
  /\ cleared \subseteq Chunks

\* What was allowed was permitted at some time of the call, and is all a list of hits holds.
Gated ==
  /\ permitted \subseteq ever
  /\ \A c \in cleared : Class[c] \in ever
  /\ tool \in Searches \cup Lists => Items(ranked) \subseteq cleared
  /\ tool \in DOMAIN Handler /\ Handler[tool].gate = "policy" /\ (done \/ at = "working")
       => resource \in ever

\* An original is put into the answer for a hit of the answer, and filed before anything
\* else is done.
Filed ==
  /\ at \in {"called", "judging"} => revealed = {}
  /\ revealed \subseteq Items(ranked)
  /\ at \notin {"filing", "error"} => revealed \subseteq vaultLog
  /\ at = "filing" => revealed \subseteq vaultLog \cup {ranked[position]}

\* Only calls of the tools without an entry come to an answer without one.
OnRecord ==
  /\ at = "working" => tool \in DOMAIN Handler
  /\ at = "summary" => audited # "none"
  /\ at = "answered" /\ audited = "none" => tool \in Unlogged

\* Behind the gate of a handler only a role that passes it has work done; one that is
\* refused has none, and its entry where there is one.
Handled ==
  tool \in DOMAIN Handler =>
    /\ done \/ at = "working" => RolePasses
    /\ at \in {"called", "denying", "denied"} => ~done
    /\ at = "denied" /\ Does("denial logged") => audited = "deny"

CallInv == Sorted /\ Gated /\ Filed /\ OnRecord /\ Handled

-----------------------------------------------------------------------------
LEMMA OrdersAreSequences ==
  ASSUME NEW S, NEW s \in Orders(S)
  PROVE  s \in Seq(S) /\ Items(s) \subseteq S
<1>1. TopK \in Nat
  BY ToolCallsAssumption
<1>2. PICK n \in 0..TopK + 1 : s \in [1..n -> S]
  BY DEF Orders
<1>. QED
  BY <1>1, <1>2 DEF Items

LEMMA PrefixKeepsItems ==
  ASSUME NEW S, NEW s \in Seq(S), NEW k \in 0..Len(s)
  PROVE  SubSeq(s, 1, k) \in Seq(S) /\ Items(SubSeq(s, 1, k)) \subseteq Items(s)
BY DEF Items

LEMMA CallInitInv == ToolCallsInit => CallInv
<1>. SUFFICES ASSUME ToolCallsInit PROVE CallInv
  OBVIOUS
<1>1. Sorted
  BY DEF ToolCallsInit, Sorted
<1>2. Gated
  BY DEF ToolCallsInit, Gated, Items
<1>3. Filed
  BY DEF ToolCallsInit, Filed
<1>4. OnRecord
  BY DEF ToolCallsInit, OnRecord
<1>5. Handled
  BY DEF ToolCallsInit, Handled
<1>. QED
  BY <1>1, <1>2, <1>3, <1>4, <1>5 DEF CallInv

\* A search, a list or a resolution of pseudonyms leaves what a handler does alone.
LEMMA SearchSteps ==
  ASSUME CallInv,
         \/ Find \/ AnswerList \/ Rerank \/ KeepOrder
         \/ \E c \in Chunks : Judge(c) \/ JudgeFails(c)
         \/ FindPseudonyms
  PROVE  CallInv'
<1>. USE DEF CallInv
<1>1. CASE Find
  <2>1. found' \in Seq(Chunks)
    BY <1>1, OrdersAreSequences DEF Find
  <2>2. /\ at = "called" /\ at' = "judging"
        /\ UNCHANGED <<tool, role, resource, permitted, ever, cleared, ranked, position, revealed,
                       vaultLog, audited, done>>
    BY <1>1 DEF Find, Go, fixed, policies, records
  <2>. QED
    BY <2>1, <2>2 DEF Sorted, Gated, Filed, OnRecord, Handled, RolePasses, Does
<1>2. ASSUME NEW answer, AnswerList \/ Rerank \/ KeepOrder PROVE CallInv'
  <2>1. /\ at = "judging" /\ at' \in {"answered", "opening", "logging"}
        /\ tool \in Searches \cup Lists /\ (at' = "answered" => tool \in Lists)
        /\ UNCHANGED <<tool, role, resource, permitted, ever, found, cleared, position, revealed,
                       vaultLog, audited, done>>
    BY <1>2 DEF AnswerList, Rerank, KeepOrder, Judged, Go, fixed, policies, records
  <2>2. ranked' \in Seq(Chunks) /\ Items(ranked') \subseteq cleared
    <3>1. \A s \in Orders(cleared) : s \in Seq(Chunks) /\ Items(s) \subseteq cleared
      BY OrdersAreSequences DEF Sorted
    <3>2. CASE AnswerList \/ Rerank
      BY <3>1, <3>2 DEF AnswerList, Rerank, Allowed, Reranked
    <3>3. CASE KeepOrder
      <4>1. PICK s \in Allowed : ranked' = SubSeq(s, 1, Least(TopK, Len(s)))
        BY <3>3 DEF KeepOrder
      <4>2. s \in Seq(Chunks) /\ Items(s) \subseteq cleared
        BY <3>1 DEF Allowed
      <4>3. Least(TopK, Len(s)) \in 0..Len(s)
        BY <4>2, ToolCallsAssumption DEF Least
      <4>. QED
        BY <4>1, <4>2, <4>3, PrefixKeepsItems
    <3>. QED
      BY <1>2, <3>2, <3>3
  <2>. QED
    BY <2>1, <2>2 DEF Sorted, Gated, Filed, OnRecord, Handled, RolePasses, Does, Unlogged
<1>3. ASSUME NEW c \in Chunks, Judge(c) \/ JudgeFails(c) PROVE CallInv'
  <2>1. /\ at = "judging" /\ at' = "judging"
        /\ cleared' = cleared \/ (cleared' = cleared \cup {c} /\ Class[c] \in permitted)
        /\ UNCHANGED <<tool, role, resource, permitted, ever, found, ranked, position, revealed,
                       vaultLog, audited, done>>
    BY <1>3 DEF Judge, JudgeFails, Go, fixed, policies, records
  <2>. QED
    BY <2>1 DEF Sorted, Gated, Filed, OnRecord, Handled, RolePasses, Does
<1>4. CASE FindPseudonyms
  <2>1. ranked' \in Seq(Sealed)
    BY <1>4, OrdersAreSequences DEF FindPseudonyms
  <2>2. ranked' \in Seq(Chunks)
    BY <2>1, ToolCallsAssumption
  <2>3. /\ at = "called" /\ at' = "opening" /\ tool \in Resolves
        /\ UNCHANGED <<tool, role, resource, permitted, ever, found, cleared, position, revealed,
                       vaultLog, audited, done>>
    BY <1>4 DEF FindPseudonyms, Go, fixed, policies, records
  <2>4. tool \notin Searches \cup Lists
    BY <2>3 DEF Resolves, Searches, Lists
  <2>. QED
    BY <2>2, <2>3, <2>4 DEF Sorted, Gated, Filed, OnRecord, Handled, RolePasses, Does
<1>. QED
  BY <1>1, <1>2, <1>3, <1>4

\* The originals of the hits, one by one.
LEMMA OpeningSteps ==
  ASSUME CallInv, OpenOriginal \/ SkipOriginal \/ FileAccess \/ EndOpening
  PROVE  CallInv'
<1>. USE DEF CallInv
<1>1. CASE OpenOriginal
  <2>1. /\ at = "opening" /\ at' = "filing" /\ position <= Len(ranked)
        /\ revealed' = revealed \cup {ranked[position]}
        /\ UNCHANGED <<tool, role, resource, permitted, ever, found, cleared, ranked, position,
                       vaultLog, audited, done>>
    BY <1>1 DEF OpenOriginal, AtHit, Go, fixed, policies, records
  <2>2. ranked[position] \in Items(ranked)
    BY <2>1 DEF Sorted, Items
  <2>. QED
    BY <2>1, <2>2 DEF Sorted, Gated, Filed, OnRecord, Handled, RolePasses, Does
<1>2. CASE SkipOriginal
  <2>1. /\ at = "opening" /\ at' = "opening" /\ position' = position + 1
        /\ UNCHANGED <<tool, role, resource, permitted, ever, found, cleared, ranked, revealed,
                       vaultLog, audited, done>>
    BY <1>2 DEF SkipOriginal, AtHit, Go, fixed, policies, records
  <2>. QED
    BY <2>1 DEF Sorted, Gated, Filed, OnRecord, Handled, RolePasses, Does
<1>3. CASE FileAccess
  <2>1. /\ at = "filing" /\ at' = "opening" /\ position' = position + 1
        /\ vaultLog' = vaultLog \cup {ranked[position]}
        /\ UNCHANGED <<tool, role, resource, permitted, ever, found, cleared, ranked, revealed,
                       audited, done>>
    BY <1>3 DEF FileAccess, Go, fixed, policies
  <2>. QED
    BY <2>1 DEF Sorted, Gated, Filed, OnRecord, Handled, RolePasses, Does
<1>4. CASE EndOpening
  <2>1. /\ at = "opening" /\ at' \in {"answered", "logging"}
        /\ at' = "answered" => tool \in Resolves
        /\ UNCHANGED <<tool, role, resource, permitted, ever, result, records>>
    BY <1>4 DEF EndOpening, Go, fixed, policies
  <2>. QED
    BY <2>1 DEF Sorted, Gated, Filed, OnRecord, Handled, RolePasses, Does, Unlogged, result,
                records
<1>. QED
  BY <1>1, <1>2, <1>3, <1>4

\* The handlers of the other tools.
LEMMA HandlerSteps ==
  ASSUME CallInv,
         Enter \/ EnterEmpty \/ Refuse \/ AnswerEarly \/ LogDenial \/ Work \/ WorkFails
  PROVE  CallInv'
<1>. USE DEF CallInv
<1>1. CASE Enter
  <2>1. /\ at = "called" /\ tool \in DOMAIN Handler /\ at' = "working"
        /\ UNCHANGED <<tool, role, resource, permitted, ever, result, records>>
    BY <1>1 DEF Enter, Called, Go, fixed, policies
  <2>2. RolePasses /\ (Handler[tool].gate = "policy" => resource \in permitted)
    BY <1>1 DEF Enter, Passes
  <2>. QED
    BY <2>1, <2>2 DEF Sorted, Gated, Filed, OnRecord, Handled, RolePasses, Does, result, records
<1>2. CASE EnterEmpty \/ Refuse
  <2>1. /\ at = "called" /\ at' \in {"logging", "denying", "denied"}
        /\ at' = "denied" => ~Does("denial logged")
        /\ UNCHANGED <<tool, role, resource, permitted, ever, result, records>>
    BY <1>2 DEF EnterEmpty, Refuse, Called, Go, fixed, policies
  <2>. QED
    BY <2>1 DEF Sorted, Gated, Filed, OnRecord, Handled, RolePasses, Does, result, records
<1>3. CASE AnswerEarly
  <2>1. /\ at \in {"working", "called"} /\ at' = "error"
        /\ done' => at = "working"
        /\ UNCHANGED <<tool, role, resource, permitted, ever, result, vaultLog, audited>>
    BY <1>3 DEF AnswerEarly, Go, fixed, policies
  <2>. QED
    BY <2>1 DEF Sorted, Gated, Filed, OnRecord, Handled, RolePasses, Does, result
<1>4. CASE LogDenial
  <2>1. /\ at = "denying" /\ at' = "denied" /\ audited' = "deny"
        /\ UNCHANGED <<tool, role, resource, permitted, ever, result, vaultLog, done>>
    BY <1>4 DEF LogDenial, Go, fixed, policies
  <2>. QED
    BY <2>1 DEF Sorted, Gated, Filed, OnRecord, Handled, RolePasses, Does, result
<1>5. CASE Work
  <2>1. /\ at = "working" /\ at' \in {"logging", "answered"}
        /\ at' = "answered" => ~Does("logged")
        /\ UNCHANGED <<tool, role, resource, permitted, ever, result, vaultLog, audited>>
    BY <1>5 DEF Work, Go, fixed, policies
  <2>2. tool \in DOMAIN Handler
    BY <2>1 DEF OnRecord
  <2>3. at' = "answered" => tool \in Unlogged
    BY <2>1, <2>2 DEF Does, Unlogged
  <2>. QED
    BY <2>1, <2>3 DEF Sorted, Gated, Filed, OnRecord, Handled, RolePasses, Does, result
<1>6. CASE WorkFails
  <2>1. /\ at = "working" /\ at' = "logging"
        /\ UNCHANGED <<tool, role, resource, permitted, ever, result, vaultLog, audited>>
    BY <1>6 DEF WorkFails, fixed, policies
  <2>. QED
    BY <2>1 DEF Sorted, Gated, Filed, OnRecord, Handled, RolePasses, Does, result
<1>. QED
  BY <1>1, <1>2, <1>3, <1>4, <1>5, <1>6

\* A change of the policy, an exception, and the steps after the entry.
LEMMA OtherSteps ==
  ASSUME CallInv,
         \/ UpdatePolicy \/ CallRaises \/ LogAccess \/ Summarise
         \/ UNCHANGED callVars
  PROVE  CallInv'
<1>. USE DEF CallInv
<1>1. CASE UpdatePolicy
  <2>1. /\ ever' = ever \cup permitted'
        /\ UNCHANGED <<tool, role, resource, at, result, records>>
    BY <1>1 DEF UpdatePolicy, fixed
  <2>. QED
    BY <2>1 DEF Sorted, Gated, Filed, OnRecord, Handled, RolePasses, Does, result, records
<1>2. CASE CallRaises
  <2>1. /\ at' = "error" /\ (done' => done \/ at = "working")
        /\ at \notin {"answered", "denied", "error", "summary"}
        /\ UNCHANGED <<tool, role, resource, permitted, ever, result, vaultLog, audited>>
    BY <1>2 DEF CallRaises, Over, fixed, policies
  <2>. QED
    BY <2>1 DEF Sorted, Gated, Filed, OnRecord, Handled, RolePasses, Does, result
<1>3. CASE LogAccess
  <2>1. /\ at = "logging" /\ at' \in {"summary", "answered"} /\ audited' # "none"
        /\ UNCHANGED <<tool, role, resource, permitted, ever, result, vaultLog, done>>
    BY <1>3 DEF LogAccess, AfterEntry, Go, fixed, policies
  <2>. QED
    BY <2>1 DEF Sorted, Gated, Filed, OnRecord, Handled, RolePasses, Does, result
<1>4. CASE Summarise
  <2>1. /\ at = "summary" /\ at' = "answered"
        /\ UNCHANGED <<tool, role, resource, permitted, ever, found, cleared, ranked, position,
                       revealed, records>>
    BY <1>4 DEF Summarise, Go, fixed, policies, result
  <2>. QED
    BY <2>1 DEF Sorted, Gated, Filed, OnRecord, Handled, RolePasses, Does, records
<1>5. CASE UNCHANGED callVars
  BY <1>5 DEF callVars, Sorted, Gated, Filed, OnRecord, Handled, RolePasses, Does
<1>. QED
  BY <1>1, <1>2, <1>3, <1>4, <1>5

-----------------------------------------------------------------------------
\* Every handler of the dispatcher keeps to the gates, the filing and the entries that the
\* answers rest on, in every behaviour.
THEOREM CallInvariant == ToolCallsSpec => []CallInv
<1>1. CallInv /\ [ToolCallsNext]_callVars => CallInv'
  BY SearchSteps, OpeningSteps, HandlerSteps, OtherSteps DEF ToolCallsNext
<1>. QED
  BY <1>1, CallInitInv, PTL DEF ToolCallsSpec

\* Whatever the policy is changed to while the call is under way, and whatever fails:
\* hits, rows and originals of an answer were permitted during the call, the entries the
\* audit log and the vault's log owe for them are there, and no work was done for a role
\* that the gate of its tool keeps out.
THEOREM AnswersArePermitted == ToolCallsSpec => []ReleasedIsPermitted
<1>1. CallInv => ReleasedIsPermitted
  <2>. SUFFICES ASSUME CallInv PROVE ReleasedIsPermitted
    OBVIOUS
  <2>1. at = "answered" => AnswerIsAudited /\ AnswerIsPermitted
    BY DEF CallInv, Gated, Filed, OnRecord, AnswerIsAudited, AnswerIsPermitted
  <2>2. tool \in DOMAIN Handler => WorkIsPermitted
    BY DEF CallInv, Handled, WorkIsPermitted
  <2>. QED
    BY <2>1, <2>2 DEF ReleasedIsPermitted
<1>. QED
  BY <1>1, CallInvariant, PTL

-----------------------------------------------------------------------------
(* Incidents: what is on record, and what is counted *)

IncidentRow ==
  [status : IncidentStatuses, detected : Nat, notifiable : {"unknown", "yes", "no"},
   authority : BOOLEAN, subject : BOOLEAN, history : Seq(IncidentStatuses)]

CourseOf(row) == {row.status} \cup {row.history[k] : k \in DOMAIN row.history}

AssessedExist == \A a \in Assessments : assess[a] # NoAssessment => assess[a].of \in Incidents

\* What a row says of itself: a notification is on record just when it was made.
RowTrue(row) ==
  /\ row.authority <=> "notified_authority" \in CourseOf(row)
  /\ row.subject => "notified_subject" \in CourseOf(row)

ClocksAgree == checked <= hour /\ \A i \in Incidents : incident[i].detected <= hour

IncidentsInv ==
  /\ IncidentsTypeOK
  /\ AssessedExist
  /\ \A i \in Incidents : RowTrue(incident[i])
  /\ ClocksAgree
  /\ NoSilentSlip

\* The trigger adds to the course of a row the status it gives it, and forgets nothing.
LEMMA WithStatusAdds ==
  ASSUME NEW row \in IncidentRow, NEW status \in IncidentStatuses
  PROVE  /\ WithStatus(row, status) \in IncidentRow
         /\ CourseOf(WithStatus(row, status)) = CourseOf(row) \cup {status}
         /\ WithStatus(row, status).status = status
         /\ WithStatus(row, status).detected = row.detected
         /\ WithStatus(row, status).authority = row.authority
         /\ WithStatus(row, status).subject = row.subject
<1> DEFINE new == WithStatus(row, status)
<1>1. PICK h : h = IF row.status = status THEN row.history ELSE Append(row.history, row.status)
  OBVIOUS
<1>2. new = [row EXCEPT !.status = status, !.history = h]
  BY <1>1 DEF WithStatus, IncidentRow
<1>3. row.history \in Seq(IncidentStatuses) /\ row.status \in IncidentStatuses
  BY DEF IncidentRow
<1>4. h \in Seq(IncidentStatuses)
  BY <1>1, <1>3
<1>5. /\ new \in IncidentRow
      /\ new.status = status /\ new.history = h
      /\ new.detected = row.detected
      /\ new.authority = row.authority
      /\ new.subject = row.subject
  BY <1>2, <1>4 DEF IncidentRow
<1>6. {h[k] : k \in DOMAIN h} \cup {status}
        = {row.history[k] : k \in DOMAIN row.history} \cup {row.status, status}
  <2>1. CASE row.status = status
    BY <2>1, <1>1
  <2>2. CASE row.status # status
    <3>1. h = Append(row.history, row.status)
      BY <2>2, <1>1
    <3>2. /\ DOMAIN h = 1..(Len(row.history) + 1)
          /\ DOMAIN row.history = 1..Len(row.history)
          /\ Len(row.history) \in Nat
          /\ \A k \in 1..Len(row.history) : h[k] = row.history[k]
          /\ h[Len(row.history) + 1] = row.status
      BY <3>1, <1>3
    <3>3. {h[k] : k \in DOMAIN h} = {row.history[k] : k \in DOMAIN row.history} \cup {row.status}
      <4>1. ASSUME NEW k \in DOMAIN h
            PROVE  h[k] \in {row.history[j] : j \in DOMAIN row.history} \cup {row.status}
        <5>1. k \in 1..Len(row.history) \/ k = Len(row.history) + 1
          BY <3>2
        <5> QED BY <5>1, <3>2
      <4>2. ASSUME NEW k \in DOMAIN row.history PROVE row.history[k] \in {h[j] : j \in DOMAIN h}
        <5>1. k \in DOMAIN h /\ h[k] = row.history[k]
          BY <3>2
        <5> QED BY <5>1
      <4>3. row.status \in {h[j] : j \in DOMAIN h}
        <5>1. Len(row.history) + 1 \in DOMAIN h
          BY <3>2
        <5> QED BY <5>1, <3>2
      <4> QED BY <4>1, <4>2, <4>3
    <3> QED BY <3>3
  <2> QED BY <2>1, <2>2
<1>7. CourseOf(new) = CourseOf(row) \cup {status}
  BY <1>5, <1>6 DEF CourseOf
<1> QED BY <1>5, <1>7

\* A call that changes one row, and neither takes from its course nor moves its detection,
\* keeps the invariant.
LEMMA RowStep ==
  ASSUME IncidentsInv, NEW i \in Incidents, NEW row \in IncidentRow, Reported(i),
         incident' = [incident EXCEPT ![i] = row],
         RowTrue(row), row.detected = incident[i].detected,
         incident[i].authority => row.authority,
         CourseOf(incident[i]) \subseteq CourseOf(row),
         hour' = hour, gauge' = gauge, checked' = checked,
         assess' \in [Assessments -> [of : Incidents \cup {"none"}, outcome : Outcomes]],
         AssessedExist'
  PROVE  IncidentsInv'
<1>1. incident \in [Incidents -> IncidentRow]
  BY DEF IncidentsInv, IncidentsTypeOK, IncidentRow
<1>2. incident' \in [Incidents -> IncidentRow]
  BY <1>1
<1>3. incident'[i] = row /\ \A j \in Incidents : j # i => incident'[j] = incident[j]
  BY <1>1
<1>4. IncidentsTypeOK'
  BY <1>2 DEF IncidentsInv, IncidentsTypeOK, IncidentRow
<1>5. (\A j \in Incidents : RowTrue(incident[j]))'
  <2> SUFFICES ASSUME NEW j \in Incidents PROVE RowTrue(incident'[j])
    BY DEF RowTrue, CourseOf
  <2> QED BY <1>3 DEF IncidentsInv
<1>6. ClocksAgree'
  BY <1>3 DEF IncidentsInv, ClocksAgree
<1>7. NoSilentSlip'
  <2> SUFFICES ASSUME NEW j \in Incidents,
                      incident'[j].status # "unreported",
                      checked - incident'[j].detected > NotificationHours,
                      ~incident'[j].authority,
                      "false_positive" \notin CourseOf(incident'[j])
               PROVE  j \in gauge["overdue"]
    BY DEF NoSilentSlip, Reported, Course, CourseOf
  <2>1. /\ Reported(j)
        /\ checked - incident[j].detected > NotificationHours
        /\ ~incident[j].authority
        /\ "false_positive" \notin CourseOf(incident[j])
    BY <1>3 DEF Reported
  <2> QED BY <2>1 DEF IncidentsInv, NoSilentSlip, Course, CourseOf
<1> QED BY <1>4, <1>5, <1>6, <1>7 DEF IncidentsInv

LEMMA IncidentsInitInv == IncidentsInit => IncidentsInv
<1> SUFFICES ASSUME IncidentsInit PROVE IncidentsInv
  OBVIOUS
<1>1. Unreported \in IncidentRow
  BY DEF Unreported, IncidentRow, IncidentStatuses
<1>2. \A i \in Incidents : incident[i] = Unreported
  BY DEF IncidentsInit
<1>3. IncidentsTypeOK
  BY <1>1 DEF IncidentsInit, IncidentsTypeOK, IncidentRow, NoAssessment, Outcomes
<1>4. AssessedExist
  BY DEF IncidentsInit, AssessedExist
<1>5. CourseOf(Unreported) = {"unreported"}
  BY DEF CourseOf, Unreported
<1>6. RowTrue(Unreported)
  BY <1>5 DEF RowTrue, Unreported
<1>7. ClocksAgree
  BY <1>2 DEF IncidentsInit, ClocksAgree, Unreported
<1>8. NoSilentSlip
  BY <1>2 DEF NoSilentSlip, Reported, Unreported
<1> QED BY <1>2, <1>3, <1>4, <1>6, <1>7, <1>8 DEF IncidentsInv

LEMMA HourInv ==
  ASSUME IncidentsInv, HourPasses
  PROVE  IncidentsInv'
<1>1. hour' = hour + 1 /\ UNCHANGED <<incident, assess, gauge, checked>>
  BY DEF HourPasses
<1>2. IncidentsTypeOK' /\ AssessedExist' /\ NoSilentSlip'
  BY <1>1 DEF IncidentsInv, IncidentsTypeOK, AssessedExist, NoSilentSlip, Reported, Course
<1>3. ClocksAgree'
  BY <1>1 DEF IncidentsInv, IncidentsTypeOK, ClocksAgree
<1>4. (\A j \in Incidents : RowTrue(incident[j]))'
  BY <1>1 DEF IncidentsInv, RowTrue, CourseOf
<1> QED BY <1>2, <1>3, <1>4 DEF IncidentsInv

\* A new row is not older than the last run of the job.
LEMMA ReportInv ==
  ASSUME IncidentsInv, NEW i \in Incidents, Report(i)
  PROVE  IncidentsInv'
<1>1. PICK row : row = [Unreported EXCEPT !.status = "detected", !.detected = hour]
  OBVIOUS
<1>2. /\ incident' = [incident EXCEPT ![i] = row]
      /\ UNCHANGED <<hour, assess, gauge, checked>>
  BY <1>1 DEF Report
<1>3. row = [status |-> "detected", detected |-> hour, notifiable |-> "unknown",
             authority |-> FALSE, subject |-> FALSE, history |-> <<>>]
  BY <1>1 DEF Unreported
<1>4. row \in IncidentRow
  BY <1>3 DEF IncidentsInv, IncidentsTypeOK, IncidentRow, IncidentStatuses
<1>5. CourseOf(row) = {"detected"}
  BY <1>3 DEF CourseOf
<1>6. RowTrue(row)
  BY <1>3, <1>5 DEF RowTrue
<1>7. incident \in [Incidents -> IncidentRow]
  BY DEF IncidentsInv, IncidentsTypeOK, IncidentRow
<1>8. incident' \in [Incidents -> IncidentRow]
  BY <1>2, <1>4, <1>7
<1>9. incident'[i] = row /\ \A j \in Incidents : j # i => incident'[j] = incident[j]
  BY <1>2, <1>7
<1>10. IncidentsTypeOK' /\ AssessedExist'
  BY <1>2, <1>8 DEF IncidentsInv, IncidentsTypeOK, IncidentRow, AssessedExist
<1>11. (\A j \in Incidents : RowTrue(incident[j]))'
  <2> SUFFICES ASSUME NEW j \in Incidents PROVE RowTrue(incident'[j])
    BY DEF RowTrue, CourseOf
  <2> QED BY <1>6, <1>9 DEF IncidentsInv
<1>12. ClocksAgree'
  BY <1>2, <1>3, <1>9 DEF IncidentsInv, IncidentsTypeOK, ClocksAgree
<1>13. NoSilentSlip'
  <2> SUFFICES ASSUME NEW j \in Incidents,
                      incident'[j].status # "unreported",
                      checked - incident'[j].detected > NotificationHours,
                      ~incident'[j].authority,
                      "false_positive" \notin CourseOf(incident'[j])
               PROVE  j \in gauge["overdue"]
    BY <1>2 DEF NoSilentSlip, Reported, Course, CourseOf
  <2>1. CASE j = i
    <3>1. incident'[j].detected = hour
      BY <2>1, <1>3, <1>9
    <3>2. checked <= hour /\ checked \in Nat /\ hour \in Nat
      BY DEF IncidentsInv, IncidentsTypeOK, ClocksAgree
    <3>3. FALSE
      BY <3>1, <3>2, IncidentsAssumption
    <3> QED BY <3>3
  <2>2. CASE j # i
    <3>1. incident'[j] = incident[j]
      BY <2>2, <1>9
    <3> QED BY <3>1 DEF IncidentsInv, NoSilentSlip, Reported, Course, CourseOf
  <2> QED BY <2>1, <2>2
<1> QED BY <1>10, <1>11, <1>12, <1>13 DEF IncidentsInv

\* An assessment begins or fails: the rows stay.
LEMMA AssessmentInv ==
  ASSUME IncidentsInv, UNCHANGED <<hour, incident, gauge, checked>>,
         assess' \in [Assessments -> [of : Incidents \cup {"none"}, outcome : Outcomes]],
         AssessedExist'
  PROVE  IncidentsInv'
<1>1. IncidentsTypeOK' /\ NoSilentSlip' /\ ClocksAgree'
  BY DEF IncidentsInv, IncidentsTypeOK, NoSilentSlip, ClocksAgree, Reported, Course
<1>2. (\A j \in Incidents : RowTrue(incident[j]))'
  BY DEF IncidentsInv, RowTrue, CourseOf
<1> QED BY <1>1, <1>2 DEF IncidentsInv

LEMMA StartInv ==
  ASSUME IncidentsInv, NEW a \in Assessments, NEW i \in Incidents,
         NEW o \in {"score", "notifiable", "not notifiable"}, StartAssessment(a, i, o)
  PROVE  IncidentsInv'
<1>1. assess' = [assess EXCEPT ![a] = [of |-> i, outcome |-> o]]
      /\ UNCHANGED <<hour, incident, gauge, checked>>
  BY DEF StartAssessment
<1>2. assess \in [Assessments -> [of : Incidents \cup {"none"}, outcome : Outcomes]]
  BY DEF IncidentsInv, IncidentsTypeOK
<1>3. [of |-> i, outcome |-> o] \in [of : Incidents \cup {"none"}, outcome : Outcomes]
  BY DEF Outcomes
<1>4. assess' \in [Assessments -> [of : Incidents \cup {"none"}, outcome : Outcomes]]
  BY <1>1, <1>2, <1>3
<1>5. AssessedExist'
  BY <1>1, <1>2 DEF IncidentsInv, AssessedExist
<1> QED BY <1>1, <1>4, <1>5, AssessmentInv

\* The calls that end forget what they assess.
LEMMA AssessmentEnds ==
  ASSUME IncidentsInv, NEW a \in Assessments,
         assess' = [assess EXCEPT ![a] = NoAssessment]
  PROVE  /\ assess' \in [Assessments -> [of : Incidents \cup {"none"}, outcome : Outcomes]]
         /\ AssessedExist'
<1>1. assess \in [Assessments -> [of : Incidents \cup {"none"}, outcome : Outcomes]]
  BY DEF IncidentsInv, IncidentsTypeOK
<1>2. NoAssessment \in [of : Incidents \cup {"none"}, outcome : Outcomes]
  BY DEF NoAssessment, Outcomes
<1> QED BY <1>1, <1>2 DEF IncidentsInv, AssessedExist

LEMMA FinishInv ==
  ASSUME IncidentsInv, NEW a \in Assessments, FinishAssessment(a)
  PROVE  IncidentsInv'
<1>1. PICK i : i = assess[a].of
  OBVIOUS
<1>2. i \in Incidents
  BY <1>1 DEF FinishAssessment, IncidentsInv, AssessedExist
<1>3. Reported(i) /\ assess' = [assess EXCEPT ![a] = NoAssessment]
      /\ hour' = hour /\ gauge' = gauge /\ checked' = checked
  BY <1>1 DEF FinishAssessment, MayChange
<1>4. PICK s \in {"false_positive", "under_review"}, n \in {"yes", "no"} :
        incident' = [incident EXCEPT ![i] = [WithStatus(incident[i], s) EXCEPT !.notifiable = n]]
  <2> DEFINE s0 == IF assess[a].outcome = "not notifiable" THEN "false_positive"
                   ELSE "under_review"
             n0 == IF (IF assess[a].outcome = "score" THEN i \in Notifiable
                       ELSE assess[a].outcome = "notifiable") THEN "yes" ELSE "no"
  <2>1. incident' = [incident EXCEPT ![i] = [WithStatus(@, s0) EXCEPT !.notifiable = n0]]
    BY <1>1, Zenon DEF FinishAssessment
  <2>2. incident' = [incident EXCEPT ![i] =
                       [WithStatus(incident[i], s0) EXCEPT !.notifiable = n0]]
    BY <2>1, <1>2 DEF IncidentsInv, IncidentsTypeOK
  <2>3. s0 \in {"false_positive", "under_review"} /\ n0 \in {"yes", "no"}
    OBVIOUS
  <2> HIDE DEF s0, n0
  <2> QED BY <2>2, <2>3
<1>5. PICK old : old = WithStatus(incident[i], s)
  OBVIOUS
<1>6. incident[i] \in IncidentRow /\ s \in IncidentStatuses /\ RowTrue(incident[i])
  BY <1>2 DEF IncidentsInv, IncidentsTypeOK, IncidentRow, IncidentStatuses
<1>7. /\ old \in IncidentRow
      /\ CourseOf(old) = CourseOf(incident[i]) \cup {s}
      /\ old.detected = incident[i].detected
      /\ old.authority = incident[i].authority
      /\ old.subject = incident[i].subject
  BY <1>5, <1>6, WithStatusAdds
<1>8. PICK row : row = [old EXCEPT !.notifiable = n]
  OBVIOUS
<1>9. /\ row \in IncidentRow
      /\ row.status = old.status /\ row.history = old.history
      /\ row.detected = old.detected
      /\ row.authority = old.authority
      /\ row.subject = old.subject
  BY <1>7, <1>8 DEF IncidentRow
<1>10. CourseOf(row) = CourseOf(incident[i]) \cup {s}
  BY <1>7, <1>9 DEF CourseOf
<1>11. RowTrue(row)
  BY <1>6, <1>7, <1>9, <1>10 DEF RowTrue
<1>12. incident' = [incident EXCEPT ![i] = row]
  BY <1>4, <1>5, <1>8
<1>13. /\ assess' \in [Assessments -> [of : Incidents \cup {"none"}, outcome : Outcomes]]
       /\ AssessedExist'
  BY <1>3, AssessmentEnds
<1> QED BY <1>2, <1>3, <1>7, <1>9, <1>10, <1>11, <1>12, <1>13, RowStep

LEMMA AuthorityInv ==
  ASSUME IncidentsInv, NEW i \in Incidents, NotifyAuthority(i)
  PROVE  IncidentsInv'
<1>1. PICK old : old = WithStatus(incident[i], "notified_authority")
  OBVIOUS
<1>2. PICK row : row = [old EXCEPT !.authority = TRUE]
  OBVIOUS
<1>3. incident' = [incident EXCEPT ![i] = row]
  BY <1>1, <1>2 DEF NotifyAuthority, IncidentsInv, IncidentsTypeOK
<1>4. Reported(i) /\ UNCHANGED <<hour, assess, gauge, checked>>
  BY DEF NotifyAuthority, MayChange
<1>5. incident[i] \in IncidentRow /\ RowTrue(incident[i])
      /\ "notified_authority" \in IncidentStatuses
  BY DEF IncidentsInv, IncidentsTypeOK, IncidentRow, IncidentStatuses
<1>6. /\ old \in IncidentRow
      /\ CourseOf(old) = CourseOf(incident[i]) \cup {"notified_authority"}
      /\ old.detected = incident[i].detected
      /\ old.subject = incident[i].subject
  BY <1>1, <1>5, WithStatusAdds
<1>7. /\ row \in IncidentRow
      /\ row.status = old.status /\ row.history = old.history
      /\ row.detected = old.detected
      /\ row.authority = TRUE
      /\ row.subject = old.subject
  BY <1>2, <1>6 DEF IncidentRow
<1>8. CourseOf(row) = CourseOf(incident[i]) \cup {"notified_authority"}
  BY <1>6, <1>7 DEF CourseOf
<1>9. RowTrue(row)
  BY <1>5, <1>6, <1>7, <1>8 DEF RowTrue
<1>10. /\ assess' \in [Assessments -> [of : Incidents \cup {"none"}, outcome : Outcomes]]
       /\ AssessedExist'
  BY <1>4 DEF IncidentsInv, IncidentsTypeOK, AssessedExist
<1> QED BY <1>3, <1>4, <1>6, <1>7, <1>8, <1>9, <1>10, RowStep

LEMMA SubjectInv ==
  ASSUME IncidentsInv, NEW i \in Incidents, NotifySubject(i)
  PROVE  IncidentsInv'
<1>1. PICK old : old = WithStatus(incident[i], "notified_subject")
  OBVIOUS
<1>2. PICK row : row = [old EXCEPT !.subject = TRUE]
  OBVIOUS
<1>3. incident' = [incident EXCEPT ![i] = row]
  BY <1>1, <1>2 DEF NotifySubject, IncidentsInv, IncidentsTypeOK
<1>4. Reported(i) /\ UNCHANGED <<hour, assess, gauge, checked>>
  BY DEF NotifySubject, MayChange
<1>5. incident[i] \in IncidentRow /\ RowTrue(incident[i])
      /\ "notified_subject" \in IncidentStatuses
  BY DEF IncidentsInv, IncidentsTypeOK, IncidentRow, IncidentStatuses
<1>6. /\ old \in IncidentRow
      /\ CourseOf(old) = CourseOf(incident[i]) \cup {"notified_subject"}
      /\ old.detected = incident[i].detected
      /\ old.authority = incident[i].authority
  BY <1>1, <1>5, WithStatusAdds
<1>7. /\ row \in IncidentRow
      /\ row.status = old.status /\ row.history = old.history
      /\ row.detected = old.detected
      /\ row.authority = old.authority
      /\ row.subject = TRUE
  BY <1>2, <1>6 DEF IncidentRow
<1>8. CourseOf(row) = CourseOf(incident[i]) \cup {"notified_subject"}
  BY <1>6, <1>7 DEF CourseOf
<1>9. RowTrue(row)
  BY <1>5, <1>6, <1>7, <1>8 DEF RowTrue
<1>10. /\ assess' \in [Assessments -> [of : Incidents \cup {"none"}, outcome : Outcomes]]
       /\ AssessedExist'
  BY <1>4 DEF IncidentsInv, IncidentsTypeOK, AssessedExist
<1> QED BY <1>3, <1>4, <1>6, <1>7, <1>8, <1>9, <1>10, RowStep

\* A row whose authority was never told and that nobody dismissed is open.
LEMMA CheckInv ==
  ASSUME IncidentsInv, CheckDeadlines
  PROVE  IncidentsInv'
<1>1. /\ checked' = hour
      /\ gauge' = [s \in Severities |-> {i \in Open : Severity(i) = s}]
      /\ UNCHANGED <<hour, incident, assess>>
  BY DEF CheckDeadlines
<1>2. IncidentsTypeOK' /\ AssessedExist' /\ ClocksAgree'
  <2>1. gauge' \in [Severities -> SUBSET Incidents]
    BY <1>1 DEF Open
  <2> QED BY <1>1, <2>1 DEF IncidentsInv, IncidentsTypeOK, AssessedExist, ClocksAgree
<1>3. (\A j \in Incidents : RowTrue(incident[j]))'
  BY <1>1 DEF IncidentsInv, RowTrue, CourseOf
<1>4. NoSilentSlip'
  <2> SUFFICES ASSUME NEW j \in Incidents,
                      Reported(j),
                      hour - incident[j].detected > NotificationHours,
                      ~incident[j].authority,
                      "false_positive" \notin CourseOf(incident[j])
               PROVE  j \in gauge'["overdue"]
    BY <1>1 DEF NoSilentSlip, Reported, Course, CourseOf
  <2>1. incident[j].status \in CourseOf(incident[j]) /\ incident[j].status \in IncidentStatuses
    BY DEF CourseOf, IncidentsInv, IncidentsTypeOK
  <2>2. "notified_authority" \notin CourseOf(incident[j])
    BY DEF IncidentsInv, RowTrue
  <2>3. j \in Open
    BY <2>1, <2>2 DEF Open, Reported, IncidentStatuses
  <2>4. Severity(j) = "overdue"
    <3>1. hour \in Nat /\ incident[j].detected \in Nat
      BY DEF IncidentsInv, IncidentsTypeOK
    <3> QED BY <3>1, IncidentsAssumption DEF Severity
  <2> QED BY <1>1, <2>3, <2>4 DEF Severities
<1> QED BY <1>2, <1>3, <1>4 DEF IncidentsInv

LEMMA IncidentsStepInv == IncidentsInv /\ [IncidentsNext]_incidentVars => IncidentsInv'
<1> SUFFICES ASSUME IncidentsInv, [IncidentsNext]_incidentVars PROVE IncidentsInv'
  OBVIOUS
<1>1. CASE HourPasses
  BY <1>1, HourInv
<1>2. CASE CheckDeadlines
  BY <1>2, CheckInv
<1>3. ASSUME NEW i \in Incidents, Report(i) PROVE IncidentsInv'
  BY <1>3, ReportInv
<1>4. ASSUME NEW i \in Incidents, NotifyAuthority(i) PROVE IncidentsInv'
  BY <1>4, AuthorityInv
<1>5. ASSUME NEW i \in Incidents, NotifySubject(i) PROVE IncidentsInv'
  BY <1>5, SubjectInv
<1>6. ASSUME NEW a \in Assessments, AssessmentFails(a) PROVE IncidentsInv'
  BY <1>6, AssessmentEnds, AssessmentInv DEF AssessmentFails
<1>7. ASSUME NEW a \in Assessments, FinishAssessment(a) PROVE IncidentsInv'
  BY <1>7, FinishInv
<1>8. ASSUME NEW a \in Assessments, NEW i \in Incidents,
             NEW o \in {"score", "notifiable", "not notifiable"}, StartAssessment(a, i, o)
      PROVE  IncidentsInv'
  BY <1>8, StartInv
<1>9. CASE UNCHANGED incidentVars
  <2>1. UNCHANGED <<hour, incident, gauge, checked>> /\ assess' = assess
    BY <1>9 DEF incidentVars
  <2>2. assess' \in [Assessments -> [of : Incidents \cup {"none"}, outcome : Outcomes]]
    BY <2>1 DEF IncidentsInv, IncidentsTypeOK
  <2>3. AssessedExist'
    BY <2>1 DEF IncidentsInv, AssessedExist
  <2> QED BY <2>1, <2>2, <2>3, AssessmentInv
<1> QED BY <1>1, <1>2, <1>3, <1>4, <1>5, <1>6, <1>7, <1>8, <1>9 DEF IncidentsNext

LEMMA IncidentsInvariance == IncidentsSpec => []IncidentsInv
BY IncidentsInitInv, IncidentsStepInv, PTL DEF IncidentsSpec

\* However calls overtake one another, no notification is forgotten, and no incident past
\* its deadline drops out of the count before the authority was told of it or it was
\* dismissed; for any number of incidents, assessments and hours.
THEOREM IncidentsAreNotLost == IncidentsSpec => []IncidentsStayOnRecord
<1>1. IncidentsInv => NotificationsOnRecord
  BY DEF IncidentsInv, RowTrue, CourseOf, Course, NotificationsOnRecord
<1>2. IncidentsInv => IncidentsStayOnRecord
  BY <1>1 DEF IncidentsInv, IncidentsStayOnRecord
<1> QED BY <1>2, IncidentsInvariance, PTL

-----------------------------------------------------------------------------
(* RateLimiter: what the clean-up of the buckets costs                     *)

\* What a bucket nobody drops would hold, against what there is: never less than one token
\* under the bucket, one under what came back since the last request, and one under a
\* full bucket for an agent whose bucket is gone.
Tracks(a) ==
  /\ a \notin buckets => allowance[a] >= Capacity[a] - 1
  /\ a \in buckets => /\ allowance[a] >= tokens[a] - 1
                      /\ allowance[a] >= Capped(idle[a] - 1, Capacity[a])

LimiterInv == LimiterTypeOK /\ \A a \in Agents : Tracks(a)

-----------------------------------------------------------------------------
(* A dropped bucket had been idle long enough to be full.                  *)
LEMMA DroppedIsFull ==
  ASSUME LimiterInv, NEW b \in Dropped
  PROVE  b \in Agents /\ b \in buckets /\ allowance[b] >= Capacity[b]
<1>1. b \in Agents /\ b \in buckets /\ idle[b] > IdleLimit
  BY DEF LimiterInv, LimiterTypeOK, Dropped, Stale
<1>2. /\ Capacity[b] \in Nat /\ Capacity[b] <= IdleLimit /\ IdleLimit \in Nat
      /\ idle[b] \in Int /\ allowance[b] \in Int
  BY <1>1, RateLimiterAssumption DEF LimiterInv, LimiterTypeOK
<1>3. allowance[b] >= Capped(idle[b] - 1, Capacity[b])
  BY <1>1 DEF LimiterInv, Tracks
<1>. QED
  BY <1>1, <1>2, <1>3 DEF Capped

(* A request counts up to the clean-up and starts again.                   *)
LEMMA CountStays ==
  ASSUME LimiterTypeOK, CountRequest
  PROVE  requests' \in 0..CleanupEvery - 1
BY RateLimiterAssumption DEF LimiterTypeOK, CountRequest, Cleans

LEMMA LimiterInitInv == LimiterInit => LimiterInv
<1>. SUFFICES ASSUME LimiterInit PROVE LimiterInv
  OBVIOUS
<1>1. LimiterTypeOK
  BY RateLimiterAssumption DEF LimiterInit, LimiterTypeOK
<1>2. ASSUME NEW a \in Agents PROVE Tracks(a)
  BY RateLimiterAssumption DEF LimiterInit, Tracks
<1>. QED
  BY <1>1, <1>2 DEF LimiterInv

-----------------------------------------------------------------------------
LEMMA SecondKeepsInv == LimiterInv /\ Second => LimiterInv'
<1>. SUFFICES ASSUME LimiterInv, Second PROVE LimiterInv'
  OBVIOUS
<1>. USE RateLimiterAssumption
<1>1. LimiterTypeOK'
  BY DEF LimiterInv, LimiterTypeOK, Second, Capped
<1>2. ASSUME NEW a \in Agents PROVE Tracks(a)'
  <2>1. /\ tokens[a] \in Nat /\ idle[a] \in 0..IdleLimit + 1 /\ allowance[a] \in Int
        /\ Capacity[a] \in Nat \ {0} /\ tokens[a] <= Capacity[a]
    BY DEF LimiterInv, LimiterTypeOK
  <2>2. /\ tokens'[a] = Capped(tokens[a] + 1, Capacity[a])
        /\ allowance'[a] = Capped(allowance[a] + 1, Capacity[a])
        /\ idle'[a] = Capped(idle[a] + 1, IdleLimit + 1)
        /\ buckets' = buckets
    BY DEF Second
  <2>3. Tracks(a)
    BY DEF LimiterInv
  <2>. QED
    BY <2>1, <2>2, <2>3 DEF Tracks, Capped
<1>. QED
  BY <1>1, <1>2 DEF LimiterInv

LEMMA AdmitKeepsInv ==
  ASSUME LimiterInv, NEW a \in Agents, Admit(a)
  PROVE  LimiterInv'
<1>. USE RateLimiterAssumption
<1>1. LimiterTypeOK'
  <2>1. Filled(a) \in Nat /\ Filled(a) <= Capacity[a] /\ Filled(a) >= 1
    <3>1. Filled(a) \in Nat /\ Filled(a) <= Capacity[a]
      BY DEF LimiterInv, LimiterTypeOK, Filled
    <3>. QED
      BY <3>1 DEF Admit
  <2>2. requests' \in 0..CleanupEvery - 1
    BY CountStays DEF LimiterInv, Admit
  <2>3. tokens' \in [Agents -> Nat] /\ \A b \in Agents : tokens'[b] <= Capacity[b]
    <3>1. Filled(a) - 1 \in Nat /\ Filled(a) - 1 <= Capacity[a]
      BY <2>1
    <3>2. tokens' = [tokens EXCEPT ![a] = Filled(a) - 1]
      BY DEF Admit
    <3>. QED
      BY <3>1, <3>2 DEF LimiterInv, LimiterTypeOK
  <2>4. buckets' \subseteq Agents /\ idle' \in [Agents -> 0..IdleLimit + 1]
    BY DEF LimiterInv, LimiterTypeOK, Admit
  <2>5. allowance' \in [Agents -> Int]
    BY DEF LimiterInv, LimiterTypeOK, Admit
  <2>. QED
    BY <2>2, <2>3, <2>4, <2>5 DEF LimiterTypeOK
<1>2. ASSUME NEW b \in Agents PROVE Tracks(b)'
  <2>1. /\ tokens[b] \in Nat /\ idle[b] \in Nat /\ allowance[b] \in Int
        /\ Capacity[b] \in Nat \ {0} /\ tokens[b] <= Capacity[b]
    BY DEF LimiterInv, LimiterTypeOK
  <2>2. Tracks(b)
    BY DEF LimiterInv
  <2>3. CASE b = a
    <3>1. /\ b \in buckets' /\ tokens'[b] = Filled(b) - 1 /\ idle'[b] = 0
          /\ allowance'[b] = allowance[b] - 1 /\ Filled(b) >= 1
      BY <2>3 DEF LimiterInv, LimiterTypeOK, Admit
    <3>. QED
      BY <2>1, <2>2, <3>1 DEF Tracks, Filled, Capped
  <2>4. CASE b # a
    <3>1. /\ tokens'[b] = tokens[b] /\ idle'[b] = idle[b] /\ allowance'[b] = allowance[b]
          /\ b \in buckets' <=> b \in buckets /\ b \notin Dropped
      BY <2>4 DEF LimiterInv, LimiterTypeOK, Admit
    <3>2. b \in Dropped => allowance[b] >= Capacity[b]
      BY DroppedIsFull
    <3>. QED
      BY <2>1, <2>2, <3>1, <3>2 DEF Tracks
  <2>. QED
    BY <2>3, <2>4
<1>. QED
  BY <1>1, <1>2 DEF LimiterInv

\* A new bucket is full, so that only an agent that has a bucket is rejected.
LEMMA RejectKeepsInv ==
  ASSUME LimiterInv, NEW a \in Agents, Reject(a)
  PROVE  LimiterInv'
<1>. USE RateLimiterAssumption
<1>1. LimiterTypeOK'
  <2>1. requests' \in 0..CleanupEvery - 1
    BY CountStays DEF LimiterInv, Reject
  <2>. QED
    BY <2>1 DEF LimiterInv, LimiterTypeOK, Reject
<1>2. ASSUME NEW b \in Agents PROVE Tracks(b)'
  <2>1. /\ tokens[b] \in Nat /\ idle[b] \in Nat /\ allowance[b] \in Int
        /\ Capacity[b] \in Nat \ {0}
    BY DEF LimiterInv, LimiterTypeOK
  <2>2. Tracks(b)
    BY DEF LimiterInv
  <2>3. CASE b = a
    <3>1. b \in buckets /\ tokens[b] < 1
      BY <2>1, <2>3 DEF Reject, Filled
    <3>2. tokens'[b] = tokens[b] /\ idle'[b] = 0 /\ allowance'[b] = allowance[b]
          /\ b \in buckets'
      BY <2>3, <3>1 DEF LimiterInv, LimiterTypeOK, Reject
    <3>. QED
      BY <2>1, <2>2, <3>1, <3>2 DEF Tracks, Capped
  <2>4. CASE b # a
    <3>1. /\ tokens'[b] = tokens[b] /\ idle'[b] = idle[b] /\ allowance'[b] = allowance[b]
          /\ b \in buckets' <=> b \in buckets /\ b \notin Dropped
      BY <2>4 DEF LimiterInv, LimiterTypeOK, Reject
    <3>2. b \in Dropped => allowance[b] >= Capacity[b]
      BY DroppedIsFull
    <3>. QED
      BY <2>1, <2>2, <3>1, <3>2 DEF Tracks
  <2>. QED
    BY <2>3, <2>4
<1>. QED
  BY <1>1, <1>2 DEF LimiterInv

LEMMA PassKeepsInv ==
  ASSUME LimiterInv, NEW a \in Agents, PassOnError(a)
  PROVE  LimiterInv'
<1>. USE RateLimiterAssumption
<1>1. LimiterTypeOK'
  <2>1. requests' \in 0..CleanupEvery - 1
    BY CountStays DEF LimiterInv, PassOnError
  <2>. QED
    BY <2>1 DEF LimiterInv, LimiterTypeOK, PassOnError
<1>2. ASSUME NEW b \in Agents PROVE Tracks(b)'
  <2>1. /\ tokens[b] \in Nat /\ idle[b] \in Nat /\ allowance[b] \in Int
        /\ Capacity[b] \in Nat \ {0}
    BY DEF LimiterInv, LimiterTypeOK
  <2>2. Tracks(b) /\ (b \in Dropped => allowance[b] >= Capacity[b])
    BY DroppedIsFull DEF LimiterInv
  <2>3. /\ tokens'[b] = tokens[b] /\ idle'[b] = idle[b]
        /\ allowance'[b] = IF b = a THEN allowance[b] - 1 ELSE allowance[b]
        /\ b \in buckets' <=> b \in buckets /\ b \notin Dropped
        /\ b = a => b \in Dropped
    BY DEF LimiterInv, LimiterTypeOK, PassOnError
  <2>. QED
    BY <2>1, <2>2, <2>3 DEF Tracks
<1>. QED
  BY <1>1, <1>2 DEF LimiterInv

LEMMA LimiterStepInv == LimiterInv /\ [LimiterNext]_limiterVars => LimiterInv'
<1>. SUFFICES ASSUME LimiterInv, [LimiterNext]_limiterVars PROVE LimiterInv'
  OBVIOUS
<1>1. CASE Second
  BY <1>1, SecondKeepsInv
<1>2. ASSUME NEW a \in Agents, Admit(a) PROVE LimiterInv'
  BY <1>2, AdmitKeepsInv
<1>3. ASSUME NEW a \in Agents, Reject(a) PROVE LimiterInv'
  BY <1>3, RejectKeepsInv
<1>4. ASSUME NEW a \in Agents, PassOnError(a) PROVE LimiterInv'
  BY <1>4, PassKeepsInv
<1>5. CASE UNCHANGED limiterVars
  BY <1>5 DEF limiterVars, LimiterInv, LimiterTypeOK, Tracks
<1>. QED
  BY <1>1, <1>2, <1>3, <1>4, <1>5 DEF LimiterNext

-----------------------------------------------------------------------------
(* The buckets and the counter keep their types and limits, and the inductive *)
(* invariant holds, in every behaviour.                                     *)
THEOREM LimiterInvariant == LimiterSpec => []LimiterInv
BY LimiterInitInv, LimiterStepInv, PTL DEF LimiterSpec

(* Whatever buckets the clean-up drops, the caller's own among them, no    *)
(* agent has ever had more than one request over what a bucket that is     *)
(* never dropped would have admitted (_cleanup_stale_buckets).             *)
THEOREM CleanupCostsOne == LimiterSpec => []AtMostOneOver
<1>1. LimiterInv => AtMostOneOver
  <2>. SUFFICES ASSUME LimiterInv, NEW a \in Agents PROVE allowance[a] >= -1
    BY DEF AtMostOneOver
  <2>. QED
    BY RateLimiterAssumption DEF LimiterInv, LimiterTypeOK, Tracks
<1>. QED
  BY <1>1, LimiterInvariant, PTL

-----------------------------------------------------------------------------
(* CircuitBreaker: after one TTL the kill-switch refuses everywhere, and   *)
(* the POST answers what it set                                            *)

TaskRecords == [at : Points, since : Nat, got : States \cup {NoState},
                set : States \cup {NoState}, disturbed : BOOLEAN]

LEMMA NoTaskIsATask == NoTask \in TaskRecords
  BY DEF NoTask, TaskRecords, NoState, Points

LEMMA OvertakenIsATask ==
  ASSUME BreakerTypeOK, NEW t \in Tasks
  PROVE  Overtaken(t) \in TaskRecords
<1> DEFINE d == task[t].disturbed \/ (t \in Operators /\ task[t].at \in {"updated", "fetch"})
<1>1. d \in BOOLEAN
  OBVIOUS
<1>2. task[t] \in TaskRecords
  BY DEF BreakerTypeOK, TaskRecords
<1>3. Overtaken(t) = [task[t] EXCEPT !.disturbed = d]
  BY Zenon DEF Overtaken
<1> HIDE DEF d
<1> QED
  BY <1>1, <1>2, <1>3 DEF TaskRecords

LEMMA EmptyIsAnEntry == Empty \in [state : States \cup {NoState}, fetched_at : Nat]
  BY DEF Empty, NoState

-----------------------------------------------------------------------------
\* The row, the caches and the tasks keep their types: no handler of
\* mcp-server puts anything but a state into the cache or a verdict.
THEOREM BreakerTypes == BreakerSpec => []BreakerTypeOK
<1> USE TTLAssumption, HomeAssumption DEF BreakerTypeOK, TaskRecords, States, NoState, Points
<1>1. BreakerInit => BreakerTypeOK
  <2> SUFFICES ASSUME BreakerInit PROVE BreakerTypeOK
    OBVIOUS
  <2>1. task \in [Tasks -> TaskRecords]
    BY NoTaskIsATask DEF BreakerInit
  <2>2. cache \in [Processes -> [state : States \cup {NoState}, fetched_at : Nat]]
    BY EmptyIsAnEntry DEF BreakerInit
  <2>3. /\ active \in BOOLEAN
        /\ now \in Nat /\ breakdowns \in Nat /\ sets \in Nat /\ lastOff \in Nat
    BY DEF BreakerInit
  <2> QED
    BY <2>1, <2>2, <2>3
<1>2. BreakerTypeOK /\ [BreakerNext]_breakerVars => BreakerTypeOK'
  <2> SUFFICES ASSUME BreakerTypeOK, [BreakerNext]_breakerVars PROVE BreakerTypeOK'
    OBVIOUS
  <2> USE DEF Tasks
  <2>1. CASE BreakerTick
    BY <2>1 DEF BreakerTick
  <2>2. ASSUME NEW r \in Requests, StartWithCache(r) PROVE BreakerTypeOK'
    <3>1. Verdict(cache[Home[r]].state) \in Points
      BY DEF Verdict
    <3>2. task' = [task EXCEPT ![r] = [@ EXCEPT !.at = Verdict(cache[Home[r]].state),
                                                !.since = now]]
      BY <2>2, Zenon DEF StartWithCache
    <3>3. [task[r] EXCEPT !.at = Verdict(cache[Home[r]].state),
                          !.since = now] \in TaskRecords
      BY <3>1
    <3> QED
      BY <2>2, <3>2, <3>3 DEF StartWithCache
  <2>3. ASSUME NEW r \in Requests, StartWithFetch(r) PROVE BreakerTypeOK'
    <3>1. task' = [task EXCEPT ![r] = [@ EXCEPT !.at = "fetch", !.since = now]]
      BY <2>3, Zenon DEF StartWithFetch
    <3>2. [task[r] EXCEPT !.at = "fetch", !.since = now]
             \in TaskRecords
      OBVIOUS
    <3> QED
      BY <2>3, <3>1, <3>2 DEF StartWithFetch
  <2>4. ASSUME NEW t \in Tasks, ReadRow(t) PROVE BreakerTypeOK'
    BY <2>4 DEF ReadRow, StateOf
  <2>5. ASSUME NEW t \in Tasks, ReadFails(t) PROVE BreakerTypeOK'
    BY <2>5 DEF ReadFails
  <2>6. ASSUME NEW t \in Tasks, StoreState(t) PROVE BreakerTypeOK'
    BY <2>6 DEF StoreState, Stored, Answered, Verdict
  <2>7. ASSUME NEW t \in Tasks, EndTask(t) PROVE BreakerTypeOK'
    BY <2>7 DEF EndTask, NoTask
  <2>8. ASSUME NEW a \in Operators, NEW on \in BOOLEAN, UpdateRow(a, on) PROVE BreakerTypeOK'
    <3>1. [task[a] EXCEPT !.at = "updated", !.set = StateOf(on), !.disturbed = FALSE]
             \in TaskRecords
      BY DEF StateOf
    <3>2. task' \in [Tasks -> TaskRecords]
      BY <2>8, <3>1, OvertakenIsATask DEF UpdateRow
    <3> QED
      BY <2>8, <3>2 DEF UpdateRow, RowSet
  <2>9. ASSUME NEW a \in Operators, NEW on \in BOOLEAN, UpdateFails(a, on) PROVE BreakerTypeOK'
    <3>1. task' \in [Tasks -> TaskRecords]
      BY <2>9, OvertakenIsATask DEF UpdateFails
    <3> QED
      BY <2>9, <3>1 DEF UpdateFails, RowSet
  <2>10. ASSUME NEW a \in Operators, Reread(a) PROVE BreakerTypeOK'
    BY <2>10, EmptyIsAnEntry DEF Reread, Invalidated
  <2>11. ASSUME NEW p \in Processes, Restart(p) PROVE BreakerTypeOK'
    BY <2>11, NoTaskIsATask, EmptyIsAnEntry DEF Restart
  <2>12. CASE UNCHANGED breakerVars
    BY <2>12 DEF breakerVars
  <2> QED
    BY <2>1, <2>2, <2>3, <2>4, <2>5, <2>6, <2>7, <2>8, <2>9, <2>10, <2>11, <2>12
       DEF BreakerNext
<1> QED
  BY <1>1, <1>2, PTL DEF BreakerSpec

-----------------------------------------------------------------------------
(* Why the cache is never wrong for longer than TTL: what is not "on" in it, or *)
(* on its way to it, is dated no later than the last moment the row was off or *)
(* could not be read.                                                          *)
OffIsDated ==
  /\ lastOff <= now
  /\ ~active => lastOff = now
  /\ \A p \in Processes : cache[p].state # "on" => cache[p].fetched_at <= lastOff
  /\ \A t \in Tasks : task[t].at \in {"fetch", "store"} => task[t].since <= now
  /\ \A t \in Tasks : task[t].at = "store" /\ task[t].got # "on" => task[t].since <= lastOff

\* A data request is admitted only when it started less than TTL after the
\* row was off or unreadable, in whatever process it runs: the 5 s cache of
\* _get_circuit_breaker_state never delays the kill-switch for longer, also
\* when the read that filled the cache was slow.
THEOREM RefusedEverywhereAfterTTL == BreakerSpec => []RefusedAfterTTL
<1> USE TTLAssumption, HomeAssumption DEF States, NoState, Points
<1> DEFINE IInv == BreakerTypeOK /\ OffIsDated /\ RefusedAfterTTL
<1>1. BreakerInit => OffIsDated /\ RefusedAfterTTL
  BY DEF BreakerInit, Empty, NoTask, OffIsDated, RefusedAfterTTL, Tasks
<1>2. IInv /\ BreakerTypeOK' /\ [BreakerNext]_breakerVars => (OffIsDated /\ RefusedAfterTTL)'
  <2> SUFFICES ASSUME BreakerTypeOK, OffIsDated, RefusedAfterTTL, BreakerTypeOK',
                      [BreakerNext]_breakerVars
               PROVE  (OffIsDated /\ RefusedAfterTTL)'
    OBVIOUS
  <2> USE DEF BreakerTypeOK, OffIsDated, RefusedAfterTTL, Tasks
  <2>1. CASE BreakerTick
    BY <2>1 DEF BreakerTick
  <2>2. ASSUME NEW r \in Requests, StartWithCache(r)
        PROVE  (OffIsDated /\ RefusedAfterTTL)'
    <3>1. \A u \in Tasks : u # r => task'[u] = task[u]
      BY <2>2 DEF StartWithCache
    <3>2. /\ task'[r].at = Verdict(cache[Home[r]].state)
          /\ task'[r].since = now
      BY <2>2 DEF StartWithCache
    <3>3. Verdict(cache[Home[r]].state) = "admitted" => now < lastOff + TTL
      BY <2>2 DEF StartWithCache, Verdict, Fresh
    <3>4. Verdict(cache[Home[r]].state) \in {"admitted", "refused"}
      BY DEF Verdict
    <3>5. UNCHANGED <<active, cache, now, lastOff>>
      BY <2>2 DEF StartWithCache
    <3>6. OffIsDated'
      BY <3>1, <3>2, <3>4, <3>5
    <3>7. RefusedAfterTTL'
      BY <3>1, <3>2, <3>3, <3>5
    <3> QED
      BY <3>6, <3>7
  <2>3. ASSUME NEW r \in Requests, StartWithFetch(r)
        PROVE  (OffIsDated /\ RefusedAfterTTL)'
    BY <2>3 DEF StartWithFetch
  <2>4. ASSUME NEW t \in Tasks, ReadRow(t) PROVE (OffIsDated /\ RefusedAfterTTL)'
    BY <2>4 DEF ReadRow, StateOf
  <2>5. ASSUME NEW t \in Tasks, ReadFails(t) PROVE (OffIsDated /\ RefusedAfterTTL)'
    BY <2>5 DEF ReadFails
  <2>6. ASSUME NEW t \in Tasks, StoreState(t) PROVE (OffIsDated /\ RefusedAfterTTL)'
    <3>1. \A u \in Tasks : /\ task'[u].since = task[u].since
                           /\ task'[u].got = task[u].got
                           /\ task'[u].at = IF u = t THEN Answered(t, task[t].got)
                                                     ELSE task[u].at
      BY <2>6 DEF StoreState
    <3>2. Answered(t, task[t].got) \in {"admitted", "refused", "answered"}
      BY DEF Answered, Verdict
    <3>3. /\ t \in Requests
          /\ Answered(t, task[t].got) = "admitted"
          => task[t].got = "off" \/ task[t].got = "none"
      BY DEF Answered, Verdict
    <3>4. OffIsDated'
      BY <2>6, <3>1, <3>2 DEF StoreState, Stored
    <3>5. ASSUME NEW r \in Requests, task'[r].at = "admitted"
          PROVE  task'[r].since < lastOff + TTL
      <4>1. CASE r = t
        <5>1. Answered(t, task[t].got) = "admitted" /\ task'[r].since = task[t].since
          BY <3>1, <3>5, <4>1
        <5>2. task[t].got # "on" /\ task[t].at = "store"
          BY <2>6, <3>3, <4>1, <5>1 DEF StoreState
        <5>3. task[t].since <= lastOff /\ task[t].since \in Nat
          BY <5>2
        <5> QED
          BY <5>1, <5>3
      <4>2. CASE r # t
        BY <3>1, <3>5, <4>2
      <4> QED
        BY <4>1, <4>2
    <3>6. lastOff' = lastOff
      BY <2>6 DEF StoreState
    <3> QED
      BY <3>4, <3>5, <3>6
  <2>7. ASSUME NEW t \in Tasks, EndTask(t) PROVE (OffIsDated /\ RefusedAfterTTL)'
    BY <2>7 DEF EndTask, NoTask
  <2>8. ASSUME NEW a \in Operators, NEW on \in BOOLEAN, UpdateRow(a, on)
        PROVE  (OffIsDated /\ RefusedAfterTTL)'
    BY <2>8, TasksAssumption DEF UpdateRow, RowSet, Overtaken, StateOf
  <2>9. ASSUME NEW a \in Operators, NEW on \in BOOLEAN, UpdateFails(a, on)
        PROVE  (OffIsDated /\ RefusedAfterTTL)'
    BY <2>9 DEF UpdateFails, RowSet, Overtaken
  <2>10. ASSUME NEW a \in Operators, Reread(a) PROVE (OffIsDated /\ RefusedAfterTTL)'
    BY <2>10, TasksAssumption DEF Reread, Invalidated, Empty, Fresh
  <2>11. ASSUME NEW p \in Processes, Restart(p) PROVE (OffIsDated /\ RefusedAfterTTL)'
    BY <2>11 DEF Restart, Empty, NoTask
  <2>12. CASE UNCHANGED breakerVars
    BY <2>12 DEF breakerVars
  <2> QED
    BY <2>1, <2>2, <2>3, <2>4, <2>5, <2>6, <2>7, <2>8, <2>9, <2>10, <2>11, <2>12
       DEF BreakerNext
<1> QED
  BY <1>1, <1>2, BreakerTypes, PTL DEF BreakerSpec

-----------------------------------------------------------------------------
\* While an undisturbed POST is between its UPDATE and its answer, the row
\* is what it set, and so is the state it has read.
SetIsRead ==
  \A a \in Operators : ~task[a].disturbed =>
    /\ task[a].at \in {"updated", "fetch"} => StateOf(active) = task[a].set
    /\ task[a].at \in {"store", "answered"} => task[a].got = task[a].set

\* The POST answers, and logs, the state it set, although it reads it back
\* through the cache that other tasks of the process fill: the cache is
\* dropped and asked again without an await in between.
THEOREM PostAnswersWhatItSet == BreakerSpec => []PostReportsItsState
<1> USE HomeAssumption, TasksAssumption DEF States, NoState, Points
<1>1. BreakerInit => SetIsRead
  BY DEF BreakerInit, NoTask, SetIsRead, Tasks
<1>2. SetIsRead /\ BreakerTypeOK /\ [BreakerNext]_breakerVars => SetIsRead'
  <2> SUFFICES ASSUME BreakerTypeOK, SetIsRead, [BreakerNext]_breakerVars PROVE SetIsRead'
    OBVIOUS
  <2> USE DEF BreakerTypeOK, SetIsRead, Tasks, StateOf
  <2>1. CASE BreakerTick
    BY <2>1 DEF BreakerTick
  <2>2. ASSUME NEW r \in Requests, StartWithCache(r) PROVE SetIsRead'
    BY <2>2 DEF StartWithCache, Verdict
  <2>3. ASSUME NEW r \in Requests, StartWithFetch(r) PROVE SetIsRead'
    BY <2>3 DEF StartWithFetch
  <2>4. ASSUME NEW t \in Tasks, ReadRow(t) PROVE SetIsRead'
    BY <2>4 DEF ReadRow
  <2>5. ASSUME NEW t \in Tasks, ReadFails(t) PROVE SetIsRead'
    BY <2>5 DEF ReadFails
  <2>6. ASSUME NEW t \in Tasks, StoreState(t) PROVE SetIsRead'
    BY <2>6 DEF StoreState, Answered, Verdict
  <2>7. ASSUME NEW t \in Tasks, EndTask(t) PROVE SetIsRead'
    BY <2>7 DEF EndTask, NoTask
  <2>8. ASSUME NEW a \in Operators, NEW on \in BOOLEAN, UpdateRow(a, on) PROVE SetIsRead'
    BY <2>8 DEF UpdateRow, RowSet, Overtaken
  <2>9. ASSUME NEW a \in Operators, NEW on \in BOOLEAN, UpdateFails(a, on) PROVE SetIsRead'
    BY <2>9 DEF UpdateFails, RowSet, Overtaken
  <2>10. ASSUME NEW a \in Operators, Reread(a) PROVE SetIsRead'
    BY <2>10 DEF Reread, Invalidated, Empty, Fresh
  <2>11. ASSUME NEW p \in Processes, Restart(p) PROVE SetIsRead'
    BY <2>11 DEF Restart, NoTask
  <2>12. CASE UNCHANGED breakerVars
    BY <2>12 DEF breakerVars
  <2> QED
    BY <2>1, <2>2, <2>3, <2>4, <2>5, <2>6, <2>7, <2>8, <2>9, <2>10, <2>11, <2>12
       DEF BreakerNext
<1>3. SetIsRead => PostReportsItsState
  BY DEF SetIsRead, PostReportsItsState
<1> QED
  BY <1>1, <1>2, <1>3, BreakerTypes, PTL DEF BreakerSpec

=============================================================================
