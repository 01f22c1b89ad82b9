------------------------- MODULE ReviewQueue_proofs --------------------------
(* For every number of reviews, agents and admins, and every timeout: what    *)
(* was answered and what was logged about a review stays what its row says,   *)
(* and the table implements ReviewOutcomes.                                   *)
EXTENDS ReviewQueue, TLAPS

Rows == [status : Statuses, agent_id : Agents \cup {Nobody}, expires_at : Nat,
         decision_by : Admins \cup {Nobody}, decision_at : Nat]
Tickets == [at : {"idle", "insert", "log", "told", "served", "failed"},
            review : SUBSET Reviews]
Calls == [at : {"idle", "listed", "log", "done", "refused", "failed"},
          review : SUBSET Reviews, status : Statuses]

-----------------------------------------------------------------------------
\* The rows, the calls and the answers keep their types in every handler.
THEOREM TypeCorrect == Spec => []TypeOK
<1> USE TimesAssumption DEF TypeOK, Statuses, Decisions
<1>1. Init => TypeOK
  BY DEF Init, NoRow, NoTicket, NoCall
<1>2. TypeOK /\ [Next]_vars => TypeOK'
  <2> SUFFICES ASSUME TypeOK, [Next]_vars PROVE TypeOK'
    OBVIOUS
  <2>1. CASE Tick
    BY <2>1 DEF Tick
  <2>2. ASSUME NEW g \in Agents, Intercept(g) PROVE TypeOK'
    BY <2>2 DEF Intercept
  <2>3. ASSUME NEW g \in Agents, FailOpen(g) PROVE TypeOK'
    BY <2>3 DEF FailOpen, Failure
  <2>4. ASSUME NEW g \in Agents, NEW r \in Reviews, NEW ok \in BOOLEAN, Insert(g, r, ok)
        PROVE  TypeOK'
    <3>1. NewRow(g) \in Rows
      BY DEF NewRow, Rows
    <3> QED
      BY <2>4, <3>1 DEF Insert, Failure, Rows
  <2>5. ASSUME NEW g \in Agents, GiveTicket(g) PROVE TypeOK'
    BY <2>5 DEF GiveTicket, Entry, Actors
  <2>6. ASSUME NEW g \in Agents, AgentCallFails(g) PROVE TypeOK'
    BY <2>6 DEF AgentCallFails, Failure
  <2>7. ASSUME NEW g \in Agents, Poll(g) PROVE TypeOK'
    BY <2>7 DEF Poll, StatusAnswer
  <2>8. ASSUME NEW a \in Admins, List(a) PROVE TypeOK'
    BY <2>8 DEF List, Pending
  <2>9. ASSUME NEW a \in Admins, AnswerDecision(a) PROVE TypeOK'
    BY <2>9 DEF AnswerDecision, DecisionEntries, Entry, Actors
  <2>10. ASSUME NEW a \in Admins, AdminCallFails(a) PROVE TypeOK'
    BY <2>10 DEF AdminCallFails, Failure, NoCall
  <2>11. ASSUME NEW a \in Admins, NEW r \in Reviews, Refuse(a, r) PROVE TypeOK'
    BY <2>11 DEF Refuse
  <2>12. ASSUME NEW a \in Admins, NEW r \in Reviews, NEW d \in Decisions,
                NEW ok \in BOOLEAN, Decide(a, r, d, ok)
         PROVE  TypeOK'
    <3>1. row[r] \in Rows
      BY DEF Rows
    <3>2. Decided(r, d, a) \in Rows
      BY <3>1 DEF Decided, Rows
    <3> QED
      BY <2>12, <3>2 DEF Decide, Failure, Rows
  <2>13. CASE Sweep
    <3>0. \A r \in Reviews : row[r] \in Rows
      BY DEF Rows
    <3>1. \A r \in Reviews : [row[r] EXCEPT !.status = "expired", !.decision_at = clock] \in Rows
      BY <3>0 DEF Rows
    <3>2. row' \in [Reviews -> Rows]
      BY <2>13, <3>1 DEF Sweep, Rows
    <3> QED
      BY <2>13, <3>2 DEF Sweep, Rows
  <2>14. CASE UNCHANGED vars
    BY <2>14 DEF vars
  <2> QED
    BY <2>1, <2>2, <2>3, <2>4, <2>5, <2>6, <2>7, <2>8, <2>9, <2>10, <2>11, <2>12,
       <2>13, <2>14 DEF Next
<1> QED
  BY <1>1, <1>2, PTL DEF Spec

-----------------------------------------------------------------------------
(* How a row moves: it is opened for one agent, and closed once.              *)
Opened(r) ==
  /\ row[r].status = "none"
  /\ row'[r].status = "pending"

Closed(r) ==
  /\ row[r].status = "pending"
  /\ row'[r].status \in Decisions \cup {"expired"}
  /\ row'[r].agent_id = row[r].agent_id

LEMMA RowMoves ==
  ASSUME TypeOK, [Next]_vars, NEW r \in Reviews
  PROVE  row'[r] = row[r] \/ Opened(r) \/ Closed(r)
<1> USE DEF TypeOK, Opened, Closed
<1>1. CASE Tick \/ UNCHANGED vars
  BY <1>1 DEF Tick, vars
<1>2. ASSUME NEW g \in Agents,
             Intercept(g) \/ FailOpen(g) \/ GiveTicket(g) \/ AgentCallFails(g) \/ Poll(g)
      PROVE  row' = row
  BY <1>2 DEF Intercept, FailOpen, GiveTicket, AgentCallFails, Poll
<1>3. ASSUME NEW g \in Agents, NEW u \in Reviews, NEW ok \in BOOLEAN, Insert(g, u, ok)
      PROVE  row'[r] = row[r] \/ Opened(r)
  BY <1>3 DEF Insert, NewRow
<1>4. ASSUME NEW a \in Admins, List(a) \/ AnswerDecision(a) \/ AdminCallFails(a)
      PROVE  row' = row
  BY <1>4 DEF List, AnswerDecision, AdminCallFails
<1>5. ASSUME NEW a \in Admins, NEW u \in Reviews, Refuse(a, u) PROVE row' = row
  BY <1>5 DEF Refuse
<1>6. ASSUME NEW a \in Admins, NEW u \in Reviews, NEW d \in Decisions,
             NEW ok \in BOOLEAN, Decide(a, u, d, ok)
      PROVE  row'[r] = row[r] \/ Closed(r)
  BY <1>6 DEF Decide, Decided, Decidable
<1>7. CASE Sweep
  <2>1. CASE r \in Swept
    <3>1. row'[r] = [row[r] EXCEPT !.status = "expired", !.decision_at = clock]
      BY <1>7, <2>1 DEF Sweep
    <3>2. row[r].status = "pending"
      BY <2>1 DEF Swept, Pending
    <3> QED
      BY <3>1, <3>2
  <2>2. CASE r \notin Swept
    BY <1>7, <2>2 DEF Sweep
  <2> QED
    BY <2>1, <2>2
<1> QED
  BY <1>1, <1>2, <1>3, <1>4, <1>5, <1>6, <1>7 DEF Next

-----------------------------------------------------------------------------
(* The invariant behind the answers and the audit log: what a handler knows    *)
(* between its UPDATE and its answer is in the row, and final.                 *)
CallsKnow ==
  /\ \A a \in Admins : admin[a].at \in {"log", "done"} =>
       /\ admin[a].status \in Decisions
       /\ \A r \in admin[a].review : /\ row[r].status = admin[a].status
                                     /\ row[r].decision_by = a
  /\ \A g \in Agents : agent[g].at \in {"log", "told"} =>
       /\ \A r \in agent[g].review : row[r].agent_id = g /\ row[r].status # "none"
       /\ \A r, u \in agent[g].review : r = u

LogKnows ==
  \A e \in audit :
    /\ e.act \in Decisions \cup {"pending"}
    /\ e.act = "pending" => /\ row[e.review].status # "none"
                            /\ row[e.review].agent_id = e.by
    /\ e.act # "pending" => /\ row[e.review].status = e.act
                            /\ row[e.review].decision_by = e.by

PollKnows ==
  \A g \in Agents : polled[g] # "none" =>
    /\ agent[g].at = "told"
    /\ polled[g] # "pending" =>
         \A r \in agent[g].review : row[r].status = polled[g]

\* A row that is final stays as it is, and an opened one keeps its owner.
LEMMA RowStable ==
  ASSUME TypeOK, [Next]_vars, NEW r \in Reviews
  PROVE  /\ row[r].status \in Decisions \cup {"expired"} => row'[r] = row[r]
         /\ row[r].status # "none" => /\ row'[r].status # "none"
                                      /\ row'[r].agent_id = row[r].agent_id
  BY RowMoves DEF Opened, Closed, Decisions

LEMMA CallsKnowStep == TypeOK /\ CallsKnow /\ [Next]_vars => CallsKnow'
<1> SUFFICES ASSUME TypeOK, CallsKnow, [Next]_vars PROVE CallsKnow'
  OBVIOUS
<1> USE DEF CallsKnow
<1>0. \A r \in Reviews :
        /\ row[r].status \in Decisions \cup {"expired"} => row'[r] = row[r]
        /\ row[r].status # "none" => /\ row'[r].status # "none"
                                     /\ row'[r].agent_id = row[r].agent_id
  BY RowStable
<1>1. /\ \A a \in Admins : admin[a].review \in SUBSET Reviews
      /\ \A g \in Agents : agent[g].review \in SUBSET Reviews
  BY DEF TypeOK
<1>2. ASSUME UNCHANGED <<agent, admin>> PROVE CallsKnow'
  BY <1>0, <1>1, <1>2
<1>3. ASSUME NEW g \in Agents, admin' = admin,
             \A h \in Agents : h # g => agent'[h] = agent[h],
             agent'[g].at \in {"log", "told"} =>
               /\ \A r \in agent'[g].review : /\ r \in Reviews
                                              /\ row'[r].agent_id = g
                                              /\ row'[r].status # "none"
               /\ \A r, u \in agent'[g].review : r = u
      PROVE  CallsKnow'
  BY <1>0, <1>1, <1>3
<1>4. ASSUME NEW a \in Admins, agent' = agent,
             \A b \in Admins : b # a => admin'[b] = admin[b],
             admin'[a].at \in {"log", "done"} =>
               /\ admin'[a].status \in Decisions
               /\ \A r \in admin'[a].review : /\ r \in Reviews
                                              /\ row'[r].status = admin'[a].status
                                              /\ row'[r].decision_by = a
      PROVE  CallsKnow'
  BY <1>0, <1>1, <1>4
<1> USE DEF TypeOK
<1>5. CASE Tick \/ Sweep \/ UNCHANGED vars
  BY <1>2, <1>5 DEF Tick, Sweep, vars
<1>6. ASSUME NEW g \in Agents, Intercept(g) \/ FailOpen(g) \/ AgentCallFails(g)
      PROVE  CallsKnow'
  <2>1. /\ admin' = admin
        /\ \A h \in Agents : h # g => agent'[h] = agent[h]
        /\ agent'[g].at \notin {"log", "told"}
    BY <1>6 DEF Intercept, FailOpen, AgentCallFails
  <2> QED
    BY <1>3, <2>1
<1>7. ASSUME NEW g \in Agents, GiveTicket(g) PROVE CallsKnow'
  <2>1. /\ admin' = admin
        /\ \A h \in Agents : h # g => agent'[h] = agent[h]
        /\ agent'[g].review = agent[g].review /\ agent[g].at = "log"
        /\ row' = row
    BY <1>7 DEF GiveTicket
  <2> QED
    BY <1>1, <1>3, <2>1
<1>8. ASSUME NEW g \in Agents, Poll(g) PROVE CallsKnow'
  BY <1>2, <1>8 DEF Poll
<1>9. ASSUME NEW g \in Agents, NEW r \in Reviews, NEW ok \in BOOLEAN, Insert(g, r, ok)
      PROVE  CallsKnow'
  <2>1. /\ admin' = admin
        /\ \A h \in Agents : h # g => agent'[h] = agent[h]
        /\ agent'[g].at = "log" => agent'[g].review = {r}
        /\ agent'[g].at \in {"log", "failed"}
    BY <1>9 DEF Insert
  <2>2. row'[r].agent_id = g /\ row'[r].status = "pending"
    BY <1>9 DEF Insert, NewRow
  <2> QED
    BY <1>3, <2>1, <2>2
<1>10. ASSUME NEW a \in Admins, NEW r \in Reviews, Refuse(a, r) PROVE CallsKnow'
  <2>1. /\ agent' = agent
        /\ \A b \in Admins : b # a => admin'[b] = admin[b]
        /\ admin'[a].at \notin {"log", "done"}
    BY <1>10 DEF Refuse
  <2> QED
    BY <1>4, <2>1
<1>11. ASSUME NEW a \in Admins, List(a) \/ AdminCallFails(a) PROVE CallsKnow'
  <2>1. /\ agent' = agent
        /\ \A b \in Admins : b # a => admin'[b] = admin[b]
        /\ admin'[a].at \notin {"log", "done"}
    BY <1>11 DEF List, AdminCallFails, NoCall
  <2> QED
    BY <1>4, <2>1
<1>12. ASSUME NEW a \in Admins, AnswerDecision(a) PROVE CallsKnow'
  <2>1. /\ agent' = agent
        /\ \A b \in Admins : b # a => admin'[b] = admin[b]
        /\ admin'[a].review = admin[a].review /\ admin'[a].status = admin[a].status
        /\ admin[a].at = "log"
        /\ row' = row
    BY <1>12 DEF AnswerDecision
  <2> QED
    BY <1>1, <1>4, <2>1
<1>13. ASSUME NEW a \in Admins, NEW r \in Reviews, NEW d \in Decisions,
              NEW ok \in BOOLEAN, Decide(a, r, d, ok)
       PROVE  CallsKnow'
  <2>1. /\ agent' = agent
        /\ \A b \in Admins : b # a => admin'[b] = admin[b]
        /\ admin'[a].review = {r} /\ admin'[a].status = d
    BY <1>13 DEF Decide
  <2>2. row'[r].status = d /\ row'[r].decision_by = a
    BY <1>13 DEF Decide, Decided
  <2>3. \A u \in admin'[a].review : /\ u \in Reviews
                                    /\ row'[u].status = admin'[a].status
                                    /\ row'[u].decision_by = a
    BY <2>1, <2>2
  <2> QED
    BY <1>4, <2>1, <2>3
<1> QED
  BY <1>5, <1>6, <1>7, <1>8, <1>9, <1>10, <1>11, <1>12, <1>13 DEF Next

LEMMA LogKnowsStep == TypeOK /\ CallsKnow /\ LogKnows /\ [Next]_vars => LogKnows'
<1> SUFFICES ASSUME TypeOK, CallsKnow, LogKnows, [Next]_vars PROVE LogKnows'
  OBVIOUS
<1>1. \A r \in Reviews :
        /\ row[r].status \in Decisions \cup {"expired"} => row'[r] = row[r]
        /\ row[r].status # "none" => /\ row'[r].status # "none"
                                     /\ row'[r].agent_id = row[r].agent_id
  BY RowStable
<1>2. \A e \in audit : e.review \in Reviews
  BY DEF TypeOK
<1>3. ASSUME audit' = audit PROVE LogKnows'
  BY <1>1, <1>2, <1>3 DEF LogKnows
<1>4. ASSUME NEW g \in Agents, GiveTicket(g) PROVE LogKnows'
  <2>1. row' = row /\ audit' = audit \cup {Entry("pending", r, g) : r \in agent[g].review}
    BY <1>4 DEF GiveTicket
  <2>2. \A r \in agent[g].review : row[r].agent_id = g /\ row[r].status # "none"
    BY <1>4 DEF CallsKnow, GiveTicket
  <2> QED
    BY <2>1, <2>2 DEF LogKnows, Entry, Decisions
<1>5. ASSUME NEW a \in Admins, AnswerDecision(a) PROVE LogKnows'
  <2>1. row' = row /\ audit' = audit \cup {Entry(admin[a].status, r, a) : r \in admin[a].review}
    BY <1>5 DEF AnswerDecision, DecisionEntries
  <2>2. /\ admin[a].status \in Decisions
        /\ \A r \in admin[a].review : /\ row[r].status = admin[a].status
                                      /\ row[r].decision_by = a
    BY <1>5 DEF CallsKnow, AnswerDecision
  <2> QED
    BY <2>1, <2>2 DEF LogKnows, Entry, Decisions
<1> QED
  BY <1>3, <1>4, <1>5
     DEF Next, vars, Tick, Intercept, FailOpen, AgentCallFails, Poll, Insert, List,
         AdminCallFails, Refuse, Decide, Sweep

LEMMA PollKnowsStep == TypeOK /\ CallsKnow /\ PollKnows /\ [Next]_vars => PollKnows'
<1> SUFFICES ASSUME TypeOK, CallsKnow, PollKnows, [Next]_vars PROVE PollKnows'
  OBVIOUS
<1>1. \A r \in Reviews : row[r].status \in Decisions \cup {"expired"} => row'[r] = row[r]
  BY RowStable
<1>2. /\ \A g \in Agents : agent[g].review \in SUBSET Reviews
      /\ \A g \in Agents : polled[g] \in Statuses
      /\ \A r \in Reviews : row[r].status \in Statuses
  BY DEF TypeOK
<1> USE DEF PollKnows, Statuses
<1>3. ASSUME polled' = polled, agent' = agent PROVE PollKnows'
  BY <1>1, <1>2, <1>3
<1>4. ASSUME NEW g \in Agents, Intercept(g) \/ FailOpen(g) PROVE PollKnows'
  <2>1. /\ polled'[g] = "none"
        /\ \A h \in Agents : h # g => agent'[h] = agent[h] /\ polled'[h] = polled[h]
    BY <1>4 DEF Intercept, FailOpen, TypeOK
  <2> QED
    BY <1>1, <1>2, <2>1
<1>5. ASSUME NEW g \in Agents, agent[g].at # "told", polled' = polled,
             \A h \in Agents : h # g => agent'[h] = agent[h]
      PROVE  PollKnows'
  BY <1>1, <1>2, <1>5
<1>6. ASSUME NEW g \in Agents, GiveTicket(g) \/ AgentCallFails(g) PROVE PollKnows'
  <2>1. /\ agent[g].at # "told" /\ polled' = polled
        /\ \A h \in Agents : h # g => agent'[h] = agent[h]
    BY <1>6 DEF GiveTicket, AgentCallFails, TypeOK
  <2> QED
    BY <1>5, <2>1
<1>7. ASSUME NEW g \in Agents, NEW r \in Reviews, NEW ok \in BOOLEAN, Insert(g, r, ok)
      PROVE  PollKnows'
  <2>1. /\ agent[g].at # "told" /\ polled' = polled
        /\ \A h \in Agents : h # g => agent'[h] = agent[h]
    BY <1>7 DEF Insert, TypeOK
  <2> QED
    BY <1>5, <2>1
<1>8. ASSUME NEW g \in Agents, Poll(g) PROVE PollKnows'
  <2>1. PICK r \in agent[g].review : polled' = [polled EXCEPT ![g] = StatusAnswer(r)]
    BY <1>8 DEF Poll
  <2>2. agent[g].at = "told" /\ agent' = agent /\ row' = row
    BY <1>8 DEF Poll
  <2>3. polled'[g] = row[r].status /\ \A h \in Agents : h # g => polled'[h] = polled[h]
    BY <2>1 DEF StatusAnswer, TypeOK
  <2>4. \A u \in agent[g].review : u = r
    BY <2>2 DEF CallsKnow
  <2> QED
    BY <1>1, <1>2, <2>2, <2>3, <2>4
<1> QED
  BY <1>3, <1>4, <1>6, <1>7, <1>8
     DEF Next, vars, Tick, List, AnswerDecision, AdminCallFails, Refuse, Decide, Sweep

LEMMA AllKnow == Spec => [](CallsKnow /\ LogKnows /\ PollKnows)
<1>1. Init => CallsKnow /\ LogKnows /\ PollKnows
  BY DEF Init, CallsKnow, LogKnows, PollKnows, NoCall, NoTicket
<1>2. /\ CallsKnow /\ LogKnows /\ PollKnows /\ TypeOK /\ [Next]_vars
      => (CallsKnow /\ LogKnows /\ PollKnows)'
  BY CallsKnowStep, LogKnowsStep, PollKnowsStep
<1> QED
  BY <1>1, <1>2, TypeCorrect, PTL DEF Spec

-----------------------------------------------------------------------------
\* A decision that review_pending confirmed, and a final status that
\* get_review_status answered, stay what the row says: no other admin and no
\* sweep replaces them.
THEOREM AnswersAlwaysStand == Spec => []AnswersStand
<1>1. CallsKnow /\ PollKnows => AnswersStand
  BY DEF CallsKnow, PollKnows, AnswersStand
<1> QED
  BY <1>1, AllKnow, PTL

\* The audit log names at most one decision and one decider of a review, the
\* one in pending_reviews.
THEOREM AuditAlwaysAgrees == Spec => []AuditAgrees
<1>1. LogKnows => AuditAgrees
  BY DEF LogKnows, AuditAgrees
<1> QED
  BY <1>1, AllKnow, PTL

-----------------------------------------------------------------------------
\* The sweep expires no review before its timeout and the grace period are
\* over, and none that was decided.
THEOREM AlwaysExpiredLate == Spec => []ExpiredLate
<1> DEFINE Undecided == \A r \in Reviews : row[r].status = "pending" => row[r].decision_by = Nobody
<1>1. Init => Undecided /\ ExpiredLate
  BY DEF Init, NoRow, ExpiredLate
<1>2. TypeOK /\ Undecided /\ ExpiredLate /\ [Next]_vars => (Undecided /\ ExpiredLate)'
  <2> SUFFICES ASSUME TypeOK, Undecided, ExpiredLate, [Next]_vars
               PROVE  (Undecided /\ ExpiredLate)'
    OBVIOUS
  <2> USE DEF ExpiredLate
  <2>1. ASSUME row' = row PROVE (Undecided /\ ExpiredLate)'
    BY <2>1
  <2>2. ASSUME NEW g \in Agents, NEW r \in Reviews, NEW ok \in BOOLEAN, Insert(g, r, ok)
        PROVE  (Undecided /\ ExpiredLate)'
    BY <2>2 DEF Insert, NewRow, TypeOK
  <2>3. ASSUME NEW a \in Admins, NEW r \in Reviews, NEW d \in Decisions,
               NEW ok \in BOOLEAN, Decide(a, r, d, ok)
        PROVE  (Undecided /\ ExpiredLate)'
    BY <2>3 DEF Decide, Decided, Decidable, Decisions, TypeOK
  <2>4. CASE Sweep
    <3>1. \A r \in Reviews : r \in Swept => /\ row[r].status = "pending"
                                            /\ row[r].expires_at + Grace < clock
      BY DEF Swept, Pending, Overdue
    <3>2. \A r \in Reviews : IF r \in Swept
                             THEN /\ row'[r].status = "expired"
                                  /\ row'[r].decision_at = clock
                                  /\ row'[r].decision_by = row[r].decision_by
                                  /\ row'[r].expires_at = row[r].expires_at
                             ELSE row'[r] = row[r]
      BY <2>4 DEF Sweep, TypeOK
    <3> QED
      BY <3>1, <3>2, TimesAssumption DEF TypeOK
  <2> QED
    BY <2>1, <2>2, <2>3, <2>4
       DEF Next, vars, Tick, Intercept, FailOpen, AgentCallFails, GiveTicket, Poll, List,
           AdminCallFails, AnswerDecision, Refuse
<1> QED
  BY <1>1, <1>2, TypeCorrect, PTL DEF Spec

-----------------------------------------------------------------------------
\* pending_reviews implements the abstract queue: every statement opens one
\* review, closes pending ones with one outcome, or changes none.
THEOREM QueueImplementsOutcomes == Spec => ImplementsOutcomes
<1> DEFINE status == [r \in Reviews |-> row[r].status]
<1>1. Init => Outcome!Init
  BY DEF Init, Outcome!Init, NoRow
<1>2. TypeOK /\ [Next]_vars => [Outcome!Next]_status
  <2> SUFFICES ASSUME TypeOK, [Next]_vars PROVE [Outcome!Next]_status
    OBVIOUS
  <2> USE DEF Outcome!Next, Outcome!Outcomes
  <2>1. ASSUME row' = row PROVE [Outcome!Next]_status
    BY <2>1
  <2>2. ASSUME NEW g \in Agents, NEW r \in Reviews, NEW ok \in BOOLEAN, Insert(g, r, ok)
        PROVE  Outcome!Open(r)
    <3>1. /\ row[r].status = "none" /\ row'[r].status = "pending"
          /\ \A u \in Reviews : u # r => row'[u] = row[u]
      BY <2>2 DEF Insert, NewRow, TypeOK
    <3> QED
      BY <3>1 DEF Outcome!Open
  <2>3. ASSUME NEW a \in Admins, NEW r \in Reviews, NEW d \in Decisions,
               NEW ok \in BOOLEAN, Decide(a, r, d, ok)
        PROVE  Outcome!Close({r}, d)
    <3>1. /\ row[r].status = "pending" /\ row'[r].status = d
          /\ \A u \in Reviews : u # r => row'[u] = row[u]
      BY <2>3 DEF Decide, Decided, Decidable, TypeOK
    <3> QED
      BY <3>1 DEF Outcome!Close
  <2>4. CASE Sweep
    <3>1. /\ Swept \in SUBSET Reviews
          /\ \A r \in Swept : row[r].status = "pending"
      BY DEF Swept, Pending
    <3>2. \A r \in Reviews : IF r \in Swept THEN row'[r].status = "expired"
                                            ELSE row'[r] = row[r]
      BY <2>4 DEF Sweep, TypeOK
    <3>3. Outcome!Close(Swept, "expired")
      BY <3>1, <3>2 DEF Outcome!Close
    <3> QED
      BY <3>1, <3>3
  <2>5. \A d \in Decisions : d \in {"approved", "denied", "expired"}
    BY DEF Decisions
  <2> QED
    BY <2>1, <2>2, <2>3, <2>4, <2>5
       DEF Next, vars, Tick, Intercept, FailOpen, AgentCallFails, GiveTicket, Poll, List,
           AdminCallFails, AnswerDecision, Refuse
<1> QED
  BY <1>1, <1>2, TypeCorrect, PTL DEF Spec, ImplementsOutcomes, Outcome!Spec

=============================================================================
