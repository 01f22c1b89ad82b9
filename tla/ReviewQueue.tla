---------------------------- MODULE ReviewQueue ------------------------------
(***************************************************************************)
(* The approval queue of mcp-server: the table pending_reviews, agents     *)
(* whose data requests are queued and who poll for the decision, admins    *)
(* who list and decide, and the worker's hourly sweep of expired rows.     *)
(*                                                                         *)
(* Each SQL statement is one step (autocommit; concurrent UPDATEs of a row *)
(* wait for each other and test status again), and so is the INSERT of the *)
(* audit entry that follows it.  Between two statements of a handler       *)
(* everybody else may move, and the handler may fail.                      *)
(***************************************************************************)
EXTENDS Naturals

CONSTANTS
  Reviews,      \* identifiers of rows
  Agents,       \* agents whose role needs approval for what they ask
  Admins,       \* tasks of admins
  Timeout,      \* pending_review_timeout_minutes
  Grace,        \* PENDING_REVIEW_GRACE_MINUTES
  LastRequest,  \* bound: last tick at which a review is opened
  MaxTime,      \* bound: ticks of the clock
  MaxFailures   \* bound: calls that fail

ASSUME TimesAssumption == Timeout \in Nat \ {0} /\ Grace \in Nat
ASSUME ActorsAssumption == Agents \cap Admins = {}

VARIABLES
  row,       \* pending_reviews
  agent,     \* each agent's call, or the ticket it was given
  polled,    \* what get_review_status last answered the agent about it
  admin,     \* each admin's call
  audit,     \* entries of agent_access_log about a single review
  clock,
  failures

vars == <<row, agent, polled, admin, audit, clock, failures>>

Decisions == {"approved", "denied"}
Statuses == Decisions \cup {"none", "pending", "expired"}
Actors == Agents \cup Admins
Nobody == "nobody"

NoRow == [status |-> "none", agent_id |-> Nobody, expires_at |-> 0,
          decision_by |-> Nobody, decision_at |-> 0]
NoTicket == [at |-> "idle", review |-> {}]
NoCall == [at |-> "idle", review |-> {}, status |-> "none"]

Pending == {r \in Reviews : row[r].status = "pending"}

Entry(act, r, by) == [act |-> act, review |-> r, by |-> by]

-----------------------------------------------------------------------------
Init ==
  /\ row = [r \in Reviews |-> NoRow]
  /\ agent = [g \in Agents |-> NoTicket]
  /\ polled = [g \in Agents |-> "none"]
  /\ admin = [a \in Admins |-> NoCall]
  /\ audit = {}
  /\ clock = 0
  /\ failures = 0

Tick ==
  /\ clock < MaxTime
  /\ clock' = clock + 1
  /\ UNCHANGED <<row, agent, polled, admin, audit, failures>>

Failure == failures < MaxFailures /\ failures' = failures + 1

\* _check_oversight_approval says that approval is required.
Intercept(g) ==
  /\ agent[g].at \in {"idle", "served", "failed", "told"}
  /\ agent' = [agent EXCEPT ![g] = [at |-> "insert", review |-> {}]]
  /\ polled' = [polled EXCEPT ![g] = "none"]
  /\ UNCHANGED <<row, admin, audit, clock, failures>>

\* OPA does not answer: fail-open, the tool runs.
FailOpen(g) ==
  /\ agent[g].at \in {"idle", "served", "failed", "told"}
  /\ Failure
  /\ agent' = [agent EXCEPT ![g] = [at |-> "served", review |-> {}]]
  /\ polled' = [polled EXCEPT ![g] = "none"]
  /\ UNCHANGED <<row, admin, audit, clock>>

NewRow(g) == [status |-> "pending", agent_id |-> g, expires_at |-> clock + Timeout,
              decision_by |-> Nobody, decision_at |-> 0]

\* _create_pending_review; ok is FALSE when the answer of the INSERT is lost.
Insert(g, r, ok) ==
  /\ agent[g].at = "insert"
  /\ clock <= LastRequest
  /\ row[r].status = "none"
  /\ row' = [row EXCEPT ![r] = NewRow(g)]
  /\ agent' = [agent EXCEPT ![g] = IF ok THEN [at |-> "log", review |-> {r}]
                                         ELSE [at |-> "failed", review |-> {}]]
  /\ IF ok THEN UNCHANGED failures ELSE Failure
  /\ UNCHANGED <<polled, admin, audit, clock>>

\* log_access, then the answer {status: pending, review_id}.
GiveTicket(g) ==
  /\ agent[g].at = "log"
  /\ audit' = audit \cup {Entry("pending", r, g) : r \in agent[g].review}
  /\ agent' = [agent EXCEPT ![g].at = "told"]
  /\ UNCHANGED <<row, polled, admin, clock, failures>>

\* A statement raises, or the server stops, in the middle of the handler.
AgentCallFails(g) ==
  /\ agent[g].at \in {"insert", "log"}
  /\ Failure
  /\ agent' = [agent EXCEPT ![g] = [at |-> "failed", review |-> {}]]
  /\ UNCHANGED <<row, polled, admin, audit, clock>>

\* What get_review_status answers; no result is ever among it.
StatusAnswer(r) == row[r].status

\* get_review_status
Poll(g) ==
  /\ agent[g].at = "told"
  /\ \E r \in agent[g].review :
       /\ row[r].agent_id = g
       /\ polled' = [polled EXCEPT ![g] = StatusAnswer(r)]
  /\ UNCHANGED <<row, agent, admin, audit, clock, failures>>

\* review_pending with action list: the admin has seen the open reviews.
List(a) ==
  /\ admin[a].at \in {"idle", "done", "refused", "failed"}
  /\ admin' = [admin EXCEPT ![a] = [at |-> "listed", review |-> Pending, status |-> "none"]]
  /\ UNCHANGED <<row, agent, polled, audit, clock, failures>>

Decidable_Any(r) == row[r].status # "none"

\* WHERE id = ... AND status = 'pending'
Decidable(r) == row[r].status = "pending"

Decided(r, d, a) == [row[r] EXCEPT !.status = d, !.decision_by = a, !.decision_at = clock]

\* review_pending with action approve or deny on a review that was listed; ok
\* is FALSE when the answer of the UPDATE is lost.
Decide(a, r, d, ok) ==
  /\ admin[a].at = "listed"
  /\ r \in admin[a].review
  /\ Decidable(r)
  /\ row' = [row EXCEPT ![r] = Decided(r, d, a)]
  /\ admin' = [admin EXCEPT ![a] = [at |-> IF ok THEN "log" ELSE "failed",
                                    review |-> {r}, status |-> d]]
  /\ IF ok THEN UNCHANGED failures ELSE Failure
  /\ UNCHANGED <<agent, polled, audit, clock>>

\* "review not found or already decided"
Refuse(a, r) ==
  /\ admin[a].at = "listed"
  /\ r \in admin[a].review
  /\ ~Decidable(r)
  /\ admin' = [admin EXCEPT ![a] = [at |-> "refused", review |-> {r}, status |-> "none"]]
  /\ UNCHANGED <<row, agent, polled, audit, clock, failures>>

\* What log_access writes about a decision before it is answered.
DecisionEntries(a) == {Entry(admin[a].status, r, a) : r \in admin[a].review}

AnswerDecision(a) ==
  /\ admin[a].at = "log"
  /\ audit' = audit \cup DecisionEntries(a)
  /\ admin' = [admin EXCEPT ![a].at = "done"]
  /\ UNCHANGED <<row, agent, polled, clock, failures>>

AdminCallFails(a) ==
  /\ admin[a].at \in {"listed", "log"}
  /\ Failure
  /\ admin' = [admin EXCEPT ![a] = [NoCall EXCEPT !.at = "failed"]]
  /\ UNCHANGED <<row, agent, polled, audit, clock>>

\* expires_at < now() - make_interval(mins => grace)
Overdue(r) == row[r].expires_at + Grace < clock

Swept_Ticketed == {r \in Pending : Overdue(r) /\ \E e \in audit : e.review = r}
Swept_All == {r \in Reviews : row[r].status # "none" /\ Overdue(r)}

\* The rows the sweep's UPDATE finds.
Swept == {r \in Pending : Overdue(r)}

\* pending_review_timeout.run; a run that fails changes nothing and the next
\* one comes an hour later.
Sweep ==
  /\ Swept # {}
  /\ row' = [r \in Reviews |->
               IF r \in Swept
               THEN [row[r] EXCEPT !.status = "expired", !.decision_at = clock]
               ELSE row[r]]
  /\ UNCHANGED <<agent, polled, admin, audit, clock, failures>>

Next ==
  \/ Tick
  \/ \E g \in Agents :
       \/ Intercept(g) \/ FailOpen(g) \/ GiveTicket(g) \/ AgentCallFails(g) \/ Poll(g)
       \/ \E r \in Reviews, ok \in BOOLEAN : Insert(g, r, ok)
  \/ \E a \in Admins :
       \/ List(a) \/ AnswerDecision(a) \/ AdminCallFails(a)
       \/ \E r \in Reviews : Refuse(a, r)
       \/ \E r \in Reviews, d \in Decisions, ok \in BOOLEAN : Decide(a, r, d, ok)
  \/ Sweep

Spec == Init /\ [][Next]_vars

\* The scheduler starts the sweep every hour, after a failed run too.
FairSpec == Spec /\ WF_vars(Tick) /\ WF_vars(Sweep)

-----------------------------------------------------------------------------
(* Properties *)

\* Rows, calls and answers hold values of their types.
TypeOK ==
  /\ row \in [Reviews -> [status : Statuses, agent_id : Agents \cup {Nobody},
                          expires_at : Nat, decision_by : Admins \cup {Nobody},
                          decision_at : Nat]]
  /\ agent \in [Agents -> [at : {"idle", "insert", "log", "told", "served", "failed"},
                           review : SUBSET Reviews]]
  /\ polled \in [Agents -> Statuses]
  /\ admin \in [Admins -> [at : {"idle", "listed", "log", "done", "refused", "failed"},
                           review : SUBSET Reviews, status : Statuses]]
  /\ audit \subseteq [act : Statuses, review : Reviews, by : Actors]
  /\ clock \in Nat
  /\ failures \in Nat

\* What an agent or an admin was told stays true: a decision an admin got
\* confirmed, and a final status an agent polled, are what the row says.
AnswersStand ==
  /\ \A a \in Admins : admin[a].at = "done" =>
       \A r \in admin[a].review : /\ row[r].status = admin[a].status
                                  /\ row[r].decision_by = a
  /\ \A g \in Agents : polled[g] \notin {"none", "pending"} =>
       \A r \in agent[g].review : row[r].status = polled[g]

\* The audit log never names two decisions, or two deciders, of one review,
\* and every one it names is the one in the row.
AuditAgrees ==
  \A e \in audit :
    IF e.act = "pending" THEN row[e.review].agent_id = e.by
    ELSE row[e.review].status = e.act /\ row[e.review].decision_by = e.by

\* No review is expired while it may still be decided in time: the whole
\* timeout and the grace period have passed since it was opened.
ExpiredLate ==
  \A r \in Reviews : row[r].status = "expired" =>
    /\ row[r].decision_by = Nobody
    /\ row[r].decision_at > row[r].expires_at + Grace

\* Every review ends, whatever the admins do, the agents forget and the calls
\* that fail leave behind.
EveryReviewEnds == \A r \in Reviews : row[r].status = "pending" ~> row[r].status # "pending"

\* The queue implements "opened once, closed once".
Outcome == INSTANCE ReviewOutcomes WITH outcome <- [r \in Reviews |-> row[r].status]
ImplementsOutcomes == Outcome!Spec

=============================================================================
