----------------------------- MODULE Incidents -----------------------------
(***************************************************************************)
(* Privacy incidents (GDPR Art. 33/34): reported, assessed, notified to    *)
(* the authority and to the persons concerned by tools of the MCP server,  *)
(* and watched by the worker's deadline job.  A call is one statement, but *)
(* for an assessment, which reads the row, asks OPA and then writes.       *)
(***************************************************************************)
EXTENDS Integers, Sequences

CONSTANTS
  Incidents,
  Notifiable,  \* those whose risk score reaches the threshold
  Assessments, \* assess_incident calls that may be under way
  NotificationHours, CriticalHours, WarningHours,
  MaxHours,    \* bound on the clock
  MaxChanges   \* bound on the changes of one status

ASSUME IncidentsAssumption ==
  /\ Notifiable \subseteq Incidents
  /\ WarningHours \in Nat /\ CriticalHours \in Nat /\ NotificationHours \in Nat
  /\ WarningHours <= CriticalHours /\ CriticalHours <= NotificationHours

VARIABLES
  hour,
  incident, \* the rows; Unreported for those that are not there
  assess,   \* [Assessments -> the call under way]
  gauge,    \* what the deadline job shows, by severity
  checked   \* when the job last ran

incidentVars == <<hour, incident, assess, gauge, checked>>

Unreported == [status |-> "unreported", detected |-> 0, notifiable |-> "unknown",
               authority |-> FALSE, subject |-> FALSE, history |-> <<>>]
NoAssessment == [of |-> "none", outcome |-> "none"]

Severities == {"warning", "critical", "overdue"}

IncidentsInit ==
  /\ hour = 0
  /\ incident = [i \in Incidents |-> Unreported]
  /\ assess = [a \in Assessments |-> NoAssessment]
  /\ gauge = [s \in Severities |-> {}]
  /\ checked = 0

HourPasses ==
  /\ hour < MaxHours
  /\ hour' = hour + 1
  /\ UNCHANGED <<incident, assess, gauge, checked>>

Reported(i) == incident[i].status # "unreported"

Report(i) ==
  /\ ~Reported(i)
  /\ incident' = [incident EXCEPT ![i] = [Unreported EXCEPT !.status = "detected",
                                                            !.detected = hour]]
  /\ UNCHANGED <<hour, assess, gauge, checked>>

\* track_incident_status: a trigger keeps every change of the status.
WithStatus_Overwritten(row, status) == [row EXCEPT !.status = status, !.history = <<row.status>>]

WithStatus(row, status) ==
  [row EXCEPT !.status = status,
              !.history = IF row.status = status THEN @ ELSE Append(@, row.status)]

MayChange(i) == Reported(i) /\ Len(incident[i].history) < MaxChanges

\* The outcome the admin asks for, or none: then the score decides.
StartAssessment(a, i, outcome) ==
  /\ assess[a] = NoAssessment
  /\ Reported(i)
  /\ assess' = [assess EXCEPT ![a] = [of |-> i, outcome |-> outcome]]
  /\ UNCHANGED <<hour, incident, gauge, checked>>

AssessmentFails(a) ==
  /\ assess[a] # NoAssessment
  /\ assess' = [assess EXCEPT ![a] = NoAssessment]
  /\ UNCHANGED <<hour, incident, gauge, checked>>

\* Whatever the status has become since the row was read.
FinishAssessment(a) ==
  /\ assess[a] # NoAssessment
  /\ MayChange(assess[a].of)
  /\ LET i == assess[a].of
         outcome == assess[a].outcome
         dismissed == outcome = "not notifiable"
         found == IF outcome = "score" THEN i \in Notifiable ELSE outcome = "notifiable"
     IN incident' = [incident EXCEPT ![i] =
          [WithStatus(@, IF dismissed THEN "false_positive" ELSE "under_review")
             EXCEPT !.notifiable = IF found THEN "yes" ELSE "no"]]
  /\ assess' = [assess EXCEPT ![a] = NoAssessment]
  /\ UNCHANGED <<hour, gauge, checked>>

NotifyAuthority(i) ==
  /\ MayChange(i)
  /\ incident' = [incident EXCEPT ![i] =
       [WithStatus(@, "notified_authority") EXCEPT !.authority = TRUE]]
  /\ UNCHANGED <<hour, assess, gauge, checked>>

\* Only the first notification moves the status.
NotifySubject(i) ==
  /\ MayChange(i)
  /\ ~incident[i].subject
  /\ incident' = [incident EXCEPT ![i] =
       [WithStatus(@, "notified_subject") EXCEPT !.subject = TRUE]]
  /\ UNCHANGED <<hour, assess, gauge, checked>>

\* No code sets "contained" or "resolved".
Open ==
  {i \in Incidents : incident[i].status \notin
     {"unreported", "false_positive", "notified_authority", "resolved"}}

Severity(i) ==
  LET age == hour - incident[i].detected
  IN CASE age > NotificationHours -> "overdue"
       [] age > CriticalHours /\ age <= NotificationHours -> "critical"
       [] age > WarningHours /\ age <= CriticalHours /\ incident[i].status = "detected"
            -> "warning"
       [] OTHER -> "none"

CheckDeadlines ==
  /\ checked' = hour
  /\ gauge' = [s \in Severities |-> {i \in Open : Severity(i) = s}]
  /\ UNCHANGED <<hour, incident, assess>>

IncidentsNext ==
  \/ HourPasses \/ CheckDeadlines
  \/ \E i \in Incidents : Report(i) \/ NotifyAuthority(i) \/ NotifySubject(i)
  \/ \E a \in Assessments : AssessmentFails(a) \/ FinishAssessment(a)
  \/ \E a \in Assessments, i \in Incidents, o \in {"score", "notifiable", "not notifiable"} :
       StartAssessment(a, i, o)

IncidentsSpec == IncidentsInit /\ [][IncidentsNext]_incidentVars

-----------------------------------------------------------------------------
(* Properties *)

Outcomes == {"none", "score", "notifiable", "not notifiable"}
IncidentStatuses == {"unreported", "detected", "under_review", "notified_authority",
                     "notified_subject", "false_positive"}

IncidentsTypeOK ==
  /\ hour \in Nat /\ checked \in Nat
  /\ incident \in [Incidents ->
       [status : IncidentStatuses, detected : Nat, notifiable : {"unknown", "yes", "no"},
        authority : BOOLEAN, subject : BOOLEAN, history : Seq(IncidentStatuses)]]
  /\ assess \in [Assessments -> [of : Incidents \cup {"none"}, outcome : Outcomes]]
  /\ gauge \in [Severities -> SUBSET Incidents]

\* The statuses an incident has had.
Course(i) ==
  {incident[i].status} \cup {incident[i].history[k] : k \in DOMAIN incident[i].history}

NotificationsOnRecord ==
  \A i \in Incidents :
    /\ incident[i].authority => "notified_authority" \in Course(i)
    /\ incident[i].subject => "notified_subject" \in Course(i)

NoSilentSlip ==
  \A i \in Incidents :
    /\ Reported(i)
    /\ checked - incident[i].detected > NotificationHours
    /\ ~incident[i].authority
    /\ "false_positive" \notin Course(i)
    => i \in gauge["overdue"]

\* However assessments and notifications overtake one another, a notification that was
\* made stays on record: an assessment begun before it may take the status back, the
\* history still shows it.  Nor does the deadline slip silently: an incident older than
\* the notification deadline when the job last ran is counted as overdue, unless the
\* authority was notified or it was, at some time, dismissed.  Notifying the persons
\* concerned does not close it.
IncidentsStayOnRecord == NotificationsOnRecord /\ NoSilentSlip

=============================================================================
