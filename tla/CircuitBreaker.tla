--------------------------- MODULE CircuitBreaker ----------------------------
(***************************************************************************)
(* The kill-switch of mcp-server: the row pb_circuit_breaker_state, the    *)
(* cache every server process keeps of it for CIRCUIT_BREAKER_CACHE_TTL,   *)
(* the data requests that are refused while it is on, and the              *)
(* administrator's POST /circuit-breaker.                                  *)
(*                                                                         *)
(* A coroutine gives way to the others at each await: a read of the row    *)
(* is a step of its own, and so is what follows its answer.                *)
(***************************************************************************)
EXTENDS Naturals

CONSTANTS
  Processes,     \* server processes, each with its cache
  Requests,      \* tasks that run data tools
  Operators,     \* administrators' tasks that run POST /circuit-breaker
  Home,          \* the process each task runs in
  TTL,           \* CIRCUIT_BREAKER_CACHE_TTL
  MaxNow,        \* bound: ticks of the clock
  MaxBreakdowns, \* bound: reads or updates of the row that fail
  MaxSets        \* bound: updates of the row

Tasks == Requests \cup Operators

ASSUME TasksAssumption == Requests \cap Operators = {}
ASSUME HomeAssumption == Home \in [Tasks -> Processes]
ASSUME TTLAssumption == TTL \in Nat \ {0}

VARIABLES
  active,      \* pb_circuit_breaker_state.active
  cache,       \* _CIRCUIT_BREAKER_CACHE of each process
  task,        \* what each task is doing
  now,         \* the clock
  breakdowns,  \* reads and updates that failed, and restarts
  sets,
  lastOff      \* last moment the row was off or could not be read

breakerVars == <<active, cache, task, now, breakdowns, sets, lastOff>>

States == {"on", "off"}
NoState == "none"
Empty == [state |-> NoState, fetched_at |-> 0]

Points == {"idle", "fetch", "store", "admitted", "refused", "updated", "answered"}

\* since: when the state was asked for; got: the state read; set: the state an
\* administrator's task set; disturbed: another update or a failed read came
\* between.
NoTask == [at |-> "idle", since |-> 0, got |-> NoState, set |-> NoState, disturbed |-> FALSE]

StateOf(b) == IF b THEN "on" ELSE "off"

-----------------------------------------------------------------------------
BreakerInit ==
  /\ active = FALSE
  /\ cache = [p \in Processes |-> Empty]
  /\ task = [t \in Tasks |-> NoTask]
  /\ now = 0
  /\ breakdowns = 0
  /\ sets = 0
  /\ lastOff = 0

BreakerTick ==
  /\ now < MaxNow
  /\ now' = now + 1
  /\ lastOff' = IF active THEN lastOff ELSE now + 1
  /\ UNCHANGED <<active, cache, task, breakdowns, sets>>

\* The test of the cache at the head of _get_circuit_breaker_state.
Fresh(c) == c.state # NoState /\ now < c.fetched_at + TTL

\* What a data request does with the state it was given.
Verdict(state) == IF state = "on" THEN "refused" ELSE "admitted"

\* Where a task is once it has the state, in _dispatch or in the POST handler.
Answered(t, state) == IF t \in Requests THEN Verdict(state) ELSE "answered"

\* A data request arrives and the cache answers.
StartWithCache(r) ==
  /\ task[r].at = "idle"
  /\ Fresh(cache[Home[r]])
  /\ task' = [task EXCEPT ![r].at = Verdict(cache[Home[r]].state),
                          ![r].since = now]
  /\ UNCHANGED <<active, cache, now, breakdowns, sets, lastOff>>

\* A data request arrives and has to read the row.
StartWithFetch(r) ==
  /\ task[r].at = "idle"
  /\ ~Fresh(cache[Home[r]])
  /\ task' = [task EXCEPT ![r].at = "fetch", ![r].since = now]
  /\ UNCHANGED <<active, cache, now, breakdowns, sets, lastOff>>

\* PostgreSQL answers the read.
ReadRow(t) ==
  /\ task[t].at = "fetch"
  /\ task' = [task EXCEPT ![t].at = "store", ![t].got = StateOf(active)]
  /\ UNCHANGED <<active, cache, now, breakdowns, sets, lastOff>>

\* The read fails: fail-open, the state is taken to be off.
ReadFails(t) ==
  /\ task[t].at = "fetch"
  /\ breakdowns < MaxBreakdowns
  /\ breakdowns' = breakdowns + 1
  /\ task' = [task EXCEPT ![t].at = "store", ![t].got = "off",
                          ![t].disturbed = t \in Operators \/ @]
  /\ lastOff' = now
  /\ UNCHANGED <<active, cache, now, sets>>

Stored_AtEnd(t) == [state |-> task[t].got, fetched_at |-> now]

\* The cache entry a fetch leaves: dated from before the read.
Stored(t) == [state |-> task[t].got, fetched_at |-> task[t].since]

\* The task goes on with the answer, which it also puts into the cache.
StoreState(t) ==
  /\ task[t].at = "store"
  /\ cache' = [cache EXCEPT ![Home[t]] = Stored(t)]
  /\ task' = [task EXCEPT ![t].at = Answered(t, task[t].got)]
  /\ UNCHANGED <<active, now, breakdowns, sets, lastOff>>

\* The task is over; the client may send another request.
EndTask(t) ==
  /\ task[t].at \in {"admitted", "refused", "answered"}
  /\ task' = [task EXCEPT ![t] = NoTask]
  /\ UNCHANGED <<active, cache, now, breakdowns, sets, lastOff>>

\* Another administrator's update in flight has been overtaken.
Overtaken(t) ==
  [task[t] EXCEPT !.disturbed = @ \/ (t \in Operators /\ task[t].at \in {"updated", "fetch"})]

RowSet(on) ==
  /\ active' = on
  /\ sets' = sets + 1
  /\ lastOff' = IF on THEN lastOff ELSE now

\* POST /circuit-breaker: the UPDATE commits.
UpdateRow(a, on) ==
  /\ task[a].at = "idle"
  /\ sets < MaxSets
  /\ RowSet(on)
  /\ task' = [t \in Tasks |->
                IF t = a
                THEN [task[a] EXCEPT !.at = "updated", !.set = StateOf(on), !.disturbed = FALSE]
                ELSE Overtaken(t)]
  /\ UNCHANGED <<cache, now, breakdowns>>

\* The UPDATE raises, before or after it took effect; the handler gives up.
UpdateFails(a, on) ==
  /\ task[a].at = "idle"
  /\ breakdowns < MaxBreakdowns
  /\ breakdowns' = breakdowns + 1
  /\ \/ /\ sets < MaxSets
        /\ RowSet(on)
        /\ task' = [t \in Tasks |-> Overtaken(t)]
     \/ UNCHANGED <<active, sets, lastOff, task>>
  /\ UNCHANGED <<cache, now>>

Invalidated_Kept(c) == c

\* _invalidate_circuit_breaker_cache
Invalidated(c) == Empty

\* The handler drops the cache and asks for the state again, without a pause.
Reread(a) ==
  /\ task[a].at = "updated"
  /\ LET c == Invalidated(cache[Home[a]])
     IN  /\ cache' = [cache EXCEPT ![Home[a]] = c]
         /\ task' = [task EXCEPT ![a].since = now,
                                 ![a].got = IF Fresh(c) THEN c.state ELSE @,
                                 ![a].at  = IF Fresh(c) THEN "answered" ELSE "fetch"]
  /\ UNCHANGED <<active, now, breakdowns, sets, lastOff>>

\* A server process restarts: its cache and its tasks are gone.
Restart(p) ==
  /\ breakdowns < MaxBreakdowns
  /\ breakdowns' = breakdowns + 1
  /\ cache' = [cache EXCEPT ![p] = Empty]
  /\ task' = [t \in Tasks |-> IF Home[t] = p THEN NoTask ELSE task[t]]
  /\ UNCHANGED <<active, now, sets, lastOff>>

BreakerNext ==
  \/ BreakerTick
  \/ \E r \in Requests : StartWithCache(r) \/ StartWithFetch(r)
  \/ \E t \in Tasks : ReadRow(t) \/ ReadFails(t) \/ StoreState(t) \/ EndTask(t)
  \/ \E a \in Operators :
       \/ \E on \in BOOLEAN : UpdateRow(a, on) \/ UpdateFails(a, on)
       \/ Reread(a)
  \/ \E p \in Processes : Restart(p)

BreakerSpec == BreakerInit /\ [][BreakerNext]_breakerVars

-----------------------------------------------------------------------------
(* Properties *)

\* The row, the caches and the tasks hold values of their types.
BreakerTypeOK ==
  /\ active \in BOOLEAN
  /\ cache \in [Processes -> [state : States \cup {NoState}, fetched_at : Nat]]
  /\ task \in [Tasks -> [at : Points, since : Nat, got : States \cup {NoState},
                         set : States \cup {NoState}, disturbed : BOOLEAN]]
  /\ now \in Nat
  /\ breakdowns \in Nat
  /\ sets \in Nat
  /\ lastOff \in Nat

\* The kill-switch works everywhere after one TTL: a data request that starts
\* TTL or more after the row was switched on is refused in every process,
\* however slow the reads are that were under way, unless a read failed less
\* than TTL before it.
RefusedAfterTTL ==
  \A r \in Requests : task[r].at = "admitted" => task[r].since < lastOff + TTL

\* The POST answers, and writes to the audit log, the state it set, unless
\* another update or a failed read came between.
PostReportsItsState ==
  \A a \in Operators :
    task[a].at = "answered" /\ ~task[a].disturbed => task[a].got = task[a].set

=============================================================================
