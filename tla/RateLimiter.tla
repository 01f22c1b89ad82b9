---------------------------- MODULE RateLimiter ----------------------------
(***************************************************************************)
(* The MCP server's token buckets, one per agent.  A tick is the time one  *)
(* token takes to come back, so that a bucket of n tokens is full again    *)
(* after n ticks.  Every CleanupEvery requests, buckets that were idle for *)
(* longer than IdleLimit are dropped.  A request is one step: nothing in   *)
(* it gives way to another.                                                *)
(***************************************************************************)
EXTENDS Integers

CONSTANTS
  Agents,
  Capacity,     \* [Agents -> Nat]: requests a minute, by role
  IdleLimit,    \* 600 seconds in ticks: ten times what a bucket takes to fill
  CleanupEvery  \* 100 requests

ASSUME RateLimiterAssumption ==
  /\ Capacity \in [Agents -> Nat \ {0}]
  /\ IdleLimit \in Nat
  /\ \A a \in Agents : Capacity[a] <= IdleLimit
  /\ CleanupEvery \in Nat \ {0}

VARIABLES
  buckets,  \* the agents that have a bucket
  tokens,   \* [Agents -> what is in it]
  idle,     \* [Agents -> ticks since its last request]
  requests, \* since the last clean-up
  allowance \* [Agents -> what a bucket nobody drops would hold]

limiterVars == <<buckets, tokens, idle, requests, allowance>>

LimiterInit ==
  /\ buckets = {}
  /\ tokens = Capacity
  /\ idle = [a \in Agents |-> 0]
  /\ requests = 0
  /\ allowance = Capacity

Capped(n, limit) == IF n < limit THEN n ELSE limit

\* The refill is made up at the next request; idle is not counted past the limit.
Second ==
  /\ tokens' = [a \in Agents |-> Capped(tokens[a] + 1, Capacity[a])]
  /\ allowance' = [a \in Agents |-> Capped(allowance[a] + 1, Capacity[a])]
  /\ idle' = [a \in Agents |-> Capped(idle[a] + 1, IdleLimit + 1)]
  /\ UNCHANGED <<buckets, requests>>

Stale_Refilling(a) == idle[a] > 0
Stale(a) == idle[a] > IdleLimit

\* A new bucket is full.
Filled(a) == IF a \in buckets THEN tokens[a] ELSE Capacity[a]

Cleans == requests + 1 >= CleanupEvery
CountRequest == requests' = IF Cleans THEN 0 ELSE requests + 1

\* The clean-up runs after the caller's bucket was looked up and before it is used: an
\* old bucket of the caller's goes too.
Dropped == IF Cleans THEN {b \in buckets : Stale(b)} ELSE {}

Admit(a) ==
  /\ a \notin Dropped
  /\ Filled(a) >= 1
  /\ CountRequest
  /\ buckets' = (buckets \cup {a}) \ Dropped
  /\ tokens' = [tokens EXCEPT ![a] = Filled(a) - 1]
  /\ idle' = [idle EXCEPT ![a] = 0]
  /\ allowance' = [allowance EXCEPT ![a] = @ - 1]

Reject(a) ==
  /\ a \notin Dropped
  /\ Filled(a) < 1
  /\ CountRequest
  /\ buckets' = (buckets \cup {a}) \ Dropped
  /\ idle' = [idle EXCEPT ![a] = 0]
  /\ UNCHANGED <<tokens, allowance>>

\* The bucket is not there any more: KeyError, and the request passes unmetered.
PassOnError(a) ==
  /\ a \in Dropped
  /\ CountRequest
  /\ buckets' = buckets \ Dropped
  /\ allowance' = [allowance EXCEPT ![a] = @ - 1]
  /\ UNCHANGED <<tokens, idle>>

LimiterNext == Second \/ \E a \in Agents : Admit(a) \/ Reject(a) \/ PassOnError(a)

LimiterSpec == LimiterInit /\ [][LimiterNext]_limiterVars

-----------------------------------------------------------------------------
(* Properties *)

LimiterTypeOK ==
  /\ buckets \subseteq Agents
  /\ tokens \in [Agents -> Nat] /\ idle \in [Agents -> 0..IdleLimit + 1]
  /\ \A a \in Agents : tokens[a] <= Capacity[a]
  /\ requests \in 0..CleanupEvery - 1
  /\ allowance \in [Agents -> Int]

\* Dropping buckets, and passing the request whose own bucket was dropped, never lets an
\* agent have more than one request over what one bucket kept for ever would allow.
AtMostOneOver == \A a \in Agents : allowance[a] >= -1

=============================================================================
