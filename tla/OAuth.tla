------------------------------- MODULE OAuth -------------------------------
(***************************************************************************)
(* One login at the MCP server's OAuth provider: the session, its code,    *)
(* the tokens it is exchanged for, refreshes, revocation, clean-up and     *)
(* restarts.  Sessions, codes and access tokens are kept in memory, the    *)
(* refresh token in PostgreSQL.  Handlers give way to others at each       *)
(* statement; between two statements they do not.  All identifiers are     *)
(* random, so that logins have nothing in common.                          *)
(***************************************************************************)
EXTENDS Integers

CONSTANTS
  Submits,     \* submissions of the login form that may be under way at once
  Refreshes,   \* refresh requests that may be
  LoginTTL, CodeTTL, AccessTTL, RefreshTTL,
  MaxDelay,    \* the longest an answered token waits to be stored
  MaxNow,      \* bound on the clock
  MaxRestarts, \* bound
  MaxFailures  \* bound on failed statements

ASSUME OAuthAssumption ==
  /\ {LoginTTL, CodeTTL, AccessTTL, RefreshTTL} \subseteq Nat \ {0}
  /\ MaxDelay \in Nat

VARIABLES
  clock,
  session,  \* when the pending login was created; None: not there
  opened,   \* the login was started
  submit,   \* [Submits -> where the form's handler is]
  code,     \* when the authorization code expires
  codes,    \* how many were issued
  exchange, \* where the exchange of the code is, and when it started
  grants,   \* how many exchanges were answered with tokens
  access,   \* the expiry times of the access tokens
  row,      \* expires_at of the refresh token's row
  refresh,  \* [Refreshes -> where the request is]
  revoke,   \* where the revocation is
  sweep,    \* the time the clean-up under way started at
  used,     \* the latest time a token was answered for
  spoiled,  \* what keeps the row from being as answered
  restarts, failures

oauthVars == <<clock, session, opened, submit, code, codes, exchange, grants, access, row,
               refresh, revoke, sweep, used, spoiled, restarts, failures>>

None == -1
IdleRefresh == [at |-> "idle", seen |-> None, start |-> 0]
IdleExchange == [at |-> "idle", start |-> 0]

OAuthInit ==
  /\ clock = 0
  /\ session = None /\ opened = FALSE
  /\ submit = [s \in Submits |-> "idle"]
  /\ code = None /\ codes = 0
  /\ exchange = IdleExchange
  /\ grants = 0
  /\ access = {}
  /\ row = None
  /\ refresh = [r \in Refreshes |-> IdleRefresh]
  /\ revoke = "none"
  /\ sweep = None
  /\ used = 0
  /\ spoiled = {}
  /\ restarts = 0 /\ failures = 0

Waits(request) == request.at = "storing" => clock < request.start + MaxDelay

OAuthTick ==
  /\ clock < MaxNow
  /\ Waits(exchange)
  /\ \A r \in Refreshes : Waits(refresh[r])
  /\ clock' = clock + 1
  /\ UNCHANGED <<session, opened, submit, code, codes, exchange, grants, access, row, refresh,
                 revoke, sweep, used, spoiled, restarts, failures>>

Fail == failures < MaxFailures /\ failures' = failures + 1

-----------------------------------------------------------------------------
(* Login *)

Authorize ==
  /\ ~opened
  /\ opened' = TRUE
  /\ session' = clock
  /\ UNCHANGED <<clock, submit, code, codes, exchange, grants, access, row, refresh, revoke,
                 sweep, used, spoiled, restarts, failures>>

\* A session counts while it is there: its age is only looked at by the clean-up.
SubmitKey(s) ==
  /\ submit[s] = "idle"
  /\ session # None
  /\ submit' = [submit EXCEPT ![s] = "verifying"]
  /\ UNCHANGED <<clock, session, opened, code, codes, exchange, grants, access, row, refresh,
                 revoke, sweep, used, spoiled, restarts, failures>>

\* The key is unknown: the form is shown again.
RefuseKey(s) ==
  /\ submit[s] = "verifying"
  /\ submit' = [submit EXCEPT ![s] = "idle"]
  /\ UNCHANGED <<clock, session, opened, code, codes, exchange, grants, access, row, refresh,
                 revoke, sweep, used, spoiled, restarts, failures>>

\* The session may be gone by now: `del` raises, and the second submit gets an error.
IssueCode_Popped(s) ==
  /\ submit[s] = "verifying"
  /\ submit' = [submit EXCEPT ![s] = "idle"]
  /\ session' = None
  /\ code' = clock + CodeTTL
  /\ codes' = codes + 1
  /\ UNCHANGED <<clock, opened, exchange, grants, access, row, refresh, revoke, sweep, used,
                 spoiled, restarts, failures>>

IssueCode(s) ==
  /\ submit[s] = "verifying"
  /\ submit' = [submit EXCEPT ![s] = "idle"]
  /\ IF session = None
     THEN UNCHANGED <<session, code, codes>>
     ELSE session' = None /\ code' = clock + CodeTTL /\ codes' = codes + 1
  /\ UNCHANGED <<clock, opened, exchange, grants, access, row, refresh, revoke, sweep, used,
                 spoiled, restarts, failures>>

-----------------------------------------------------------------------------
(* Code and refresh token *)

\* Loading the code, the checks of the token endpoint, and taking it are one step.
ExchangeCode ==
  /\ code # None
  /\ exchange.at = "idle"
  /\ code' = None
  /\ IF code < clock
     THEN UNCHANGED <<access, exchange>>
     ELSE /\ access' = access \cup {clock + AccessTTL}
          /\ exchange' = [at |-> "storing", start |-> clock]
  /\ UNCHANGED <<clock, session, opened, submit, codes, grants, row, refresh, revoke, sweep,
                 used, spoiled, restarts, failures>>

Later(t, u) == IF t < u THEN u ELSE t

StoreGrant ==
  /\ exchange.at = "storing"
  /\ row' = exchange.start + RefreshTTL
  /\ used' = exchange.start
  /\ grants' = grants + 1
  /\ exchange' = IdleExchange
  /\ UNCHANGED <<clock, session, opened, submit, code, codes, access, refresh, revoke, sweep,
                 spoiled, restarts, failures>>

\* The client gets an error; the access token nobody knows stays until it expires.
StoreGrantFails ==
  /\ exchange.at = "storing"
  /\ Fail
  /\ exchange' = IdleExchange
  /\ UNCHANGED <<clock, session, opened, submit, code, codes, grants, access, row, refresh,
                 revoke, sweep, used, spoiled, restarts>>

ReadRow_Remembered(r) ==
  /\ grants > 0
  /\ refresh[r].at = "idle"
  /\ refresh' = [refresh EXCEPT ![r].at = "read", ![r].seen = used + RefreshTTL]
  /\ UNCHANGED <<clock, session, opened, submit, code, codes, exchange, grants, access, row,
                 revoke, sweep, used, spoiled, restarts, failures>>

ReadRow(r) ==
  /\ grants > 0
  /\ refresh[r].at = "idle"
  /\ row # None
  /\ refresh' = [refresh EXCEPT ![r].at = "read", ![r].seen = row]
  /\ UNCHANGED <<clock, session, opened, submit, code, codes, exchange, grants, access, row,
                 revoke, sweep, used, spoiled, restarts, failures>>

\* The new access token is there before the row is written.
GrantAccess(r) ==
  /\ refresh[r].at = "read"
  /\ refresh[r].seen >= clock
  /\ access' = access \cup {clock + AccessTTL}
  /\ refresh' = [refresh EXCEPT ![r].at = "storing", ![r].start = clock]
  /\ UNCHANGED <<clock, session, opened, submit, code, codes, exchange, grants, row, revoke,
                 sweep, used, spoiled, restarts, failures>>

FindExpired(r) ==
  /\ refresh[r].at = "read"
  /\ refresh[r].seen < clock
  /\ refresh' = [refresh EXCEPT ![r].at = "deleting"]
  /\ UNCHANGED <<clock, session, opened, submit, code, codes, exchange, grants, access, row,
                 revoke, sweep, used, spoiled, restarts, failures>>

\* The upsert moves the expiry, and puts back a row deleted meanwhile.
SlideExpiry_Kept(r) ==
  /\ refresh[r].at = "storing"
  /\ row' = row
  /\ used' = Later(used, refresh[r].start)
  /\ refresh' = [refresh EXCEPT ![r] = IdleRefresh]
  /\ UNCHANGED <<clock, session, opened, submit, code, codes, exchange, grants, access, revoke,
                 sweep, spoiled, restarts, failures>>

SlideExpiry(r) ==
  /\ refresh[r].at = "storing"
  /\ row' = refresh[r].start + RefreshTTL
  /\ used' = Later(used, refresh[r].start)
  /\ refresh' = [refresh EXCEPT ![r] = IdleRefresh]
  /\ UNCHANGED <<clock, session, opened, submit, code, codes, exchange, grants, access, revoke,
                 sweep, spoiled, restarts, failures>>

\* By token alone: whatever expiry the row has by now.
DeleteExpired(r) ==
  /\ refresh[r].at = "deleting"
  /\ spoiled' = IF row > refresh[r].seen THEN spoiled \cup {"expiry"} ELSE spoiled
  /\ row' = None
  /\ refresh' = [refresh EXCEPT ![r] = IdleRefresh]
  /\ UNCHANGED <<clock, session, opened, submit, code, codes, exchange, grants, access, revoke,
                 sweep, used, restarts, failures>>

\* An error at the row: invalid_grant, or 500 once an access token was made.
RefreshFails(r) ==
  /\ refresh[r].at \in {"storing", "deleting"}
  /\ Fail
  /\ refresh' = [refresh EXCEPT ![r] = IdleRefresh]
  /\ UNCHANGED <<clock, session, opened, submit, code, codes, exchange, grants, access, row,
                 revoke, sweep, used, spoiled, restarts>>

-----------------------------------------------------------------------------
(* Revocation, expiry and restart *)

\* The endpoint loads the token first: an expired one is not revoked.
StartRevocation ==
  /\ grants > 0
  /\ revoke = "none"
  /\ row >= clock
  /\ revoke' = "deleting"
  /\ UNCHANGED <<clock, session, opened, submit, code, codes, exchange, grants, access, row,
                 refresh, sweep, used, spoiled, restarts, failures>>

\* A refresh that has read the row may put it back.
DeleteRevoked ==
  /\ revoke = "deleting"
  /\ row' = None
  /\ revoke' = "answered"
  /\ spoiled' = IF \E r \in Refreshes : refresh[r].at \in {"read", "storing"}
                THEN spoiled \cup {"revocation"} ELSE spoiled
  /\ UNCHANGED <<clock, session, opened, submit, code, codes, exchange, grants, access,
                 refresh, sweep, used, restarts, failures>>

\* The error is logged and the client told that the token is revoked.
RevocationFails ==
  /\ revoke = "deleting"
  /\ Fail
  /\ revoke' = "answered"
  /\ spoiled' = spoiled \cup {"revocation"}
  /\ UNCHANGED <<clock, session, opened, submit, code, codes, exchange, grants, access, row,
                 refresh, sweep, used, restarts>>

CleanMemory ==
  /\ sweep = None
  /\ session' = IF session # None /\ clock - session < LoginTTL THEN session ELSE None
  /\ code' = IF code > clock THEN code ELSE None
  /\ access' = {t \in access : t > clock}
  /\ sweep' = clock
  /\ UNCHANGED <<clock, opened, submit, codes, exchange, grants, row, refresh, revoke, used,
                 spoiled, restarts, failures>>

CleanRows ==
  /\ sweep # None
  /\ row' = IF row < sweep THEN None ELSE row
  /\ sweep' = None
  /\ UNCHANGED <<clock, session, opened, submit, code, codes, exchange, grants, access, refresh,
                 revoke, used, spoiled, restarts, failures>>

\* load_access_token drops what it finds expired.
DropAccess ==
  /\ \E t \in access : t < clock /\ access' = access \ {t}
  /\ UNCHANGED <<clock, session, opened, submit, code, codes, exchange, grants, row, refresh,
                 revoke, sweep, used, spoiled, restarts, failures>>

Restart ==
  /\ restarts < MaxRestarts
  /\ restarts' = restarts + 1
  /\ session' = None /\ code' = None /\ access' = {}
  /\ submit' = [s \in Submits |-> "idle"]
  /\ exchange' = IdleExchange
  /\ refresh' = [r \in Refreshes |-> IdleRefresh]
  /\ revoke' = IF revoke = "deleting" THEN "none" ELSE revoke
  /\ sweep' = None
  /\ UNCHANGED <<clock, opened, codes, grants, row, used, spoiled, failures>>

OAuthNext ==
  \/ OAuthTick \/ Authorize \/ ExchangeCode \/ StoreGrant \/ StoreGrantFails
  \/ \E s \in Submits : SubmitKey(s) \/ RefuseKey(s) \/ IssueCode(s)
  \/ \E r \in Refreshes :
       \/ ReadRow(r) \/ GrantAccess(r) \/ FindExpired(r) \/ SlideExpiry(r)
       \/ DeleteExpired(r) \/ RefreshFails(r)
  \/ StartRevocation \/ DeleteRevoked \/ RevocationFails
  \/ CleanMemory \/ CleanRows \/ DropAccess \/ Restart

OAuthSpec == OAuthInit /\ [][OAuthNext]_oauthVars

-----------------------------------------------------------------------------
(* Properties *)

Times == Nat \cup {None}

OAuthTypeOK ==
  /\ clock \in Nat /\ used \in Nat /\ codes \in Nat /\ grants \in Nat
  /\ restarts \in Nat /\ failures \in Nat
  /\ {session, code, row, sweep} \subseteq Times
  /\ opened \in BOOLEAN
  /\ submit \in [Submits -> {"idle", "verifying"}]
  /\ exchange \in [at : {"idle", "storing"}, start : Nat]
  /\ access \subseteq Nat
  /\ refresh \in [Refreshes -> [at : {"idle", "read", "storing", "deleting"},
                                seen : Times, start : Nat]]
  /\ revoke \in {"none", "deleting", "answered"}
  /\ spoiled \subseteq {"expiry", "revocation"}

\* However often the form is submitted at once, a login gives one code, and that code one
\* pair of tokens.
OneGrantPerLogin == codes <= 1 /\ grants <= 1

\* A client that comes back within RefreshTTL of its last answer finds its refresh token,
\* through restarts, clean-ups, failed statements and refreshes that overtake one another,
\* unless it revoked the token or a request that had met it expired deleted it late.
RefreshSurvives ==
  /\ grants > 0
  /\ revoke = "none"
  /\ "expiry" \notin spoiled
  /\ clock + MaxDelay <= used + RefreshTTL
  => row >= clock

\* A token whose revocation was answered is gone for good, unless the deletion failed or a
\* refresh that had read the token before writes it back.
RevocationHolds == revoke = "answered" /\ "revocation" \notin spoiled => row = None

=============================================================================
