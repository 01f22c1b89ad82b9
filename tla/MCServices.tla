----------------------------- MODULE MCServices -----------------------------
(***************************************************************************)
(* The request paths of the MCP server and the proxy in one run for TLC.   *)
(* They share no state: in each behaviour one part moves and the others    *)
(* rest at one initial state, so that the run is the sum of the instances. *)
(***************************************************************************)
EXTENDS LookupCaches, MCProxy, OAuth, Incidents, RateLimiter, ToolCalls, MCPiiText, TLC

VARIABLE part

\* One agent of a role with fewer requests a minute than the other's.
CapacityOfAgents == [a \in Agents |-> IF a = CHOOSE b \in Agents : TRUE THEN 2 ELSE 3]

OAuthSymmetry == Permutations(Submits) \cup Permutations(Refreshes)

CachesRest == kind = CHOOSE k \in Kinds : TRUE

ProxyRests ==
  /\ handler = "openai"
  /\ policy = CHOOSE p \in Policies : TRUE
  /\ request = CHOOSE r \in Requests : TRUE
  /\ tools = Servers

ToolsRest ==
  /\ tool = "get_rules" /\ role = "admin" /\ resource = "internal"
  /\ permitted = {} /\ opens = {}

\* Hits of both classifications, of which one has no original in the vault.
ClassOfChunks == [c \in Chunks |-> IF c \in Sealed THEN "confidential" ELSE "internal"]

TextRests == text = (CHOOSE t \in Texts : TRUE) /\ use = "log"

ServicesInit ==
  /\ part \in {"caches", "proxy", "oauth", "incidents", "limiter", "tools", "text"}
  /\ CachesInit /\ (part = "caches" \/ CachesRest)
  /\ ProxyInit /\ (part = "proxy" \/ ProxyRests)
  /\ OAuthInit
  /\ IncidentsInit
  /\ LimiterInit
  /\ (part = "tools" \/ ToolsRest) /\ ToolCallsInit
  /\ (part = "text" \/ TextRests) /\ PiiTextInit

CachesMove ==
  /\ part = "caches" /\ CachesNext
  /\ UNCHANGED <<proxyVars, oauthVars, incidentVars, limiterVars, callVars, textVars,
                 part>>

ProxyMoves ==
  /\ part = "proxy" /\ ProxyNext
  /\ UNCHANGED <<cacheVars, oauthVars, incidentVars, limiterVars, callVars, textVars,
                 part>>

OAuthMoves ==
  /\ part = "oauth" /\ OAuthNext
  /\ UNCHANGED <<cacheVars, proxyVars, incidentVars, limiterVars, callVars, textVars,
                 part>>

IncidentsMove ==
  /\ part = "incidents" /\ IncidentsNext
  /\ UNCHANGED <<cacheVars, proxyVars, oauthVars, limiterVars, callVars, textVars, part>>

LimiterMoves ==
  /\ part = "limiter" /\ LimiterNext
  /\ UNCHANGED <<cacheVars, proxyVars, oauthVars, incidentVars, callVars, textVars, part>>

ToolsMove ==
  /\ part = "tools" /\ ToolCallsNext
  /\ UNCHANGED <<cacheVars, proxyVars, oauthVars, incidentVars, limiterVars, textVars,
                 part>>

TextMoves ==
  /\ part = "text" /\ PiiTextNext
  /\ UNCHANGED <<cacheVars, proxyVars, oauthVars, incidentVars, limiterVars, callVars,
                 part>>

ServicesNext ==
  \/ CachesMove \/ ProxyMoves \/ OAuthMoves \/ IncidentsMove \/ LimiterMoves \/ ToolsMove
  \/ TextMoves

ServicesSpec ==
  ServicesInit
  /\ [][ServicesNext]_<<cacheVars, proxyVars, oauthVars, incidentVars, limiterVars,
                       callVars, textVars, part>>

=============================================================================
