------------------------------- MODULE Proxy -------------------------------
(***************************************************************************)
(* One chat request through pb-proxy: policy, attachments, the replacement *)
(* of names by pseudonyms, the loop of model and tool calls, and the       *)
(* answer.  Two handlers share the steps: /v1/chat/completions ("openai")  *)
(* and /v1/messages ("anthropic").  A text is the set of the personal      *)
(* names in it, each in plain or as this request's pseudonym.              *)
(***************************************************************************)
EXTENDS Integers

CONSTANTS
  Names,        \* the names the scanner finds
  Servers,      \* the MCP servers; one tool each
  Declared,     \* those whose results need no scan (pii_status)
  Requests,     \* the conversations clients send: sets of messages
  MaxIterations \* of the agent loop, from the policy

ASSUME ProxyAssumption == Declared \subseteq Servers /\ MaxIterations \in Nat \ {0}

\* The content of a message is a string, or a list of text parts and at most one file;
\* `rest` is what stands beside the content: the arguments of the tool calls that an
\* earlier answer made, the sender's name.
Messages ==
  [listed : BOOLEAN, text : SUBSET Names, file : SUBSET Names, rest : SUBSET Names]

ASSUME RequestsAssumption == Requests \subseteq SUBSET Messages

VARIABLES
  handler,    \* "openai" or "anthropic"
  policy,     \* what OPA allows the role
  request,    \* the conversation as it stands
  status,     \* the step, or how the request ended
  mapped,     \* the handler's pii_reverse_map: the names it can restore
  loopMap,    \* the agent loop's
  chat,       \* the tokens in the messages given to the model
  call,       \* the tool call under way
  turn,       \* the iteration
  tools,      \* the tools discovered last
  toolSaw,    \* the tokens tools were called with, where arguments are restored
  answer,     \* the tokens of the last response, then of the answer
  unscanned   \* names that entered the chat unscanned, from a tool

proxyVars == <<handler, policy, request, status, mapped, loopMap, chat, call, turn, tools,
               toolSaw, answer, unscanned>>

Tokens == [name : Names, plain : BOOLEAN]
Plain(names) == [name : names, plain : {TRUE}]
NamesIn(tokens) == {t.name : t \in {u \in tokens : u.plain}}

-----------------------------------------------------------------------------
(* Conversions *)

\* depseudonymize_text, and depseudonymize_tool_arguments for the string values of
\* dictionaries and of the lists in them.
Restored(tokens, names) ==
  {[t EXCEPT !.plain = @ \/ t.name \in names] : t \in tokens}

\* POST /pseudonymize
Hidden(tokens) == {[t EXCEPT !.plain = FALSE] : t \in tokens}

\* Anthropic blocks become a string again, unless a document is among them; the input of
\* a tool_use block becomes an argument of tool_calls, beside the content.
Converted(message) == [message EXCEPT !.listed = message.file # {}]

\* A permitted file becomes a text part; the list stays a list.
Extracted(message) ==
  [message EXCEPT !.text = @ \cup message.file, !.file = {}]

\* filter_non_text_content with "placeholder"
Filtered(message) == [message EXCEPT !.file = {}]

NoCall == [server |-> "none", args |-> {}, result |-> {}]

-----------------------------------------------------------------------------
Policies == [provider : BOOLEAN, documents : BOOLEAN, nonText : {"placeholder", "allow"}]

ProxyInit ==
  /\ handler \in {"openai", "anthropic"}
  /\ policy \in Policies
  /\ request \in Requests
  /\ status = "received"
  /\ mapped = {} /\ loopMap = {} /\ chat = {}
  /\ call = NoCall
  /\ turn = 0
  /\ tools \in (SUBSET Servers) \ {{}}
  /\ toolSaw = {} /\ answer = {} /\ unscanned = {}

End(how) ==
  /\ status' = how
  /\ UNCHANGED <<handler, policy, request, mapped, loopMap, chat, call, turn, tools, toolSaw,
                 answer, unscanned>>

\* No policy, no answer and a provider that is not allowed are all a denial.
Deny == status = "received" /\ ~policy.provider /\ End("denied")

Accept ==
  /\ status = "received"
  /\ policy.provider
  /\ request' = IF handler = "anthropic" THEN {Converted(m) : m \in request} ELSE request
  /\ status' = "accepted"
  /\ UNCHANGED <<handler, policy, mapped, loopMap, chat, call, turn, tools, toolSaw, answer,
                 unscanned>>

HasFile == \E m \in request : m.file # {}

\* What is not permitted is replaced in a copy, which is dropped since no file was
\* extracted.
ExtractDocuments ==
  /\ status = "accepted"
  /\ request' = IF policy.documents THEN {Extracted(m) : m \in request} ELSE request
  /\ status' = "extracted"
  /\ UNCHANGED <<handler, policy, mapped, loopMap, chat, call, turn, tools, toolSaw, answer,
                 unscanned>>

\* Too many, too large, the wrong type, empty, or no extraction service.
ExtractionFails ==
  status = "accepted" /\ policy.documents /\ HasFile /\ End("attachment error")

FilterNonText ==
  /\ status = "extracted"
  /\ request' = IF handler = "openai" /\ policy.nonText = "placeholder"
                THEN {Filtered(m) : m \in request} ELSE request
  /\ status' = "filtered"
  /\ UNCHANGED <<handler, policy, mapped, loopMap, chat, call, turn, tools, toolSaw, answer,
                 unscanned>>

\* Only contents that are strings are scanned: no list, and nothing beside the content.
Scanned(messages) == UNION {m.text : m \in {k \in messages : ~k.listed}}
Unscannable(messages) ==
  UNION {m.rest \cup (IF m.listed THEN m.text \cup m.file ELSE {}) : m \in messages}

\* The loop gets the handler's map itself, unless that is empty: an empty map is false,
\* and `or {}` makes another.  Same says whether the two are one.
Same_Copied == FALSE
Same == mapped # {}

PseudonymizeMessages ==
  /\ status = "filtered"
  /\ mapped' = Scanned(request)
  /\ loopMap' = Scanned(request)
  /\ chat' = Hidden(Plain(Scanned(request))) \cup Plain(Unscannable(request))
  /\ status' = "model"
  /\ UNCHANGED <<handler, policy, request, call, turn, tools, toolSaw, answer, unscanned>>

\* The scan is forced for every role: without a scanner there is no answer.
ScanFails ==
  status = "filtered" /\ (\E m \in request : ~m.listed) /\ End("scanner unavailable")

\* No key for the provider, or an unknown model.
NoRoute == status = "model" /\ turn = 0 /\ End("no route")

-----------------------------------------------------------------------------
(* The agent loop *)

\* The model answers with some of what it has seen.
Answer ==
  /\ status = "model"
  /\ \E said \in SUBSET chat : answer' = Restored(said, mapped)
  /\ status' = "answered"
  /\ turn' = turn + 1
  /\ UNCHANGED <<handler, policy, request, mapped, loopMap, chat, call, tools, toolSaw,
                 unscanned>>

\* It asks for a tool, which need not be one of those offered.  `args` is what restoration
\* looks at: the keys of dictionaries, and lists within lists, go to the tool as they are.
AskForTool ==
  /\ status = "model"
  /\ turn < MaxIterations
  /\ \E s \in Servers, args \in SUBSET chat :
       call' = [NoCall EXCEPT !.server = s, !.args = Restored(args, loopMap)]
  /\ \E said \in SUBSET chat : answer' = said
  /\ turn' = turn + 1
  /\ status' = "tool"
  /\ UNCHANGED <<handler, policy, request, mapped, loopMap, chat, tools, toolSaw, unscanned>>

UnknownTool ==
  /\ status = "tool"
  /\ call.server \notin tools
  /\ call' = NoCall
  /\ status' = "result"
  /\ UNCHANGED <<handler, policy, request, mapped, loopMap, chat, turn, tools, toolSaw,
                 answer, unscanned>>

\* A result may name anyone and repeat what it was called with, any pseudonym of the chat
\* in a key or a nested list included; so may the text of an error.  A call that times out says nothing of anyone.
CallTool ==
  /\ status = "tool"
  /\ call.server \in tools
  /\ toolSaw' = toolSaw \cup call.args
  /\ \E result \in SUBSET (Plain(Names) \cup call.args \cup chat) :
       call' = [call EXCEPT !.result = result]
  /\ status' = "result"
  /\ UNCHANGED <<handler, policy, request, mapped, loopMap, chat, turn, tools, answer,
                 unscanned>>

\* What was found in a result is added to the loop's map.
Extend(names) ==
  /\ loopMap' = loopMap \cup names
  /\ mapped' = IF Same THEN mapped \cup names ELSE mapped

NextTurn == IF turn = MaxIterations THEN "exhausted" ELSE "model"

ScanResult_NewOnly ==
  /\ status = "result"
  /\ call.server \notin Declared
  /\ chat' = chat \cup {t \in call.result : t.name \in loopMap}
                 \cup Hidden({t \in call.result : t.name \notin loopMap})
  /\ Extend(NamesIn(call.result))
  /\ call' = NoCall
  /\ status' = NextTurn
  /\ UNCHANGED <<handler, policy, request, turn, tools, toolSaw, answer, unscanned>>

ScanResult ==
  /\ status = "result"
  /\ call.server \notin Declared
  /\ chat' = chat \cup Hidden(call.result)
  /\ Extend(NamesIn(call.result))
  /\ call' = NoCall
  /\ status' = NextTurn
  /\ UNCHANGED <<handler, policy, request, turn, tools, toolSaw, answer, unscanned>>

\* The server is declared to return scanned data, or the scanner fails.
TakeResult ==
  /\ status = "result"
  /\ chat' = chat \cup call.result
  /\ unscanned' = unscanned \cup NamesIn(call.result)
  /\ call' = NoCall
  /\ status' = NextTurn
  /\ UNCHANGED <<handler, policy, request, mapped, loopMap, turn, tools, toolSaw, answer>>

\* The last response is the answer, though it asked for a tool.
GiveUp ==
  /\ status = "exhausted"
  /\ answer' = Restored(answer, mapped)
  /\ status' = "answered"
  /\ UNCHANGED <<handler, policy, request, mapped, loopMap, chat, call, turn, tools, toolSaw,
                 unscanned>>

\* REQUEST_TIMEOUT is over the whole loop; an error of the model ends it too.
LoopFails == status \in {"model", "tool", "result"} /\ End("loop failed")

\* The tools of the servers that answer; of all of them, if none does.
RefreshTools ==
  /\ status \in {"model", "tool"}
  /\ \E reachable \in SUBSET Servers :
       tools' = IF reachable = {} THEN tools ELSE reachable
  /\ UNCHANGED <<handler, policy, request, status, mapped, loopMap, chat, call, turn, toolSaw,
                 answer, unscanned>>

ProxyNext ==
  \/ Deny \/ Accept \/ ExtractDocuments \/ ExtractionFails \/ FilterNonText
  \/ PseudonymizeMessages \/ ScanFails \/ NoRoute
  \/ Answer \/ AskForTool \/ UnknownTool \/ CallTool \/ ScanResult \/ TakeResult
  \/ GiveUp \/ LoopFails \/ RefreshTools

ProxySpec == ProxyInit /\ [][ProxyNext]_proxyVars

-----------------------------------------------------------------------------
(* Properties *)

Statuses == {"received", "denied", "accepted", "extracted", "attachment error", "filtered",
             "scanner unavailable", "no route", "model", "tool", "result", "exhausted",
             "answered", "loop failed"}

ProxyTypeOK ==
  /\ handler \in {"openai", "anthropic"}
  /\ policy \in Policies
  /\ request \subseteq Messages
  /\ status \in Statuses
  /\ mapped \subseteq Names /\ loopMap \subseteq Names /\ unscanned \subseteq Names
  /\ chat \subseteq Tokens /\ toolSaw \subseteq Tokens /\ answer \subseteq Tokens
  /\ call \in [server : Servers \cup {"none"}, args : SUBSET Tokens, result : SUBSET Tokens]
  /\ turn \in 0..MaxIterations
  /\ tools \in (SUBSET Servers) \ {{}}

\* Through any number of tool calls with the names restored, and results that repeat
\* them, the model is given a name in plain only where nothing looks for it: in a part of
\* a list, beside the content of a message (the arguments of an earlier tool call), or
\* from a tool whose result was not scanned.
NamesAreHidden == NamesIn(chat) \subseteq Unscannable(request) \cup unscanned

\* Wherever the proxy restores, it has the name: no tool is called with a pseudonym in a
\* string value of its arguments or of a list in them, those first met in the results of
\* earlier tools included; nor has the text of the answer one, provided that the first
\* scan had found something.
PseudonymsStayInside ==
  /\ \A t \in toolSaw : t.plain
  /\ status = "answered" /\ mapped # {} => \A t \in answer : t.plain

\* "de-pseudonymizes LLM responses before returning to the user" (pii_middleware.py:5).
AnswerIsReadable == status = "answered" => \A t \in answer : t.plain

=============================================================================
