------------------------------ MODULE MCProxy ------------------------------
(***************************************************************************)
(* Constants of Proxy for TLC.                                             *)
(***************************************************************************)
EXTENDS Proxy

CONSTANTS n1, n2

Text(names) == [listed |-> FALSE, text |-> names, file |-> {}, rest |-> {}]
Parts(names, file) == [Text(names) EXCEPT !.listed = TRUE, !.file = file]
Calling(names) == [Text({}) EXCEPT !.rest = names]

\* Nothing to find; a name in a string; in a part; in a string beside a file with another;
\* in a file only; in a string, and both in the arguments of an earlier tool call.
Conversations ==
  {{Text({})}, {Text({n1})}, {Parts({n1}, {})}, {Text({n1}), Parts({}, {n2})},
   {Text({}), Parts({}, {n1})}, {Text({n1}), Calling({n1, n2})}}

=============================================================================
