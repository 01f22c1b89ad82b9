----------------------------- MODULE MCPiiText -----------------------------
(***************************************************************************)
(* Constants of PiiText for TLC.                                           *)
(***************************************************************************)
EXTENDS PiiText

\* A word that comes twice, and one within another; a type the verifier does not see.
ShortTexts == {<<"a", "b", "a", "b">>, <<"a", "a", "b", "a">>}
TypesOfHits ==
  {[type |-> "PERSON", score |-> 1], [type |-> "LOCATION", score |-> 1],
   [type |-> "IBAN_CODE", score |-> 2]}

=============================================================================
