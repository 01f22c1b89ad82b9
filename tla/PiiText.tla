------------------------------ MODULE PiiText ------------------------------
(***************************************************************************)
(* What happens to the personal data in one text: the scanner's hits are   *)
(* reduced to hits that do not overlap, a language model may reject some,  *)
(* the rest are replaced in the text, and the replacements are turned back *)
(* into the originals later.  The users of the scanner differ in what      *)
(* follows the scan: the chat proxy restores the text itself, the audit    *)
(* log masks, and the ingestion keeps the originals of a chunk in the      *)
(* vault, from where a caller may get them back.                           *)
(***************************************************************************)
EXTENDS Integers, SequencesExt

CONSTANTS
  Texts,       \* the texts, sequences of letters
  Recognizers, \* what hits may say: an entity type and a score
  Patterns,    \* PATTERN_TYPES
  MaxHits      \* bound on the hits in a text

Types == {r.type : r \in Recognizers}

\* What the texts are written in.
Chars == UNION {{t[i] : i \in DOMAIN t} : t \in Texts}

ASSUME PiiTextAssumption ==
  /\ \A t \in Texts : t \in Seq(Chars)
  /\ "letter" \notin Types
  /\ Patterns \subseteq Types
  /\ MaxHits \in Nat \ {0}

VARIABLES
  text, hits,
  use,       \* "chat", "log" or "vault"
  stage,
  left,      \* the hits still to be looked at, or to be replaced
  kept,      \* those chosen so far
  flagged,   \* entity_locations of the scan result, after the verifier
  output,    \* letters and tags
  withheld,  \* the types the vault policy keeps from the caller
  returned   \* output with the tags turned back

textVars == <<text, hits, use, stage, left, kept, flagged, output, withheld, returned>>

-----------------------------------------------------------------------------
(* Hits and tags *)

Hits(t) ==
  {[from |-> i, to |-> j, type |-> r.type, score |-> r.score] :
     i \in 1..Len(t), j \in 1..Len(t), r \in Recognizers}

\* What Presidio may find in a text.
Scans(t) ==
  {{}} \cup {{f[n] : n \in 1..MaxHits} :
               f \in [1..MaxHits -> {h \in Hits(t) : h.from <= h.to}]}

Word(h) == SubSeq(text, h.from, h.to)

Letter(c) == [type |-> "letter", word |-> <<c>>]
Letters(t) == [i \in DOMAIN t |-> Letter(t[i])]
IsLetter(item) == item.type = "letter"

\* Of hits with the same word, the last names the tag of all.  The hash in a tag stands
\* for the word: no two words of a text are taken to share its eight digits.
Tag(h) ==
  LET last == CHOOSE g \in kept : /\ Word(g) = Word(h)
                                  /\ \A k \in kept : Word(k) = Word(h) => k.from <= g.from
  IN [type |-> last.type, word |-> Word(h)]

Placeholder(h) == [type |-> h.type, word |-> <<>>]

-----------------------------------------------------------------------------
(* The scan *)

PiiTextInit ==
  /\ text \in Texts
  /\ hits = {}
  /\ use \in {"chat", "log", "vault"}
  /\ stage = "given"
  /\ left = {}
  /\ kept = {} /\ flagged = {}
  /\ output = Letters(text)
  /\ withheld = {}
  /\ returned = <<>>

Analyze ==
  /\ stage = "given"
  /\ hits' \in Scans(text)
  /\ left' = hits'
  /\ stage' = "ranking"
  /\ UNCHANGED <<text, use, kept, flagged, output, withheld, returned>>

Length(h) == h.to - h.from

\* By score, then length, then start; hits that tie come as Presidio lists them.
Outranks(g, h) ==
  \/ g.score > h.score
  \/ g.score = h.score /\ Length(g) > Length(h)
  \/ g.score = h.score /\ Length(g) = Length(h) /\ g.from < h.from

Overlap_Strict(g, h) == g.from < h.to /\ h.from < g.to

Overlap(g, h) == g.from <= h.to /\ h.from <= g.to

Rank(h) ==
  /\ stage = "ranking"
  /\ h \in left
  /\ \A g \in left : ~Outranks(g, h)
  /\ left' = left \ {h}
  /\ kept' = IF \E g \in kept : Overlap(g, h) THEN kept ELSE kept \cup {h}
  /\ UNCHANGED <<text, hits, use, stage, flagged, output, withheld, returned>>

EndScan ==
  /\ stage = "ranking"
  /\ left = {}
  /\ flagged' = kept
  /\ stage' = "scanned"
  /\ UNCHANGED <<text, hits, use, left, kept, output, withheld, returned>>

-----------------------------------------------------------------------------
(* The verifier *)

\* The candidates put to the model; hits of the other types are not second-guessed.
Ambiguous == {h \in flagged : h.type \notin Patterns}

\* What a response may reject: numbers that are missing or no candidate's reject nothing,
\* and neither does a response without a JSON object, an error or a timeout.
Rejections == SUBSET Ambiguous

VerifyHits ==
  /\ stage = "scanned"
  /\ use = "vault"
  /\ flagged # {}
  /\ \E rejected \in Rejections : flagged' = flagged \ rejected
  /\ stage' = "decided"
  /\ UNCHANGED <<text, hits, use, left, kept, output, withheld, returned>>

\* Switched off by the policy, or by the defaults where the policy does not answer; only
\* the ingestion has a verifier.
SkipVerifier ==
  /\ stage = "scanned"
  /\ stage' = "decided"
  /\ UNCHANGED <<text, hits, use, left, kept, flagged, output, withheld, returned>>

-----------------------------------------------------------------------------
(* The replacement *)

LeaveText ==
  /\ stage = "decided"
  /\ flagged = {}
  /\ stage' = "done"
  /\ returned' = output
  /\ UNCHANGED <<text, hits, use, left, kept, flagged, output, withheld>>

\* The text is analysed again: what the verifier rejected is found and kept once more.
AnalyzeAgain ==
  /\ stage = "decided"
  /\ flagged # {}
  /\ left' = kept
  /\ stage' = "replacing"
  /\ UNCHANGED <<text, hits, use, kept, flagged, output, withheld, returned>>

\* From right to left, so that the positions of the rest stay right.
Rightmost(h) == \A g \in left : g.from <= h.from

Replace(h, item) ==
  /\ stage = "replacing"
  /\ h \in left
  /\ Rightmost(h)
  /\ output' = SubSeq(output, 1, h.from - 1) \o <<item>> \o SubSeq(output, h.to + 1, Len(output))
  /\ left' = left \ {h}
  /\ UNCHANGED <<text, hits, use, stage, kept, flagged, withheld, returned>>

Pseudonymize(h) == use \in {"chat", "vault"} /\ Replace(h, Tag(h))

\* Presidio's anonymizer may make one placeholder of two hits of a type with only blanks
\* between them; the texts here have no blanks.
Mask(h) == use = "log" /\ Replace(h, Placeholder(h))

Replaced == stage = "replacing" /\ left = {}

-----------------------------------------------------------------------------
(* The way back *)

\* Each item with its tag turned back when its word is among those.
Restore(items, words) ==
  FlattenSeq([i \in DOMAIN items |-> IF items[i].word \in words THEN Letters(items[i].word)
                                                                ELSE <<items[i]>>])

KeepMasked ==
  /\ Replaced
  /\ use = "log"
  /\ stage' = "done"
  /\ returned' = output
  /\ UNCHANGED <<text, hits, use, left, kept, flagged, output, withheld>>

\* The proxy has the mapping of the request.
RestoreChat ==
  /\ Replaced
  /\ use = "chat"
  /\ returned' = Restore(output, {Word(h) : h \in kept})
  /\ stage' = "done"
  /\ UNCHANGED <<text, hits, use, left, kept, flagged, output, withheld>>

\* A row of the mapping has the type of the first hit with its word that is left in the
\* scan result; without one, the type is UNKNOWN and no entity has it.
RowType(word) ==
  LET same == {h \in flagged : Word(h) = word}
  IN IF same = {} THEN "UNKNOWN" ELSE (CHOOSE h \in same : \A g \in same : h.from <= g.from).type

\* The hash of the pseudonym is looked for among the entities of the row's type.
Recovered(word) == \E h \in flagged : h.type = RowType(word) /\ Word(h) = word

\* POST /vault/resolve and the policy's fields_to_redact.
ResolveFromVault ==
  /\ Replaced
  /\ use = "vault"
  /\ withheld' \in SUBSET Types
  /\ returned' = Restore(output, {w \in {Word(h) : h \in kept} :
                                    Recovered(w) /\ RowType(w) \notin withheld'})
  /\ stage' = "done"
  /\ UNCHANGED <<text, hits, use, left, kept, flagged, output>>

PiiTextNext ==
  \/ Analyze \/ EndScan \/ VerifyHits \/ SkipVerifier \/ LeaveText \/ AnalyzeAgain
  \/ KeepMasked \/ RestoreChat \/ ResolveFromVault
  \/ \E h \in hits : Rank(h) \/ Pseudonymize(h) \/ Mask(h)

PiiTextSpec == PiiTextInit /\ [][PiiTextNext]_textVars

-----------------------------------------------------------------------------
(* Properties *)

\* The hits are those of the text, and what is done with them stays among them.
PiiTextTypeOK ==
  /\ hits \subseteq Hits(text)
  /\ left \cup kept \cup flagged \subseteq hits
  /\ use \in {"chat", "log", "vault"}
  /\ withheld \subseteq Types

\* The words of a sequence, its tags spelled out; its letters; its tags.
Spelled(items) == FlattenSeq([i \in DOMAIN items |-> items[i].word])

LettersIn(items) ==
  FlattenSeq([i \in DOMAIN items |-> IF IsLetter(items[i]) THEN <<items[i]>> ELSE <<>>])

TagsIn(items) == {items[i] : i \in {j \in DOMAIN items : ~IsLetter(items[j])}}

\* What is left of the text once the words of these hits are cut out.
LettersOutside(cut) ==
  Letters(FlattenSeq([i \in DOMAIN text |->
    IF \E h \in cut : i \in h.from..h.to THEN <<>> ELSE <<text[i]>>]))

\* Whole words of hits are replaced, those of the scan result among them.
ReplacesWholeHits ==
  flagged # {} =>
    /\ \E cut \in SUBSET kept : flagged \subseteq cut /\ LettersIn(output) = LettersOutside(cut)
    /\ use # "log" => Spelled(output) = text

\* The vault gives back w, a word with some types in the scan result, only if one of them
\* is not withheld, and it does if none is.
VaultReturns(w) ==
  LET types == {h.type : h \in {g \in flagged : Word(g) = w}}
      back == \A t \in TagsIn(returned) : t.word # w
  IN types # {} => /\ back => types \ withheld # {}
                   /\ types \cap withheld = {} => back

\* Whatever hits overlap, repeat a word or give it two types: what is replaced are whole
\* words of hits that do not overlap, each hit of the scan result among them, the letters
\* outside stay in their order, and with the tags spelled out it is the text.  The proxy
\* gives the user the text of the request back.  The vault gives back each word none of
\* whose types in the scan result is withheld, and no word all of whose types are.
TextsAreRestored ==
  stage = "done" =>
    /\ ReplacesWholeHits
    /\ use = "chat" => returned = Letters(text)
    /\ use = "vault" => Spelled(returned) = text
    /\ use = "vault" => \A w \in {Word(h) : h \in kept} : VaultReturns(w)

\* "Verdicts merged, rejected removed.", and the filtered entity_locations go on to
\* "quality gate -> OPA privacy -> pseudonymise -> vault" (docs/pii-verifier.md:58-63).
OnlyFlaggedIsReplaced ==
  stage = "done" /\ flagged # {} => LettersIn(output) = LettersOutside(flagged)

=============================================================================
