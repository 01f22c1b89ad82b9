CONSTANTS
  Texts <- ShortTexts
  Recognizers <- TypesOfHits
  Patterns = {"IBAN_CODE"}
  MaxHits = 3
SPECIFICATION PiiTextSpec
INVARIANTS
  OnlyFlaggedIsReplaced
CHECK_DEADLOCK FALSE
