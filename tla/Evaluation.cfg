SPECIFICATION Spec
CONSTANTS
  Lists <- ShortLists
  MaxLength = 3
INVARIANTS
  AnswerIsDerived
