CONSTANTS
  CodePoints <- MCCodePoints
  Pages = {1, 2, 5, 7, 8, 9}
  PageChars <- MCPageChars
SPECIFICATION Spec
INVARIANTS
  TypeOK
  Decodes
  EndsAtTheQuote
