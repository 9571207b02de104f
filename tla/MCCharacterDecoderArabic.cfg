CONSTANTS
  CodePoints <- MCCodePoints
  Pages = {1, 6}
  PageChars <- MCPageChars
SPECIFICATION Spec
INVARIANT Decodes
