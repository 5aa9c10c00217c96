CONSTANTS
  Items <- MCItems
  Before <- MCBefore
  After <- MCAfter
  Words <- MCWords
  Chars <- MCChars
  MaxItems = 1
  MaxWords = 4
  MaxChars = 5
SPECIFICATION FrontendSpec
INVARIANTS RoundTrip AcceptedTextIsKept LexesLongest
CHECK_DEADLOCK FALSE
