CONSTANTS
  ULLONG_MAX = 47
  Types = {"BOTH"}
  InMethods = {"SOURCE", "CONNECT"}
  StatusCodes = {101, 200}
  Digits = {"0", "2"}
  Results = {"ok", "pause", "error"}
  Replies = {0, 1}
  MaxLines = 2
  MaxUrl = 5
  MaxPieces = 4
  MaxValue = 24
SPECIFICATION Spec
INVARIANTS CallbackOrder MarkCovers BodyExact AssertsHold  WordsRecognised
