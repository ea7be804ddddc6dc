SPECIFICATION Spec
CONSTANTS
  Base = 16
  Word = 2
  MaxPDULen = 48
  maxCOctetLen = 5
  maxTLVs = 2
  Scripts <- MCScripts
INVARIANTS
  NoOctetLost
  DecodesAsMeant
  DecodeIsStable
  AnswersCorrelate
CHECK_DEADLOCK FALSE
