SPECIFICATION LiveSpec
CONSTANTS
  Percent = 30
  JoinSizes = {"B", "C", "D", "own"}
  MaxNodes = 7
INVARIANT TypeOK
INVARIANT StaysInPart
INVARIANT NoJump
INVARIANT FewMove
PROPERTY ClassesSettle
PROPERTY RenewalsConverge
