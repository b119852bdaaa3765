\* A false flag, an IF part and an ELSE part: which is executed
CONSTANTS
  Stride = 40
  Placements = {"above"}
  Words <- MCWords
  Builtins <- MCBuiltins
  NumVal <- MCNumVal
  EndQuote <- MCEndQuote
  ElemSizes = {0, 1}
  MinBlock = 3
  WildReads = {"harmless"}
  ProgStack = 2
  NullsBelow = 0
  L = 8
  RStack = 8
  DStack = 32
  PStack = 8
  MaxCount = 6
  Scripts <- ElseSessions
SPECIFICATION Spec
INVARIANTS FalseSkipsToElse
\* The script ends.
CHECK_DEADLOCK FALSE
