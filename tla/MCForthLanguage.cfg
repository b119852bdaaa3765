\* BEGIN loops, ELSE and EXIT as the code supports them; and comments, strings, variables
\* and SEXEC in a source of several lines.
CONSTANTS
  Stride = 40
  Placements = {"above"}
  Words <- MCWords
  Builtins <- MCBuiltins
  NumVal <- MCNumVal
  EndQuote <- MCEndQuote
  ElemSizes = {0, 1}
  MinBlock = 3
  WildReads = {"harmless"}
  ProgStack = 2
  NullsBelow = 0
  L = 8
  RStack = 8
  DStack = 32
  PStack = 8
  MaxCount = 6
  Scripts <- LanguageSessions
SPECIFICATION Spec
INVARIANTS Disciplined NothingStrays CompiledAsMeant
PROPERTIES ReturnsToCaller NamesKeepTheirMeaning
\* The script ends.
CHECK_DEADLOCK FALSE
