\* Lines that are not well formed, on small stacks, with both layouts of the heap.
CONSTANTS
  Stride = 40
  Placements = {"above", "below"}
  Words <- MCWords
  Builtins <- MCBuiltins
  NumVal <- MCNumVal
  EndQuote <- MCEndQuote
  ElemSizes = {0}
  MinBlock = 3
  WildReads = {"harmless", "fault"}
  ProgStack = 2
  NullsBelow = 2
  L = 3
  RStack = 3
  DStack = 3
  PStack = 4
  MaxCount = 4
  Scripts <- LooseSessions
SPECIFICATION Spec
INVARIANTS TypeOK ProgramsSaved JumpsLand BalancedLineCompiles
\* Processes die, and a loop may reach the bound MaxCount.
CHECK_DEADLOCK FALSE
