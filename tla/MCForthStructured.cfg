\* Well-formed sessions: startup.fs and two lines.
CONSTANTS
  Stride = 40
  Placements = {"above"}
  Words <- MCWords
  Builtins <- MCBuiltins
  NumVal <- MCNumVal
  EndQuote <- MCEndQuote
  ElemSizes = {0, 1}
  MinBlock = 3
  WildReads = {"harmless"}
  ProgStack = 2
  NullsBelow = 0
  L = 7
  RStack = 7
  DStack = 32
  PStack = 8
  MaxCount = 6
  Scripts <- StructuredSessions
SPECIFICATION FairSpec
INVARIANTS ProgramsWellMade Disciplined NothingStrays StaysInProgram ReturnStackExact LoopStacksInStep PromptRestores CompiledAsMeant
PROPERTIES ReturnsToCaller ClosedProgramsStay LineEnds
\* The script ends.
CHECK_DEADLOCK FALSE
