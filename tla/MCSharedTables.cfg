\* Main and two tasks that can be spawned, six words between them.
CONSTANTS
  Main = Main
  t1 = t1
  t2 = t2
  nameA = nameA
  nameB = nameB
  Tasks = {Main, t1, t2}
  Names = {nameA, nameB}
  Numbers = {7, 8}
  MaxQueues = 2
  MaxTid = 1
  MaxCalls = 6
  None = None
SPECIFICATION Spec
INVARIANTS TypeOK FindsWhatWasCreated SpawnsWithinTable NumbersArrive ReadsLiveTable
SYMMETRY Symmetry
\* Tasks end, and a sender may be left waiting.
CHECK_DEADLOCK FALSE
