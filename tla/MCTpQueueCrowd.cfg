\* Two senders and two receivers, spawned at any moment.
CONSTANTS
  s1 = s1
  r1 = r1
  s2 = s2
  r2 = r2
  Senders = {s1, s2}
  Receivers = {r1, r2}
  Width = 2
  MaxPuts = 2
  MaxGets = 2
  NoText = NoText
SPECIFICATION Spec
INVARIANTS NoOverwrite NoTornMessage NoDoubleTake NoLostMessage
SYMMETRY Symmetry
\* Loops end, and a receiver may be left waiting.
CHECK_DEADLOCK FALSE
