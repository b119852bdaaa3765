\* One sender and one receiver: does the word after <Q read the message that was taken
CONSTANTS
  s1 = s1
  r1 = r1
  s2 = s2
  r2 = r2
  Senders = {s1}
  Receivers = {r1}
  Width = 2
  MaxPuts = 3
  MaxGets = 3
  NoText = NoText
SPECIFICATION Spec
INVARIANTS ReadsWhatItTook
CHECK_DEADLOCK FALSE
