\* One sender and one receiver: the use that drive.fs and queue.fs make of a queue.
CONSTANTS
  s1 = s1
  r1 = r1
  s2 = s2
  r2 = r2
  Senders = {s1}
  Receivers = {r1}
  Width = 3
  MaxPuts = 5
  MaxGets = 6
  NoText = NoText
SPECIFICATION FairSpec
INVARIANTS TypeOK ExactlyOnceInOrder
PROPERTIES MailboxSpec AllDelivered
\* The receiver's loop is longer than the sender's: it ends up waiting (queue.fs).
CHECK_DEADLOCK FALSE
