------------------------------ MODULE Mailbox ------------------------------
(***************************************************************************)
(* What a TP-Forth queue promises to the tasks that share it: a slot that  *)
(* holds at most one message, filled by Q> and emptied by <Q, and nothing  *)
(* lost, invented, duplicated or reordered on the way.                     *)
(*                                                                         *)
(* TpQueue.tla is the detailed model of tp_queue.c that is checked, and    *)
(* proved, to implement this module for one sender and one receiver.       *)
(***************************************************************************)
EXTENDS Sequences

CONSTANT Message

VARIABLES
  slot,    \* << >> or << m >>: the message waiting in the queue
  sent,    \* history: every message Q> has put in the slot, in order
  taken    \* history: every message <Q has taken out of it, in order

mailboxVars == <<slot, sent, taken>>

MailboxInit ==
  /\ slot = << >>
  /\ sent = << >>
  /\ taken = << >>

Put(m) ==
  /\ slot = << >>
  /\ slot' = <<m>>
  /\ sent' = Append(sent, m)
  /\ UNCHANGED taken

Take ==
  /\ slot # << >>
  /\ taken' = Append(taken, Head(slot))
  /\ slot' = << >>
  /\ UNCHANGED sent

MailboxNext == (\E m \in Message : Put(m)) \/ Take

MailboxSpec == MailboxInit /\ [][MailboxNext]_mailboxVars

(***************************************************************************)
(* The messages taken and the one still waiting are exactly the messages   *)
(* sent: the promise of a queue, as one equation.                          *)
(***************************************************************************)
ExactlyOnceInOrder == sent = taken \o slot
=============================================================================
