--------------------------- MODULE TpQueueProofs ---------------------------
(***************************************************************************)
(* Proofs about TpQueue for every number of tasks, every message width and *)
(* every number of messages.                                               *)
(*                                                                         *)
(* The two halves of the flag protocol are independent.  One sender is     *)
(* enough for nothing to be overwritten, mixed or lost; one receiver is    *)
(* enough for nothing to be taken twice; with one of each the queue is the *)
(* mailbox of Mailbox.tla.                                                 *)
(***************************************************************************)
EXTENDS TpQueue, TLAPS

(* Every step may use what the constants are and what cells and tasks are. *)
USE QueueAssumption DEF Cells, Tasks

LEMMA WholeIsText ==
  ASSUME NEW mark \in Mark \cup {NoText}
  PROVE  Whole(mark) \in Text
  BY DEF Whole, Text

(* The bounds on loop and cell that the marks a sender writes depend on.   *)
SendingWithinBounds ==
  \A s \in Senders :
    /\ pc[s] # "done" => loop[s] + 1 \in 1 .. MaxPuts
    /\ pc[s] # "set_full" => cell[s] \in Cells
    /\ pc[s] \in {"idle", "wait_empty"} => cell[s] = 1

ReceivingWithinBounds == \A r \in Receivers : cell[r] \in Cells

TypeInv == TypeOK /\ SendingWithinBounds /\ ReceivingWithinBounds

LEMMA TypeInvInit == Init => TypeInv
  BY WholeIsText DEF Init, TypeInv, TypeOK, SenderPC, ReceiverPC,
     SendingWithinBounds, ReceivingWithinBounds

LEMMA TypeInvStep == TypeInv /\ [Next]_vars => TypeInv'
<1> SUFFICES ASSUME TypeInv, [Next]_vars PROVE TypeInv'
  OBVIOUS
<1> USE DEF TypeInv, TypeOK, SenderPC, ReceiverPC,
            SendingWithinBounds, ReceivingWithinBounds
<1>1. ASSUME NEW t \in Tasks, Spawn(t) PROVE TypeInv'
  BY <1>1 DEF Spawn
<1>2. ASSUME NEW s \in Senders, SeeEmpty(s) PROVE TypeInv'
  BY <1>2 DEF SeeEmpty
<1>3. ASSUME NEW s \in Senders, CopyCell(s) PROVE TypeInv'
  <2>1. <<s, loop[s] + 1>> \in Mark
    BY <1>3 DEF CopyCell, Mark
  <2>2. msg' \in Text
    BY <1>3, <2>1 DEF CopyCell, Text
  <2>3. TypeOK'
    BY <1>3, <2>2 DEF CopyCell
  <2>4. SendingWithinBounds'
    BY <1>3 DEF CopyCell
  <2>5. ReceivingWithinBounds'
    BY <1>3 DEF CopyCell
  <2> QED
    BY <2>3, <2>4, <2>5
<1>4. ASSUME NEW s \in Senders, SetFull(s) PROVE TypeInv'
  BY <1>4 DEF SetFull, Again
<1>5. ASSUME NEW r \in Receivers, SeeFull(r) PROVE TypeInv'
  BY <1>5 DEF SeeFull
<1>6. ASSUME NEW r \in Receivers, ClearFull(r) PROVE TypeInv'
  BY <1>6, WholeIsText DEF ClearFull
<1>7. ASSUME NEW r \in Receivers, ReadCell(r) PROVE TypeInv'
  <2>1. text' \in [Receivers -> Text]
    BY <1>7 DEF ReadCell, Text
  <2>2. CASE cell[r] < Width
    <3>1. cell' = [cell EXCEPT ![r] = @ + 1] /\ UNCHANGED <<pc, loop>>
      BY <1>7, <2>2 DEF ReadCell
    <3>2. TypeOK'
      BY <1>7, <2>1, <2>2, <3>1 DEF ReadCell
    <3>3. SendingWithinBounds'
      BY <3>1
    <3>4. ReceivingWithinBounds'
      BY <2>2, <3>1
    <3> QED
      BY <3>2, <3>3, <3>4
  <2>3. CASE ~(cell[r] < Width)
    <3>1. Again(r, "wait_full", MaxGets)
      BY <1>7, <2>3 DEF ReadCell
    <3>2. TypeOK'
      BY <1>7, <2>1, <3>1 DEF ReadCell, Again
    <3>3. SendingWithinBounds'
      BY <3>1 DEF Again
    <3>4. ReceivingWithinBounds'
      BY <3>1 DEF Again
    <3> QED
      BY <3>2, <3>3, <3>4
  <2> QED
    BY <2>2, <2>3
<1>8. CASE UNCHANGED vars
  BY <1>8 DEF vars
<1> QED
  BY <1>1, <1>2, <1>3, <1>4, <1>5, <1>6, <1>7, <1>8 DEF Next

(* Every variable keeps its type, for any tasks, width and bounds.         *)
THEOREM TypeCorrect == Spec => []TypeOK
<1>1. Init => TypeInv
  BY TypeInvInit
<1>2. TypeInv /\ [Next]_vars => TypeInv'
  BY TypeInvStep
<1>3. TypeInv => TypeOK
  BY DEF TypeInv
<1> QED
  BY <1>1, <1>2, <1>3, PTL DEF Spec
-----------------------------------------------------------------------------
(***************************************************************************)
(* One sender: nothing is overwritten, mixed or lost.                      *)
(***************************************************************************)

(* Tasks are started, never recalled: who has one sender after a step had  *)
(* one before it.                                                          *)
LEMMA SpawnedGrows ==
  ASSUME TypeInv, [Next]_vars
  PROVE  /\ Spawned(Senders) \subseteq Spawned(Senders)'
         /\ Spawned(Receivers) \subseteq Spawned(Receivers)'
  BY SMTT(30) DEF Spawned, TypeInv, TypeOK, Next, vars, Spawn, SeeEmpty, CopyCell, SetFull,
         SeeFull, ClearFull, ReadCell, Again

(* While the sender copies, the cells before `cell' already hold its       *)
(* message; when the copy is over the whole buffer does.                   *)
CopiedSoFar ==
  OneSender => \A s \in Senders :
    /\ pc[s] = "copy" => \A i \in 1 .. (cell[s] - 1) : msg[i] = <<s, loop[s] + 1>>
    /\ pc[s] = "set_full" => msg = Whole(<<s, loop[s] + 1>>)

(* The message in a full queue is the last one sent, and every earlier one *)
(* has been taken.                                                         *)
LastSentWaits ==
  OneSender /\ full = 1 => sent # << >> /\ msg = sent[Len(sent)]

SenderInv == TypeInv /\ NoOverwrite /\ CopiedSoFar /\ NoTornMessage
               /\ LastSentWaits /\ NoLostMessage

LEMMA SenderInvInit == Init => SenderInv
  BY TypeInvInit DEF Init, SenderInv, NoOverwrite, CopiedSoFar, NoTornMessage,
     LastSentWaits, NoLostMessage

LEMMA SenderInvStep == SenderInv /\ [Next]_vars => SenderInv'
<1> SUFFICES ASSUME SenderInv, [Next]_vars PROVE SenderInv'
  OBVIOUS
<1>1. TypeInv'
  BY TypeInvStep DEF SenderInv
<1>2. SUFFICES ASSUME OneSender' 
               PROVE  (NoOverwrite /\ CopiedSoFar /\ NoTornMessage
                         /\ LastSentWaits /\ NoLostMessage)'
  BY <1>1 DEF SenderInv, NoOverwrite, CopiedSoFar, NoTornMessage, LastSentWaits,
              NoLostMessage
<1>3. OneSender
  BY <1>2, SpawnedGrows DEF OneSender, SenderInv
<1> USE DEF TypeInv, TypeOK, SenderPC, ReceiverPC
<1>4. /\ \A s \in Senders : pc[s] \in {"copy", "set_full"} => full = 0
      /\ \A s \in Senders :
           /\ pc[s] = "copy" => \A i \in 1 .. (cell[s] - 1) : msg[i] = <<s, loop[s] + 1>>
           /\ pc[s] = "set_full" => msg = Whole(<<s, loop[s] + 1>>)
      /\ full = 1 => \E mark \in Mark : msg = Whole(mark)
      /\ full = 1 => sent # << >> /\ msg = sent[Len(sent)]
      /\ \A n \in 1 .. (Len(sent) - full) : \E k \in 1 .. Len(taken) : taken[k] = sent[n]
  BY <1>3 DEF SenderInv, NoOverwrite, CopiedSoFar, NoTornMessage, LastSentWaits, NoLostMessage
<1> USE DEF NoOverwrite, CopiedSoFar, NoTornMessage, LastSentWaits, NoLostMessage
<1>5. ASSUME NEW t \in Tasks, Spawn(t)
      PROVE  (NoOverwrite /\ CopiedSoFar /\ NoTornMessage /\ LastSentWaits /\ NoLostMessage)'
  BY <1>4, <1>5 DEF Spawn, SenderInv
<1>6. ASSUME NEW s \in Senders, SeeEmpty(s)
      PROVE  (NoOverwrite /\ CopiedSoFar /\ NoTornMessage /\ LastSentWaits /\ NoLostMessage)'
  BY <1>4, <1>6 DEF SeeEmpty, SenderInv, SendingWithinBounds
<1>7. ASSUME NEW s \in Senders, CopyCell(s)
      PROVE  (NoOverwrite /\ CopiedSoFar /\ NoTornMessage /\ LastSentWaits /\ NoLostMessage)'
  <2>1. full = 0 /\ cell[s] \in Cells
    BY <1>4, <1>7 DEF CopyCell, SenderInv, SendingWithinBounds
  <2>2. \A t \in Senders : t # s => pc[t] = "idle" /\ pc'[t] = "idle"
    BY <1>3, <1>7 DEF CopyCell, SenderInv, OneSender, Spawned
  <2>3. \A i \in 1 .. cell[s] : msg'[i] = <<s, loop[s] + 1>>
    BY <1>4, <1>7, <2>1 DEF CopyCell, SenderInv, Text
  <2>4. CopiedSoFar'
    <3>1. CASE cell[s] = Width
      <4>1. pc'[s] = "set_full" /\ loop' = loop
        BY <1>7, <3>1 DEF CopyCell, SenderInv
      <4>2. msg' = Whole(<<s, loop[s] + 1>>)
        BY <1>7, <2>3, <3>1 DEF CopyCell, SenderInv, Text, Whole
      <4> QED
        BY <2>2, <4>1, <4>2
    <3>2. CASE cell[s] # Width
      <4>1. pc'[s] = "copy" /\ loop' = loop /\ cell'[s] = cell[s] + 1
        BY <1>7, <3>2 DEF CopyCell, SenderInv
      <4> QED
        BY <2>1, <2>2, <2>3, <4>1
    <3> QED
      BY <3>1, <3>2
  <2>5. UNCHANGED <<full, sent, taken>>
    BY <1>7 DEF CopyCell
  <2> QED
    BY <1>4, <2>1, <2>4, <2>5
<1>8. ASSUME NEW s \in Senders, SetFull(s)
      PROVE  (NoOverwrite /\ CopiedSoFar /\ NoTornMessage /\ LastSentWaits /\ NoLostMessage)'
  <2>1. full = 0 /\ full' = 1 /\ msg' = msg /\ taken' = taken /\ sent' = Append(sent, msg)
    BY <1>4, <1>8 DEF SetFull
  <2>2. \A t \in Senders : pc'[t] \notin {"copy", "set_full"}
    <3>1. pc'[s] \notin {"copy", "set_full"}
      BY <1>8 DEF SetFull, Again, SenderInv
    <3>2. \A t \in Senders : t # s => pc'[t] = pc[t] /\ pc[t] = "idle"
      BY <1>3, <1>8 DEF SetFull, Again, SenderInv, OneSender, Spawned
    <3> QED
      BY <3>1, <3>2
  <2>3. <<s, loop[s] + 1>> \in Mark /\ msg = Whole(<<s, loop[s] + 1>>)
    BY <1>4, <1>8 DEF SetFull, SenderInv, SendingWithinBounds, Mark
  <2>4. /\ Len(sent') = Len(sent) + 1
        /\ sent'[Len(sent')] = msg
        /\ \A n \in 1 .. Len(sent) : sent'[n] = sent[n]
    BY <2>1 DEF SenderInv
  <2>5. (NoOverwrite /\ CopiedSoFar /\ NoTornMessage)'
    BY <2>1, <2>2, <2>3
  <2>6. LastSentWaits'
    BY <2>1, <2>4 DEF SenderInv
  <2>7. NoLostMessage'
    BY <1>4, <2>1, <2>4 DEF SenderInv
  <2> QED
    BY <2>5, <2>6, <2>7
<1>9. ASSUME NEW r \in Receivers, SeeFull(r)
      PROVE  (NoOverwrite /\ CopiedSoFar /\ NoTornMessage /\ LastSentWaits /\ NoLostMessage)'
  BY <1>4, <1>9 DEF SeeFull, SenderInv
<1>10. ASSUME NEW r \in Receivers, ClearFull(r)
       PROVE  (NoOverwrite /\ CopiedSoFar /\ NoTornMessage /\ LastSentWaits /\ NoLostMessage)'
  <2>1. full' = 0 /\ UNCHANGED <<msg, cell, loop, sent>> /\ taken' = Append(taken, msg)
    BY <1>10 DEF ClearFull
  <2>2. \A s \in Senders : pc'[s] = pc[s]
    BY <1>10 DEF ClearFull, SenderInv
  <2>3. /\ Len(taken') = Len(taken) + 1
        /\ taken'[Len(taken')] = msg
        /\ \A k \in 1 .. Len(taken) : taken'[k] = taken[k]
    BY <2>1 DEF SenderInv
  <2>4. NoLostMessage'
    <3>1. ASSUME NEW n \in 1 .. Len(sent) PROVE \E k \in 1 .. Len(taken') : taken'[k] = sent[n]
      <4>1. CASE n \in 1 .. (Len(sent) - full)
        <5>1. PICK k \in 1 .. Len(taken) : taken[k] = sent[n]
          BY <1>4, <4>1
        <5>2. k \in 1 .. Len(taken')
          BY <2>3 DEF SenderInv
        <5> QED
          BY <2>3, <5>1, <5>2
      <4>2. CASE n \notin 1 .. (Len(sent) - full)
        <5>1. full = 1 /\ n = Len(sent)
          BY <4>2 DEF SenderInv
        <5>2. sent[n] = msg
          BY <1>4, <5>1
        <5>3. Len(taken') \in 1 .. Len(taken')
          BY <2>3 DEF SenderInv
        <5> QED
          BY <2>3, <5>2, <5>3
      <4> QED
        BY <4>1, <4>2
    <3> QED
      BY <2>1, <3>1 DEF SenderInv
  <2> QED
    BY <1>4, <2>1, <2>2, <2>4
<1>11. ASSUME NEW r \in Receivers, ReadCell(r)
       PROVE  (NoOverwrite /\ CopiedSoFar /\ NoTornMessage /\ LastSentWaits /\ NoLostMessage)'
  <2>1. UNCHANGED <<full, msg, sent, taken>>
    BY <1>11 DEF ReadCell
  <2>2. \A s \in Senders : pc'[s] = pc[s] /\ cell'[s] = cell[s] /\ loop'[s] = loop[s]
    BY <1>11 DEF ReadCell, Again, SenderInv
  <2> QED
    BY <1>4, <2>1, <2>2
<1>12. CASE UNCHANGED vars
  BY <1>4, <1>12 DEF vars
<1> QED
  BY <1>2, <1>5, <1>6, <1>7, <1>8, <1>9, <1>10, <1>11, <1>12 DEF Next

(* One sender, any receivers: q_put never writes over a waiting message.   *)
THEOREM NothingOverwritten == Spec => []NoOverwrite
<1>1. Init => SenderInv
  BY SenderInvInit
<1>2. SenderInv /\ [Next]_vars => SenderInv'
  BY SenderInvStep
<1>3. SenderInv => NoOverwrite
  BY DEF SenderInv
<1> QED
  BY <1>1, <1>2, <1>3, PTL DEF Spec

(* One sender, any receivers: a message in the queue is whole.             *)
THEOREM NothingTorn == Spec => []NoTornMessage
<1>1. Init => SenderInv
  BY SenderInvInit
<1>2. SenderInv /\ [Next]_vars => SenderInv'
  BY SenderInvStep
<1>3. SenderInv => NoTornMessage
  BY DEF SenderInv
<1> QED
  BY <1>1, <1>2, <1>3, PTL DEF Spec

(* One sender, any receivers: every message sent is waiting or was taken.  *)
THEOREM NothingLost == Spec => []NoLostMessage
<1>1. Init => SenderInv
  BY SenderInvInit
<1>2. SenderInv /\ [Next]_vars => SenderInv'
  BY SenderInvStep
<1>3. SenderInv => NoLostMessage
  BY DEF SenderInv
<1> QED
  BY <1>1, <1>2, <1>3, PTL DEF Spec
-----------------------------------------------------------------------------
(***************************************************************************)
(* One receiver: nothing is taken twice.                                   *)
(***************************************************************************)
ReceiverInv == TypeInv /\ NoDoubleTake

LEMMA ReceiverInvInit == Init => ReceiverInv
  BY TypeInvInit DEF Init, ReceiverInv, NoDoubleTake

LEMMA ReceiverInvStep == ReceiverInv /\ [Next]_vars => ReceiverInv'
<1> SUFFICES ASSUME ReceiverInv, [Next]_vars, OneReceiver' PROVE NoDoubleTake'
  BY TypeInvStep DEF ReceiverInv, NoDoubleTake
<1>1. OneReceiver
  BY SpawnedGrows DEF OneReceiver, ReceiverInv
<1> USE DEF ReceiverInv, TypeInv, TypeOK, SenderPC, ReceiverPC
<1>2. \A r \in Receivers : pc[r] = "clear_full" => full = 1
  BY <1>1 DEF NoDoubleTake
<1> USE DEF NoDoubleTake
<1>3. ASSUME NEW t \in Tasks, Spawn(t) PROVE NoDoubleTake'
  BY <1>2, <1>3 DEF Spawn
<1>4. ASSUME NEW s \in Senders, SeeEmpty(s) \/ CopyCell(s) \/ SetFull(s)
      PROVE  NoDoubleTake'
  <2>1. full' = full \/ full' = 1
    BY <1>4 DEF SeeEmpty, CopyCell, SetFull
  <2>2. \A r \in Receivers : pc'[r] = pc[r]
    BY <1>4 DEF SeeEmpty, CopyCell, SetFull, Again
  <2> QED
    BY <1>2, <2>1, <2>2
<1>5. ASSUME NEW r \in Receivers, SeeFull(r) PROVE NoDoubleTake'
  BY <1>2, <1>5 DEF SeeFull
<1>6. ASSUME NEW r \in Receivers, ClearFull(r) PROVE NoDoubleTake'
  <2>1. pc'[r] = "use"
    BY <1>6 DEF ClearFull
  <2>2. \A t \in Receivers : t # r => pc'[t] = pc[t] /\ pc[t] = "idle"
    BY <1>1, <1>6 DEF ClearFull, OneReceiver, Spawned
  <2> QED
    BY <2>1, <2>2
<1>7. ASSUME NEW r \in Receivers, ReadCell(r) PROVE NoDoubleTake'
  <2>1. full' = full /\ pc'[r] # "clear_full"
    BY <1>7 DEF ReadCell, Again
  <2>2. \A t \in Receivers : t # r => pc'[t] = pc[t]
    BY <1>7 DEF ReadCell, Again
  <2> QED
    BY <1>2, <2>1, <2>2
<1>8. CASE UNCHANGED vars
  BY <1>2, <1>8 DEF vars
<1> QED
  BY <1>3, <1>4, <1>5, <1>6, <1>7, <1>8 DEF Next

(* One receiver, any senders: q_get never takes an empty queue.            *)
THEOREM NothingTakenTwice == Spec => []NoDoubleTake
<1>1. Init => ReceiverInv
  BY ReceiverInvInit
<1>2. ReceiverInv /\ [Next]_vars => ReceiverInv'
  BY ReceiverInvStep
<1>3. ReceiverInv => NoDoubleTake
  BY DEF ReceiverInv
<1> QED
  BY <1>1, <1>2, <1>3, PTL DEF Spec
-----------------------------------------------------------------------------
(***************************************************************************)
(* One of each: the queue implements the mailbox.  Copying happens while   *)
(* the slot is empty, full = 1 is the mailbox's Put, full = 0 its Take,    *)
(* and everything else is a stuttering step.                               *)
(***************************************************************************)
Pair == (\A s, t \in Senders : s = t) /\ (\A r, t \in Receivers : r = t)

LEMMA PairInit == Init => Mail!MailboxInit
  BY DEF Init, Mail!MailboxInit

LEMMA PairStep ==
  ASSUME Pair, SenderInv, ReceiverInv, [Next]_vars
  PROVE  [Mail!MailboxNext]_(Mail!mailboxVars)
<1>1. OneSender /\ OneReceiver
  BY DEF Pair, OneSender, OneReceiver, Spawned
<1>2. /\ msg \in Text /\ full \in {0, 1}
      /\ \A s \in Senders : pc[s] \in {"copy", "set_full"} => full = 0
      /\ \A r \in Receivers : pc[r] = "clear_full" => full = 1
  BY <1>1 DEF SenderInv, ReceiverInv, TypeInv, TypeOK, NoOverwrite, NoDoubleTake
<1> USE DEF Mail!mailboxVars
<1>3. ASSUME NEW s \in Senders, CopyCell(s)
      PROVE  UNCHANGED Mail!mailboxVars
  BY <1>2, <1>3 DEF CopyCell
<1>4. ASSUME NEW s \in Senders, SetFull(s)
      PROVE  Mail!Put(msg)
  BY <1>2, <1>4 DEF SetFull, Mail!Put
<1>5. ASSUME NEW r \in Receivers, ClearFull(r)
      PROVE  Mail!Take
  BY <1>2, <1>5 DEF ClearFull, Mail!Take
<1>6. ASSUME NEW t \in Tasks, Spawn(t)
      PROVE  UNCHANGED Mail!mailboxVars
  BY <1>6 DEF Spawn
<1>7. ASSUME NEW s \in Senders, SeeEmpty(s)
      PROVE  UNCHANGED Mail!mailboxVars
  BY <1>7 DEF SeeEmpty
<1>8. ASSUME NEW r \in Receivers, SeeFull(r) \/ ReadCell(r)
      PROVE  UNCHANGED Mail!mailboxVars
  BY <1>8 DEF SeeFull, ReadCell
<1>9. CASE UNCHANGED vars
  BY <1>9 DEF vars
<1> QED
  BY <1>2, <1>3, <1>4, <1>5, <1>6, <1>7, <1>8, <1>9 DEF Next, Mail!MailboxNext

(* With one sender and one receiver every behaviour of the queue is a      *)
(* behaviour of the mailbox, whatever the messages and the schedule.       *)
THEOREM QueueIsMailbox == Pair => (Spec => MailboxSpec)
<1> SUFFICES ASSUME Pair PROVE Spec => MailboxSpec
  OBVIOUS
<1>1. Init => SenderInv /\ ReceiverInv /\ Mail!MailboxInit
  BY SenderInvInit, ReceiverInvInit, PairInit
<1>2. SenderInv /\ ReceiverInv /\ [Next]_vars => (SenderInv /\ ReceiverInv)'
  BY SenderInvStep, ReceiverInvStep
<1>3. SenderInv /\ ReceiverInv /\ [Next]_vars => [Mail!MailboxNext]_(Mail!mailboxVars)
  BY PairStep
<1> QED
  BY <1>1, <1>2, <1>3, PTL DEF Spec, MailboxSpec, Mail!MailboxSpec

(* A mailbox delivers every message once and in order.                     *)
MailInv == ExactlyOnceInOrder /\ TypeInv

LEMMA MailInvStep ==
  ASSUME MailInv, TypeInv', [Mail!MailboxNext]_(Mail!mailboxVars)
  PROVE  ExactlyOnceInOrder'
<1> DEFINE slot == IF full = 1 THEN <<msg>> ELSE << >>
<1> USE DEF TypeInv, TypeOK, MailInv, ExactlyOnceInOrder, Mail!ExactlyOnceInOrder
<1>1. /\ sent \in Seq(Text) /\ taken \in Seq(Text) /\ slot \in Seq(Text)
      /\ sent = taken \o slot
  OBVIOUS
<1>2. ASSUME NEW m \in Text, Mail!Put(m) PROVE ExactlyOnceInOrder'
  BY <1>1, <1>2, SMTT(30) DEF Mail!Put
<1>3. CASE Mail!Take
  BY <1>1, <1>3 DEF Mail!Take
<1>4. CASE UNCHANGED Mail!mailboxVars
  BY <1>1, <1>4 DEF Mail!mailboxVars
<1> QED
  BY <1>2, <1>3, <1>4 DEF Mail!MailboxNext

(* With one sender and one receiver the messages taken, followed by the    *)
(* one still waiting, are the messages sent, in the same order.            *)
THEOREM DeliversExactlyOnceInOrder == Pair => (Spec => []ExactlyOnceInOrder)
<1> SUFFICES ASSUME Pair PROVE Spec => []ExactlyOnceInOrder
  OBVIOUS
<1> DEFINE Inv == SenderInv /\ ReceiverInv /\ MailInv
<1>1. Init => Inv
  <2>1. Init => ExactlyOnceInOrder
    BY DEF Init, ExactlyOnceInOrder, Mail!ExactlyOnceInOrder
  <2> QED
    BY <2>1, SenderInvInit, ReceiverInvInit, TypeInvInit DEF MailInv
<1>2. Inv /\ [Next]_vars => Inv'
  <2> SUFFICES ASSUME Inv, [Next]_vars PROVE Inv'
    OBVIOUS
  <2>1. (SenderInv /\ ReceiverInv /\ TypeInv)'
    BY SenderInvStep, ReceiverInvStep, TypeInvStep DEF MailInv
  <2>2. ExactlyOnceInOrder'
    BY <2>1, PairStep, MailInvStep
  <2> QED
    BY <2>1, <2>2 DEF MailInv
<1>3. Inv => ExactlyOnceInOrder
  BY DEF MailInv
<1> QED
  BY <1>1, <1>2, <1>3, PTL DEF Spec
=============================================================================
