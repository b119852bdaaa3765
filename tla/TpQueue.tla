------------------------------ MODULE TpQueue ------------------------------
(***************************************************************************)
(* tp_queue.c: the one-message queue through which TP-Forth tasks talk.    *)
(*                                                                         *)
(* Every spawned task is a POSIX thread, and the queue is a plain struct:  *)
(* a buffer `msg' of `msz' characters and an int `full', read and written  *)
(* with no lock.  An action is one access that other threads can see:      *)
(*                                                                         *)
(*   q_put:  poll full until 0; strcpy into msg, cell by cell; full = 1    *)
(*   q_get:  poll full until 1; full = 0; return a POINTER to msg, which   *)
(*           the reader's next words (S. or S>L) read cell by cell         *)
(*                                                                         *)
(* A poll that finds the flag wrong only sleeps (usleep) and polls again:  *)
(* it changes nothing, so it is a stuttering step.                         *)
(*                                                                         *)
(* The tasks are those of queue.fs and drive.fs: a sender runs Q> in a     *)
(* loop, a receiver runs <Q and uses what it got in a loop, and each is    *)
(* started (SPAWN) at any moment.                                          *)
(***************************************************************************)
EXTENDS Integers, Sequences, FiniteSets

CONSTANTS
  Senders,      \* tasks that loop over Q>
  Receivers,    \* tasks that loop over <Q
  Width,        \* characters of a message; strcpy and printf take them one by one
  MaxPuts,      \* bound: iterations of a sender's loop
  MaxGets,      \* bound: iterations of a receiver's loop
  NoText        \* what an uninitialised cell of the malloc'ed buffer holds

Cells == 1 .. Width

(* The k-th message of sender s: every cell holds the same mark, so that a *)
(* mixture of two messages is recognisable.                                *)
Mark == Senders \X (1 .. MaxPuts)
Text == [Cells -> Mark \cup {NoText}]
Whole(mark) == [i \in Cells |-> mark]

Tasks == Senders \cup Receivers

ASSUME QueueAssumption ==
  /\ Senders \cap Receivers = {}
  /\ Width \in Nat \ {0}
  /\ MaxPuts \in Nat \ {0}
  /\ MaxGets \in Nat \ {0}
  /\ NoText \notin Mark

VARIABLES
  full,     \* q->full
  msg,      \* q->msg, the buffer
  pc,       \* where each task is; "idle" until it is spawned
  cell,     \* the next cell a copying or reading task touches
  loop,     \* iterations of its loop the task has finished
  text,     \* what a receiver has read so far through the pointer <Q gave it
  held,     \* history: the buffer as it was when the receiver's q_get returned
  sent,     \* history: the buffer at each `full = 1', in order
  taken     \* history: the buffer at each `full = 0', in order

vars == <<full, msg, pc, cell, loop, text, held, sent, taken>>

SenderPC == {"idle", "wait_empty", "copy", "set_full", "done"}
ReceiverPC == {"idle", "wait_full", "clear_full", "use", "done"}

TypeOK ==
  /\ full \in {0, 1}
  /\ msg \in Text
  /\ pc \in [Tasks -> SenderPC \cup ReceiverPC]
  /\ \A s \in Senders : pc[s] \in SenderPC
  /\ \A r \in Receivers : pc[r] \in ReceiverPC
  /\ cell \in [Tasks -> 1 .. (Width + 1)]
  /\ loop \in [Tasks -> Nat]
  /\ text \in [Receivers -> Text]
  /\ held \in [Receivers -> Text]
  /\ sent \in Seq(Text)
  /\ taken \in Seq(Text)

(* q_create: malloc the buffer, full = 0.  The buffer is not cleared.      *)
Init ==
  /\ full = 0
  /\ msg = Whole(NoText)
  /\ pc = [t \in Tasks |-> "idle"]
  /\ cell = [t \in Tasks |-> 1]
  /\ loop = [t \in Tasks |-> 0]
  /\ text = [r \in Receivers |-> Whole(NoText)]
  /\ held = [r \in Receivers |-> Whole(NoText)]
  /\ sent = << >>
  /\ taken = << >>
-----------------------------------------------------------------------------
(***************************************************************************)
(* Tasks.                                                                  *)
(***************************************************************************)

(* ' sender SPAWN, ' receiver SPAWN                                        *)
Spawn(t) ==
  /\ pc[t] = "idle"
  /\ pc' = [pc EXCEPT ![t] = IF t \in Senders THEN "wait_empty" ELSE "wait_full"]
  /\ UNCHANGED <<full, msg, cell, loop, text, held, sent, taken>>

(* LOOP: back to the body, or out of it after the last iteration.          *)
Again(t, body, bound) ==
  /\ loop' = [loop EXCEPT ![t] = @ + 1]
  /\ cell' = [cell EXCEPT ![t] = 1]
  /\ pc' = [pc EXCEPT ![t] = IF loop[t] + 1 < bound THEN body ELSE "done"]
-----------------------------------------------------------------------------
(***************************************************************************)
(* Q>, by sender s.                                                        *)
(***************************************************************************)

SeeEmptyUnguarded(s) ==          \* fault: a sender that does not wait
  /\ pc[s] = "wait_empty"
  /\ pc' = [pc EXCEPT ![s] = "copy"]
  /\ UNCHANGED <<full, msg, cell, loop, text, held, sent, taken>>

(* while (q->full) usleep(300): the poll that sees 0.                      *)
SeeEmpty(s) ==
  /\ pc[s] = "wait_empty"
  /\ full = 0
  /\ pc' = [pc EXCEPT ![s] = "copy"]
  /\ UNCHANGED <<full, msg, cell, loop, text, held, sent, taken>>

CopyShort(s) ==                  \* fault: the copy stops after one character
  /\ pc[s] = "copy"
  /\ msg' = [msg EXCEPT ![cell[s]] = <<s, loop[s] + 1>>]
  /\ cell' = [cell EXCEPT ![s] = @ + 1]
  /\ pc' = [pc EXCEPT ![s] = "set_full"]
  /\ UNCHANGED <<full, loop, text, held, sent, taken>>

CopyOnePast(s) ==                \* fault: the copy runs one character too far
  /\ pc[s] = "copy"
  /\ msg' = [msg EXCEPT ![cell[s]] = <<s, loop[s] + 1>>]
  /\ cell' = [cell EXCEPT ![s] = @ + 1]
  /\ pc' = [pc EXCEPT ![s] = IF cell[s] > Width THEN "set_full" ELSE "copy"]
  /\ UNCHANGED <<full, loop, text, held, sent, taken>>

(* strcpy(q->msg, msg), one cell.                                          *)
CopyCell(s) ==
  /\ pc[s] = "copy"
  /\ msg' = [msg EXCEPT ![cell[s]] = <<s, loop[s] + 1>>]
  /\ cell' = [cell EXCEPT ![s] = @ + 1]
  /\ pc' = [pc EXCEPT ![s] = IF cell[s] = Width THEN "set_full" ELSE "copy"]
  /\ UNCHANGED <<full, loop, text, held, sent, taken>>

SetFullForgotten(s) ==           \* fault: the flag is never raised
  /\ pc[s] = "set_full"
  /\ sent' = Append(sent, msg)
  /\ Again(s, "wait_empty", MaxPuts)
  /\ UNCHANGED <<full, msg, text, held, taken>>

(* q->full = 1                                                             *)
SetFull(s) ==
  /\ pc[s] = "set_full"
  /\ full' = 1
  /\ sent' = Append(sent, msg)
  /\ Again(s, "wait_empty", MaxPuts)
  /\ UNCHANGED <<msg, text, held, taken>>

-----------------------------------------------------------------------------
(***************************************************************************)
(* <Q and the word that uses its result, by receiver r.                    *)
(***************************************************************************)

SeeFullUnguarded(r) ==           \* fault: a receiver that does not wait
  /\ pc[r] = "wait_full"
  /\ pc' = [pc EXCEPT ![r] = "clear_full"]
  /\ UNCHANGED <<full, msg, cell, loop, text, held, sent, taken>>

(* while (!q->full) usleep(300): the poll that sees 1.                     *)
SeeFull(r) ==
  /\ pc[r] = "wait_full"
  /\ full = 1
  /\ pc' = [pc EXCEPT ![r] = "clear_full"]
  /\ UNCHANGED <<full, msg, cell, loop, text, held, sent, taken>>

ClearFullForgotten(r) ==         \* fault: the slot is never released
  /\ pc[r] = "clear_full"
  /\ taken' = Append(taken, msg)
  /\ held' = [held EXCEPT ![r] = msg]
  /\ text' = [text EXCEPT ![r] = Whole(NoText)]
  /\ pc' = [pc EXCEPT ![r] = "use"]
  /\ UNCHANGED <<full, msg, cell, loop, sent>>

(* q->full = 0; return q->msg: from here on the receiver holds a pointer   *)
(* into the buffer, not a copy of the message.                             *)
ClearFull(r) ==
  /\ pc[r] = "clear_full"
  /\ full' = 0
  /\ taken' = Append(taken, msg)
  /\ held' = [held EXCEPT ![r] = msg]
  /\ text' = [text EXCEPT ![r] = Whole(NoText)]
  /\ pc' = [pc EXCEPT ![r] = "use"]
  /\ UNCHANGED <<msg, cell, loop, sent>>

(* S. or S>L reads the next cell through the pointer; after the last one   *)
(* the receiver's loop goes round.                                         *)
ReadCell(r) ==
  /\ pc[r] = "use"
  /\ text' = [text EXCEPT ![r][cell[r]] = msg[cell[r]]]
  /\ IF cell[r] < Width
     THEN /\ cell' = [cell EXCEPT ![r] = @ + 1]
          /\ UNCHANGED <<pc, loop>>
     ELSE Again(r, "wait_full", MaxGets)
  /\ UNCHANGED <<full, msg, held, sent, taken>>
-----------------------------------------------------------------------------
Next ==
  \/ \E t \in Tasks : Spawn(t)
  \/ \E s \in Senders : SeeEmpty(s) \/ CopyCell(s) \/ SetFull(s)
  \/ \E r \in Receivers : SeeFull(r) \/ ClearFull(r) \/ ReadCell(r)

Spec == Init /\ [][Next]_vars

(***************************************************************************)
(* A spawned task is a pthread: the operating system keeps scheduling it,  *)
(* and usleep returns.  Nothing obliges anyone to spawn a task, and a poll *)
(* is only weakly fair: it may miss a flag that does not stay up.          *)
(***************************************************************************)
Fairness ==
  /\ \A s \in Senders : WF_vars(SeeEmpty(s) \/ CopyCell(s) \/ SetFull(s))
  /\ \A r \in Receivers : WF_vars(SeeFull(r) \/ ClearFull(r) \/ ReadCell(r))

FairSpec == Spec /\ Fairness
-----------------------------------------------------------------------------
(***************************************************************************)
(* Properties.                                                             *)
(***************************************************************************)
Spawned(S) == {t \in S : pc[t] # "idle"}
OneSender == \A s, t \in Spawned(Senders) : s = t
OneReceiver == \A r, t \in Spawned(Receivers) : r = t

(* With one sender, whatever the number of receivers, q_put never writes   *)
(* over a message that nobody has taken: the sender that has left its poll *)
(* loop still finds the queue empty, up to its own full = 1.               *)
NoOverwrite ==
  OneSender => \A s \in Senders : pc[s] \in {"copy", "set_full"} => full = 0

(* With one sender, a message in the queue is whole: never the mixture of  *)
(* two messages that strcpy leaves when two senders pass the poll together.*)
NoTornMessage ==
  OneSender /\ full = 1 => \E mark \in Mark : msg = Whole(mark)

(* With one receiver, whatever the number of senders, q_get never takes an *)
(* empty queue: between its poll and its full = 0 the message stays there, *)
(* so no message is received twice.                                        *)
NoDoubleTake ==
  OneReceiver => \A r \in Receivers : pc[r] = "clear_full" => full = 1

(* With one sender, a message that was sent and is not the one still in    *)
(* the queue has been taken at least once: two receivers may both get it,  *)
(* but none is lost.                                                       *)
NoLostMessage ==
  OneSender =>
    \A n \in 1 .. (Len(sent) - full) : \E k \in 1 .. Len(taken) : taken[k] = sent[n]

(* drive.fs:5 and :25 take it for granted: what <Q hands to the next word  *)
(* is the message that was in the queue.  It is a pointer into the queue's *)
(* buffer, and full is already 0 again when the word reads through it.     *)
ReadsWhatItTook ==
  \A r \in Receivers : pc[r] = "use" =>
    \A i \in 1 .. (cell[r] - 1) : text[r][i] = held[r][i]

(* One sender and one receiver, both spawned: everything the sender has to *)
(* say arrives, if the receiver's loop is long enough to hear it.          *)
AllDelivered ==
  \A s \in Senders, r \in Receivers :
    (pc[s] # "idle" /\ pc[r] # "idle") ~>
      (pc[s] = "done" /\ taken = sent /\ Len(taken) = MaxPuts)

(* The queue as a mailbox: a message is in it from full = 1 to full = 0.   *)
Mail == INSTANCE Mailbox WITH
  Message <- Text,
  slot <- IF full = 1 THEN <<msg>> ELSE << >>

MailboxSpec == Mail!MailboxSpec
ExactlyOnceInOrder == Mail!ExactlyOnceInOrder
=============================================================================
