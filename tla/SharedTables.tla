--------------------------- MODULE SharedTables ---------------------------
(***************************************************************************)
(* What spawned tasks share without a lock, besides the queues themselves: *)
(*                                                                         *)
(*   q_registry, n_queues (tp_queue.c)  QCREATE appends, Q searches        *)
(*   tid, idx_tid (runtime.c)           SPAWN takes an entry               *)
(*   buf (long_to_s, builtins.c)        L>S formats into it, Q> copies it  *)
(*   vartable (variable.c)              VARIABLE reallocs it, a variable's *)
(*                                      name in a word reads it            *)
(*                                                                         *)
(* A task is a thread that runs words; an action is one access to a shared *)
(* structure.  `raced' records the structures on which two tasks have been *)
(* at work at once, each in the window in which it counts on no other: the *)
(* properties say what holds as long as that has not happened.             *)
(***************************************************************************)
EXTENDS Integers

CONSTANTS
  Tasks, Main,   \* the tasks; Main reads the lines, the others are spawned
  Names,         \* names of queues
  Numbers,       \* what L>S converts
  MaxQueues,     \* MAX_QUEUES
  MaxTid,        \* the last index of tid, 127
  MaxCalls,      \* bound: words the tasks run, all together
  None           \* NULL

ASSUME SharedAssumption ==
  /\ Main \in Tasks
  /\ MaxQueues \in Nat \ {0}
  /\ MaxTid \in Nat \ {0}
  /\ MaxCalls \in Nat
  /\ None \notin Names \cup Numbers

VARIABLES
  q_registry,    \* entry -> the name of its queue, or None
  n_queues,
  idx_tid,
  buf,           \* the static buffer of L>S
  slot,          \* slot[t]: the message in the queue that t sends to
  block,         \* which block of memory the table of variables is in
  vartable,      \* which block the global points to; 0 before the first VARIABLE
  pc,            \* what a task is about to do
  arg,           \* its operand: a name, a number, a task
  reg,           \* what it has loaded: an index, a block
  calls,         \* words run so far
  created,       \* history: names of the queues whose QCREATE has returned
  due,           \* history: the tasks in a Q that began with its queue created
  meant,         \* history: the number t last sent
  raced

registry == <<q_registry, n_queues, created, due>>
strings == <<buf, slot, meant>>
table == <<block, vartable>>
vars == <<registry, idx_tid, strings, table, pc, arg, reg, calls, raced>>

Entries == 0 .. (MaxQueues - 1)
Shared == {"registry", "tid", "buf", "vartable"}
PCs == {"idle", "ready", "q_bump", "q_fill", "q_scan", "missed", "crashed", "stray",
        "s_store", "s_check", "s_use", "s_load", "s_again", "held",
        "v_grow", "v_assign", "v_deref", "v_use"}

TypeOK ==
  /\ q_registry \in [Entries -> Names \cup {None}]
  /\ n_queues \in Nat
  /\ idx_tid \in Nat
  /\ buf \in Numbers \cup {None}
  /\ slot \in [Tasks -> Numbers \cup {None}]
  /\ block \in Nat
  /\ vartable \in Nat
  /\ pc \in [Tasks -> PCs]
  /\ arg \in [Tasks -> Names \cup Numbers \cup Tasks \cup {None}]
  /\ reg \in [Tasks -> Nat]
  /\ calls \in Nat
  /\ created \subseteq Names
  /\ due \subseteq Tasks
  /\ meant \in [Tasks -> Numbers \cup {None}]
  /\ raced \subseteq Shared

Init ==
  /\ q_registry = [i \in Entries |-> None]
  /\ n_queues = 0
  /\ idx_tid = 0
  /\ buf = None
  /\ slot = [t \in Tasks |-> None]
  /\ block = 0
  /\ vartable = 0
  /\ pc = [t \in Tasks |-> IF t = Main THEN "ready" ELSE "idle"]
  /\ arg = [t \in Tasks |-> None]
  /\ reg = [t \in Tasks |-> 0]
  /\ calls = 0
  /\ created = {}
  /\ due = {}
  /\ meant = [t \in Tasks |-> None]
  /\ raced = {}
-----------------------------------------------------------------------------
(***************************************************************************)
(* The windows, and how a task moves.                                      *)
(***************************************************************************)
Adding == {"q_bump", "q_fill"}
Spawning == {"s_store", "s_check", "s_use", "s_load", "s_again"}

Two(p, window) == \E t, u \in Tasks : t # u /\ p[t] \in window /\ p[u] \in window

(* Readers of the variable table do not disturb each other, only VARIABLE. *)
Overlaps(p) ==
  {r \in Shared :
    \/ r = "registry" /\ Two(p, Adding)
    \/ r = "tid" /\ Two(p, Spawning)
    \/ r = "buf" /\ Two(p, {"held"})
    \/ r = "vartable" /\ \E t, u \in Tasks : p[t] = "v_assign" /\ p[u] = "v_deref"}

MoveTo(p) == pc' = p /\ raced' = raced \cup Overlaps(p)
Move(t, to) == MoveTo([pc EXCEPT ![t] = to])
At(t, label) == pc[t] = label

(* The word returns: nothing it has loaded is used again.                  *)
Return(t) ==
  /\ Move(t, "ready")
  /\ arg' = [arg EXCEPT ![t] = None]
  /\ reg' = [reg EXCEPT ![t] = 0]

(* The next word of task t, with its operand and what it loads first.      *)
Word(t, operand, loaded, to) ==
  /\ At(t, "ready")
  /\ calls < MaxCalls
  /\ calls' = calls + 1
  /\ arg' = [arg EXCEPT ![t] = operand]
  /\ reg' = [reg EXCEPT ![t] = loaded]
  /\ Move(t, to)
-----------------------------------------------------------------------------
(***************************************************************************)
(* QCREATE: malloc the queue and copy its name, which no one sees, then    *)
(* q_registry[n_queues++] = q, which is a load and two stores.             *)
(***************************************************************************)
QCreate(t, name) ==
  /\ Word(t, name, n_queues, "q_bump")
  /\ UNCHANGED <<registry, idx_tid, strings, table>>

BumpQueues(t) ==
  /\ At(t, "q_bump")
  /\ n_queues' = reg[t] + 1
  /\ Move(t, "q_fill")
  /\ UNCHANGED <<q_registry, created, due, idx_tid, strings, table, arg, reg, calls>>

FillEntryAfter(t) ==             \* fault: q_registry[++n_queues] = q
  /\ At(t, "q_fill")
  /\ IF reg[t] + 1 \in Entries
     THEN /\ q_registry' = [q_registry EXCEPT ![reg[t] + 1] = arg[t]]
          /\ created' = created \cup {arg[t]}
          /\ Return(t)
     ELSE Move(t, "stray") /\ UNCHANGED <<q_registry, created, arg, reg>>
  /\ UNCHANGED <<n_queues, due, idx_tid, strings, table, calls>>

(* Nothing bounds the index: the 129th queue is written beyond the table.  *)
FillEntry(t) ==
  /\ At(t, "q_fill")
  /\ IF reg[t] \in Entries
     THEN /\ q_registry' = [q_registry EXCEPT ![reg[t]] = arg[t]]
          /\ created' = created \cup {arg[t]}
          /\ Return(t)
     ELSE Move(t, "stray") /\ UNCHANGED <<q_registry, created, arg, reg>>
  /\ UNCHANGED <<n_queues, due, idx_tid, strings, table, calls>>

(* Q: compare the name with every entry in turn, the unused ones too: a    *)
(* NULL entry has no name to compare with, and the process dies.           *)
QFind(t, name) ==
  /\ Word(t, name, 0, "q_scan")
  /\ due' = IF name \in created THEN due \cup {t} ELSE due
  /\ UNCHANGED <<q_registry, n_queues, created, idx_tid, strings, table>>

LookAtEntryDown(t) ==            \* fault: the search runs the wrong way
  /\ At(t, "q_scan")
  /\ reg[t] \in Entries
  /\ \/ /\ q_registry[reg[t]] = None
        /\ Move(t, "crashed")
        /\ UNCHANGED <<arg, reg, due>>
     \/ /\ q_registry[reg[t]] = arg[t]
        /\ Return(t)
        /\ due' = due \ {t}
     \/ /\ q_registry[reg[t]] \notin {None, arg[t]}
        /\ reg' = [reg EXCEPT ![t] = @ - 1]
        /\ UNCHANGED <<pc, raced, arg, due>>
  /\ UNCHANGED <<q_registry, n_queues, created, idx_tid, strings, table, calls>>

LookAtEntry(t) ==
  /\ At(t, "q_scan")
  /\ reg[t] \in Entries
  /\ \/ /\ q_registry[reg[t]] = None
        /\ Move(t, "crashed")
        /\ UNCHANGED <<arg, reg, due>>
     \/ /\ q_registry[reg[t]] = arg[t]
        /\ Return(t)
        /\ due' = due \ {t}
     \/ /\ q_registry[reg[t]] \notin {None, arg[t]}
        /\ reg' = [reg EXCEPT ![t] = @ + 1]
        /\ UNCHANGED <<pc, raced, arg, due>>
  /\ UNCHANGED <<q_registry, n_queues, created, idx_tid, strings, table, calls>>

EndOfTable(t) ==
  /\ At(t, "q_scan")
  /\ reg[t] \notin Entries
  /\ Move(t, "missed")
  /\ UNCHANGED <<registry, idx_tid, strings, table, arg, reg, calls>>

(* Q pushes 0 and the task goes on.                                        *)
GoOn(t) ==
  /\ At(t, "missed")
  /\ Return(t)
  /\ due' = due \ {t}
  /\ UNCHANGED <<q_registry, n_queues, created, idx_tid, strings, table, calls>>
-----------------------------------------------------------------------------
(***************************************************************************)
(* SPAWN: idx_tid++, back to 0 beyond the last entry, a thread into        *)
(* tid[idx_tid], and idx_tid++ once more.                                  *)
(***************************************************************************)
Spawn(t, u) ==
  /\ pc[u] = "idle"
  /\ \A s \in Tasks : pc[s] \in Spawning => arg[s] # u
  /\ Word(t, u, idx_tid, "s_store")
  /\ UNCHANGED <<registry, idx_tid, strings, table>>

StoreIndex(t) ==
  /\ At(t, "s_store")
  /\ idx_tid' = reg[t] + 1
  /\ Move(t, "s_check")
  /\ UNCHANGED <<registry, strings, table, arg, reg, calls>>

CheckBefore(t) ==                \* fault: the check for the increment after the last
  /\ At(t, "s_check")
  /\ idx_tid' = IF idx_tid = MaxTid + 1 THEN 0 ELSE idx_tid
  /\ Move(t, "s_use")
  /\ UNCHANGED <<registry, strings, table, arg, reg, calls>>

CheckIndex(t) ==
  /\ At(t, "s_check")
  /\ idx_tid' = IF idx_tid > MaxTid THEN 0 ELSE idx_tid
  /\ Move(t, "s_use")
  /\ UNCHANGED <<registry, strings, table, arg, reg, calls>>

(* pthread_create(&tid[idx_tid], ...): the new task runs from here on.     *)
StartThread(t) ==
  /\ At(t, "s_use")
  /\ MoveTo([pc EXCEPT ![t] = "s_load", ![arg[t]] = "ready"])
  /\ UNCHANGED <<registry, idx_tid, strings, table, arg, reg, calls>>

LoadAgain(t) ==
  /\ At(t, "s_load")
  /\ reg' = [reg EXCEPT ![t] = idx_tid]
  /\ Move(t, "s_again")
  /\ UNCHANGED <<registry, idx_tid, strings, table, arg, calls>>

StoreAgain(t) ==
  /\ At(t, "s_again")
  /\ idx_tid' = reg[t] + 1
  /\ Return(t)
  /\ UNCHANGED <<registry, strings, table, calls>>
-----------------------------------------------------------------------------
(***************************************************************************)
(* L>S, and Q> with its result, to a queue to which only t sends.  L>S     *)
(* pushes the address of buf; q_put waits for the queue to be empty and    *)
(* copies whatever buf holds then.                                         *)
(***************************************************************************)
LongToSOnce(t, n) ==             \* fault: the buffer is formatted only once
  /\ Word(t, n, 0, "held")
  /\ buf' = IF buf = None THEN n ELSE buf
  /\ UNCHANGED <<registry, idx_tid, slot, meant, table>>

LongToS(t, n) ==
  /\ Word(t, n, 0, "held")
  /\ buf' = n
  /\ UNCHANGED <<registry, idx_tid, slot, meant, table>>

Send(t) ==
  /\ At(t, "held")
  /\ slot[t] = None
  /\ slot' = [slot EXCEPT ![t] = buf]
  /\ meant' = [meant EXCEPT ![t] = arg[t]]
  /\ Return(t)
  /\ UNCHANGED <<registry, idx_tid, buf, table, calls>>

(* <Q by a task r that receives from t.                                    *)
Receive(r, t) ==
  /\ slot[t] # None
  /\ Word(r, None, 0, "ready")
  /\ slot' = [slot EXCEPT ![t] = None]
  /\ UNCHANGED <<registry, idx_tid, buf, meant, table>>
-----------------------------------------------------------------------------
(***************************************************************************)
(* VARIABLE, by the task that reads lines, and a variable's name in a word *)
(* that any task runs.  realloc frees the old block, or grows it in place. *)
(***************************************************************************)
Declare ==
  /\ Word(Main, None, 0, "v_grow")
  /\ UNCHANGED <<registry, idx_tid, strings, table>>

Realloc ==
  /\ At(Main, "v_grow")
  /\ \/ block' = block + 1
     \/ block # 0 /\ block' = block
  /\ Move(Main, "v_assign")
  /\ UNCHANGED <<registry, idx_tid, strings, vartable, arg, reg, calls>>

AssignIfNull ==                  \* fault: only the first block is assigned
  /\ At(Main, "v_assign")
  /\ vartable' = IF vartable = 0 THEN block ELSE vartable
  /\ Return(Main)
  /\ UNCHANGED <<registry, idx_tid, strings, block, calls>>

AssignTable ==
  /\ At(Main, "v_assign")
  /\ vartable' = block
  /\ Return(Main)
  /\ UNCHANGED <<registry, idx_tid, strings, block, calls>>

(* variable_get: load the table's address, then the entry; what it pushes  *)
(* is the address of the variable's own struct (0 here: no block).         *)
Variable(t) ==
  /\ vartable # 0
  /\ Word(t, None, vartable, "v_deref")
  /\ UNCHANGED <<registry, idx_tid, strings, table>>

VariableByEntry(t) ==            \* fault: the address of the entry is pushed
  /\ At(t, "v_deref")
  /\ Move(t, "v_use")
  /\ UNCHANGED <<registry, idx_tid, strings, table, arg, reg, calls>>

VariableGet(t) ==
  /\ At(t, "v_deref")
  /\ reg' = [reg EXCEPT ![t] = 0]
  /\ Move(t, "v_use")
  /\ UNCHANGED <<registry, idx_tid, strings, table, arg, calls>>

(* @ or !, through the address that the name pushed.                       *)
UseVariable(t) ==
  /\ At(t, "v_use")
  /\ Return(t)
  /\ UNCHANGED <<registry, idx_tid, strings, table, calls>>
-----------------------------------------------------------------------------
Queues(t) ==
  \/ \E name \in Names : QCreate(t, name) \/ QFind(t, name)
  \/ BumpQueues(t) \/ FillEntry(t) \/ LookAtEntry(t)
  \/ EndOfTable(t) \/ GoOn(t)

Spawns(t) ==
  \/ \E u \in Tasks : Spawn(t, u)
  \/ StoreIndex(t) \/ CheckIndex(t) \/ StartThread(t) \/ LoadAgain(t) \/ StoreAgain(t)

Strings(t) ==
  \/ \E n \in Numbers : LongToS(t, n)
  \/ Send(t) \/ \E u \in Tasks : Receive(t, u)

Variables(t) == Variable(t) \/ VariableGet(t) \/ UseVariable(t)

(* A NULL dereferenced, or memory beyond a table written, ends it all.     *)
Alive == \A t \in Tasks : pc[t] \notin {"crashed", "stray"}

Next ==
  /\ Alive
  /\ \/ \E t \in Tasks : Queues(t) \/ Spawns(t) \/ Strings(t) \/ Variables(t)
     \/ Declare \/ Realloc \/ AssignTable

Spec == Init /\ [][Next]_vars
-----------------------------------------------------------------------------
(***************************************************************************)
(* Properties.                                                             *)
(***************************************************************************)

(* As long as no two tasks create queues at once, a Q finds every queue    *)
(* whose QCREATE had returned when it began, however many others are being *)
(* created meanwhile: it neither misses it nor meets a NULL entry on the   *)
(* way.  (tp_queue.c:18, :29; queue.fs creates its queues before it spawns)*)
FindsWhatWasCreated ==
  "registry" \notin raced =>
    \A t \in Tasks : pc[t] \in {"missed", "crashed"} => t \notin due

(* As long as no two tasks spawn at once, the two increments and the check *)
(* between them keep every thread within tid, round after round.           *)
(* (runtime.c:200)                                                         *)
SpawnsWithinTable ==
  "tid" \notin raced => \A t \in Tasks : pc[t] = "s_use" => idx_tid <= MaxTid

(* As long as no two tasks hold the result of an L>S at once, the message  *)
(* in a queue is the number its sender converted, whatever has been        *)
(* converted since: q_put has copied it.  (builtins.c:568)                 *)
NumbersArrive ==
  "buf" \notin raced => \A t \in Tasks : slot[t] # None => slot[t] = meant[t]

(* As long as no VARIABLE reallocs the table while another task is between *)
(* the table's address and its entry, no task reads freed memory; and what *)
(* it has been given stays good when the table moves.  (variable.c:21)     *)
ReadsLiveTable ==
  "vartable" \notin raced =>
    \A t \in Tasks : pc[t] \in {"v_deref", "v_use"} => reg[t] \in {0, block}
=============================================================================
