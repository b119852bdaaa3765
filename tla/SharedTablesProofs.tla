------------------------ MODULE SharedTablesProofs ------------------------
(***************************************************************************)
(* Proofs about SharedTables for every number of tasks and names and every *)
(* size of the tables.                                                     *)
(*                                                                         *)
(* Every step either leaves pc and raced alone or records the overlaps of  *)
(* the pc it makes (StepRecords), so a structure that is not in raced has  *)
(* one task at most in its window.  Each property then has an inductive    *)
(* invariant of its own, about the values that one task counts on.         *)
(***************************************************************************)
EXTENDS SharedTables, TLAPS

USE SharedAssumption DEF Entries, Shared, PCs

Operand == Names \cup Numbers \cup Tasks \cup {None}

LEMMA MoveToTypes ==
  ASSUME TypeOK, NEW p \in [Tasks -> PCs], MoveTo(p)
  PROVE  pc' \in [Tasks -> PCs] /\ raced' \subseteq Shared
  BY DEF MoveTo, Overlaps, TypeOK

LEMMA MoveTypes ==
  ASSUME TypeOK, NEW t \in Tasks, NEW to \in PCs, Move(t, to)
  PROVE  pc' \in [Tasks -> PCs] /\ raced' \subseteq Shared
<1>1. [pc EXCEPT ![t] = to] \in [Tasks -> PCs]
  BY DEF TypeOK
<1> QED
  BY <1>1, MoveToTypes DEF Move

LEMMA ReturnTypes ==
  ASSUME TypeOK, NEW t \in Tasks, Return(t)
  PROVE  /\ pc' \in [Tasks -> PCs] /\ raced' \subseteq Shared
         /\ arg' \in [Tasks -> Operand] /\ reg' \in [Tasks -> Nat]
<1>1. Move(t, "ready")
  BY DEF Return
<1>2. pc' \in [Tasks -> PCs] /\ raced' \subseteq Shared
  BY <1>1, MoveTypes
<1> QED
  BY <1>2 DEF Return, TypeOK, Operand

LEMMA WordTypes ==
  ASSUME TypeOK, NEW t \in Tasks, NEW operand \in Operand, NEW loaded \in Nat,
         NEW to \in PCs, Word(t, operand, loaded, to)
  PROVE  /\ pc' \in [Tasks -> PCs] /\ raced' \subseteq Shared
         /\ arg' \in [Tasks -> Operand] /\ reg' \in [Tasks -> Nat]
         /\ calls' \in Nat
<1>1. pc' \in [Tasks -> PCs] /\ raced' \subseteq Shared
  BY MoveTypes DEF Word
<1>2. arg' \in [Tasks -> Operand]
  BY DEF Word, TypeOK, Operand
<1>3. reg' \in [Tasks -> Nat] /\ calls' \in Nat
  BY DEF Word, TypeOK
<1> QED
  BY <1>1, <1>2, <1>3

(* What an operand is depends on the word.                                 *)
OperandsFit ==
  \A t \in Tasks :
    /\ pc[t] \in Adding \cup {"q_scan"} => arg[t] \in Names
    /\ pc[t] = "held" => arg[t] \in Numbers

TypeInv == TypeOK /\ OperandsFit

LEMMA TypesInit == Init => TypeInv
  BY DEF Init, TypeInv, TypeOK, OperandsFit, Adding

LEMMA TypesStep == TypeInv /\ [Next]_vars => TypeInv'
<1> SUFFICES ASSUME TypeInv, [Next]_vars PROVE TypeInv'
  OBVIOUS
<1>a. TypeOK'
  <2> USE MoveTypes, ReturnTypes, WordTypes
      DEF TypeInv, TypeOK, OperandsFit, Operand, Adding, At, strings, table, registry
  <2>1. ASSUME NEW t \in Tasks, Queues(t) PROVE TypeOK'
    <3>1. ASSUME NEW name \in Names, QCreate(t, name) PROVE TypeOK'
      BY <3>1 DEF QCreate
    <3>2. ASSUME NEW name \in Names, QFind(t, name) PROVE TypeOK'
      BY <3>2 DEF QFind
    <3>3. CASE BumpQueues(t)
      BY <3>3 DEF BumpQueues
    <3>4. CASE FillEntry(t)
      <4>1. arg[t] \in Names
        BY <3>4 DEF FillEntry
      <4>2. CASE reg[t] \in Entries
        <5>1. /\ q_registry' = [q_registry EXCEPT ![reg[t]] = arg[t]]
              /\ created' = created \cup {arg[t]}
              /\ Return(t)
              /\ UNCHANGED <<n_queues, due, idx_tid, buf, slot, meant, block, vartable, calls>>
          BY <3>4, <4>2 DEF FillEntry
        <5>2. q_registry' \in [Entries -> Names \cup {None}] /\ created' \subseteq Names
          BY <4>1, <5>1
        <5>3. /\ pc' \in [Tasks -> PCs] /\ raced' \subseteq Shared
              /\ arg' \in [Tasks -> Operand] /\ reg' \in [Tasks -> Nat]
          BY <5>1, ReturnTypes
        <5> QED
          BY <5>1, <5>2, <5>3
      <4>3. CASE reg[t] \notin Entries
        BY <3>4, <4>3 DEF FillEntry
      <4> QED
        BY <4>2, <4>3
    <3>5. CASE LookAtEntry(t)
      <4>1. CASE Move(t, "crashed") /\ UNCHANGED <<arg, reg, due>>
        BY <3>5, <4>1 DEF LookAtEntry
      <4>2. CASE Return(t) /\ due' = due \ {t}
        BY <3>5, <4>2 DEF LookAtEntry
      <4>3. CASE reg' = [reg EXCEPT ![t] = @ + 1] /\ UNCHANGED <<pc, raced, arg, due>>
        BY <3>5, <4>3 DEF LookAtEntry
      <4> QED
        BY <3>5, <4>1, <4>2, <4>3 DEF LookAtEntry
    <3>6. CASE EndOfTable(t)
      BY <3>6 DEF EndOfTable
    <3>7. CASE GoOn(t)
      BY <3>7 DEF GoOn
    <3> QED
      BY <2>1, <3>1, <3>2, <3>3, <3>4, <3>5, <3>6, <3>7 DEF Queues
  <2>2. ASSUME NEW t \in Tasks, Spawns(t) PROVE TypeOK'
    <3>1. ASSUME NEW u \in Tasks, Spawn(t, u) PROVE TypeOK'
      BY <3>1 DEF Spawn
    <3>2. CASE StoreIndex(t)
      BY <3>2 DEF StoreIndex
    <3>3. CASE CheckIndex(t)
      BY <3>3 DEF CheckIndex
    <3>4. CASE StartThread(t)
      <4>1. [pc EXCEPT ![t] = "s_load", ![arg[t]] = "ready"] \in [Tasks -> PCs]
        OBVIOUS
      <4> QED
        BY <3>4, <4>1, MoveToTypes DEF StartThread
    <3>5. CASE LoadAgain(t)
      BY <3>5 DEF LoadAgain
    <3>6. CASE StoreAgain(t)
      BY <3>6 DEF StoreAgain
    <3> QED
      BY <2>2, <3>1, <3>2, <3>3, <3>4, <3>5, <3>6 DEF Spawns
  <2>3. ASSUME NEW t \in Tasks, Strings(t) PROVE TypeOK'
    <3>1. ASSUME NEW n \in Numbers, LongToS(t, n) PROVE TypeOK'
      BY <3>1 DEF LongToS
    <3>2. CASE Send(t)
      BY <3>2 DEF Send
    <3>3. ASSUME NEW u \in Tasks, Receive(t, u) PROVE TypeOK'
      BY <3>3 DEF Receive
    <3> QED
      BY <2>3, <3>1, <3>2, <3>3 DEF Strings
  <2>4. ASSUME NEW t \in Tasks, Variables(t) PROVE TypeOK'
    <3>1. CASE Variable(t)
      BY <3>1 DEF Variable
    <3>2. CASE VariableGet(t)
      BY <3>2 DEF VariableGet
    <3>3. CASE UseVariable(t)
      BY <3>3 DEF UseVariable
    <3> QED
      BY <2>4, <3>1, <3>2, <3>3 DEF Variables
  <2>5. CASE Declare
    BY <2>5 DEF Declare
  <2>6. CASE Realloc
    BY <2>6 DEF Realloc
  <2>7. CASE AssignTable
    BY <2>7 DEF AssignTable
  <2>8. CASE UNCHANGED vars
    BY <2>8 DEF vars
  <2> QED
    BY <2>1, <2>2, <2>3, <2>4, <2>5, <2>6, <2>7, <2>8 DEF Next
<1>b. OperandsFit'
  <2> USE DEF TypeInv, TypeOK, OperandsFit, Adding, At, Move, MoveTo, Word, Return
  <2>1. ASSUME NEW t \in Tasks, Queues(t) PROVE OperandsFit'
    BY <2>1 DEF Queues, QCreate, QFind, BumpQueues, FillEntry, LookAtEntry, EndOfTable, GoOn
  <2>2. ASSUME NEW t \in Tasks, Spawns(t) PROVE OperandsFit'
    <3>1. ASSUME NEW u \in Tasks, Spawn(t, u) PROVE OperandsFit'
      BY <3>1 DEF Spawn
    <3>2. CASE StoreIndex(t) \/ CheckIndex(t) \/ LoadAgain(t) \/ StoreAgain(t)
      BY <3>2 DEF StoreIndex, CheckIndex, LoadAgain, StoreAgain
    <3>3. CASE StartThread(t)
      BY <3>3 DEF StartThread
    <3> QED
      BY <2>2, <3>1, <3>2, <3>3 DEF Spawns
  <2>3. ASSUME NEW t \in Tasks, Strings(t) PROVE OperandsFit'
    <3>1. ASSUME NEW n \in Numbers, LongToS(t, n) PROVE OperandsFit'
      BY <3>1 DEF LongToS
    <3>2. CASE Send(t)
      BY <3>2 DEF Send
    <3>3. ASSUME NEW u \in Tasks, Receive(t, u) PROVE OperandsFit'
      BY <3>3 DEF Receive
    <3> QED
      BY <2>3, <3>1, <3>2, <3>3 DEF Strings
  <2>4. ASSUME NEW t \in Tasks, Variables(t) PROVE OperandsFit'
    BY <2>4 DEF Variables, Variable, VariableGet, UseVariable
  <2>5. CASE Declare \/ Realloc \/ AssignTable
    BY <2>5 DEF Declare, Realloc, AssignTable
  <2>6. CASE UNCHANGED vars
    BY <2>6 DEF vars
  <2> QED
    BY <2>1, <2>2, <2>3, <2>4, <2>5, <2>6 DEF Next
<1> QED
  BY <1>a, <1>b DEF TypeInv

(* The types of all variables, whatever the tasks do to each other.        *)
THEOREM TypesHold == Spec => []TypeOK
  BY TypesInit, TypesStep, PTL DEF Spec, TypeInv
-----------------------------------------------------------------------------
(***************************************************************************)
(* One task at a time in a window that has not been raced for.             *)
(***************************************************************************)
Recorded == Overlaps(pc) \subseteq raced

LEMMA RecordedInit == Init => Recorded
  BY DEF Init, Recorded, Overlaps, Two, Adding, Spawning

(* Every step records the overlaps of the pc it makes, or makes none.      *)
LEMMA StepRecords ==
  [Next]_vars => raced' = raced \cup Overlaps(pc') \/ UNCHANGED <<pc, raced>>
<1> SUFFICES ASSUME [Next]_vars
             PROVE raced' = raced \cup Overlaps(pc') \/ UNCHANGED <<pc, raced>>
  OBVIOUS
<1> USE DEF Move, MoveTo, Word, Return
<1>1. ASSUME NEW t \in Tasks, Queues(t) \/ Spawns(t) \/ Strings(t) \/ Variables(t)
      PROVE raced' = raced \cup Overlaps(pc') \/ UNCHANGED <<pc, raced>>
  BY <1>1 DEF Queues, QCreate, QFind, BumpQueues, FillEntry, LookAtEntry, EndOfTable,
     GoOn, Spawns, Spawn, StoreIndex, CheckIndex, StartThread, LoadAgain, StoreAgain,
     Strings, LongToS, Send, Receive, Variables, Variable, VariableGet, UseVariable
<1>2. CASE Declare \/ Realloc \/ AssignTable
  BY <1>2 DEF Declare, Realloc, AssignTable
<1>3. CASE UNCHANGED vars
  BY <1>3 DEF vars
<1> QED
  BY <1>1, <1>2, <1>3 DEF Next

LEMMA RecordedStep == Recorded /\ [Next]_vars => Recorded'
  BY StepRecords DEF Recorded

LEMMA RacedGrows == [Next]_vars => raced \subseteq raced'
  BY StepRecords

LEMMA OneInWindow ==
  ASSUME Recorded'
  PROVE  /\ "registry" \notin raced' => ~Two(pc', Adding)
         /\ "tid" \notin raced' => ~Two(pc', Spawning)
         /\ "buf" \notin raced' => ~Two(pc', {"held"})
         /\ "vartable" \notin raced' =>
              ~\E t, u \in Tasks : pc'[t] = "v_assign" /\ pc'[u] = "v_deref"
<1>1. Overlaps(pc') \subseteq raced'
  BY DEF Recorded
<1> QED
  BY <1>1 DEF Overlaps

LEMMA OneInWindowNow ==
  ASSUME Recorded
  PROVE  /\ "registry" \notin raced => ~Two(pc, Adding)
         /\ "tid" \notin raced => ~Two(pc, Spawning)
  BY DEF Recorded, Overlaps

(* A task about to be started is idle, and no other is starting it.        *)
SpawnsIdle ==
  \A t \in Tasks : pc[t] \in {"s_store", "s_check", "s_use"} =>
    /\ arg[t] \in Tasks
    /\ pc[arg[t]] = "idle"
    /\ \A s \in Tasks : s # t /\ pc[s] \in {"s_store", "s_check", "s_use"} => arg[s] # arg[t]

Base == TypeInv /\ Recorded /\ SpawnsIdle

LEMMA SpawnsIdleStep == TypeInv /\ SpawnsIdle /\ [Next]_vars => SpawnsIdle'
<1> SUFFICES ASSUME TypeInv, SpawnsIdle, [Next]_vars PROVE SpawnsIdle'
  OBVIOUS
<1> USE DEF TypeInv, TypeOK, SpawnsIdle, Adding, Spawning, At, Move, MoveTo, Word, Return
<1>1. ASSUME NEW t \in Tasks, Queues(t) PROVE SpawnsIdle'
  <2>1. ASSUME NEW name \in Names, QCreate(t, name) \/ QFind(t, name) PROVE SpawnsIdle'
    BY <2>1, SMTT(30) DEF QCreate, QFind
  <2>2. CASE BumpQueues(t) \/ FillEntry(t)
    <3>1. CASE BumpQueues(t)
      BY <3>1 DEF BumpQueues
    <3>2. CASE FillEntry(t)
      <4>1. CASE Return(t)
        BY <3>2, <4>1 DEF FillEntry
      <4>2. CASE Move(t, "stray") /\ UNCHANGED arg
        BY <3>2, <4>2 DEF FillEntry
      <4> QED
        BY <3>2, <4>1, <4>2 DEF FillEntry
    <3> QED
      BY <2>2, <3>1, <3>2
  <2>3. CASE LookAtEntry(t) \/ EndOfTable(t) \/ GoOn(t)
    <3>1. CASE LookAtEntry(t)
      <4>1. CASE Return(t)
        BY <3>1, <4>1 DEF LookAtEntry
      <4>2. CASE UNCHANGED arg /\ (Move(t, "crashed") \/ UNCHANGED pc)
        BY <3>1, <4>2 DEF LookAtEntry
      <4> QED
        BY <3>1, <4>1, <4>2 DEF LookAtEntry
    <3>2. CASE EndOfTable(t)
      BY <3>2 DEF EndOfTable
    <3>3. CASE GoOn(t)
      BY <3>3 DEF GoOn
    <3> QED
      BY <2>3, <3>1, <3>2, <3>3
  <2> QED
    BY <1>1, <2>1, <2>2, <2>3 DEF Queues
<1>2. ASSUME NEW t \in Tasks, Spawns(t) PROVE SpawnsIdle'
  <2>1. ASSUME NEW u \in Tasks, Spawn(t, u) PROVE SpawnsIdle'
    BY <2>1 DEF Spawn
  <2>2. CASE StoreIndex(t) \/ CheckIndex(t) \/ LoadAgain(t) \/ StoreAgain(t)
    BY <2>2 DEF StoreIndex, CheckIndex, LoadAgain, StoreAgain
  <2>3. CASE StartThread(t)
    BY <2>3, SMTT(30) DEF StartThread
  <2> QED
    BY <1>2, <2>1, <2>2, <2>3 DEF Spawns
<1>3. ASSUME NEW t \in Tasks, Strings(t) PROVE SpawnsIdle'
  <2>1. ASSUME NEW n \in Numbers, LongToS(t, n) PROVE SpawnsIdle'
    BY <2>1 DEF LongToS
  <2>2. CASE Send(t)
    BY <2>2 DEF Send
  <2>3. ASSUME NEW u \in Tasks, Receive(t, u) PROVE SpawnsIdle'
    BY <2>3 DEF Receive
  <2> QED
    BY <1>3, <2>1, <2>2, <2>3 DEF Strings
<1>4. ASSUME NEW t \in Tasks, Variables(t) PROVE SpawnsIdle'
  BY <1>4 DEF Variables, Variable, VariableGet, UseVariable
<1>5. CASE Declare \/ Realloc \/ AssignTable
  BY <1>5 DEF Declare, Realloc, AssignTable
<1>6. CASE UNCHANGED vars
  BY <1>6 DEF vars
<1> QED
  BY <1>1, <1>2, <1>3, <1>4, <1>5, <1>6 DEF Next

LEMMA BaseInit == Init => Base
  BY TypesInit, RecordedInit DEF Init, Base, SpawnsIdle

LEMMA BaseStep == Base /\ [Next]_vars => Base'
  BY TypesStep, RecordedStep, SpawnsIdleStep DEF Base
-----------------------------------------------------------------------------
(***************************************************************************)
(* The variable table.                                                     *)
(***************************************************************************)
TableInv ==
  "vartable" \notin raced =>
    /\ pc[Main] # "v_assign" => vartable = block
    /\ \A t \in Tasks : /\ pc[t] = "v_deref" => reg[t] = block
                        /\ pc[t] = "v_use" => reg[t] = 0

LEMMA TableStep == Base /\ TableInv /\ [Next]_vars => TableInv'
<1> SUFFICES ASSUME Base, TableInv, [Next]_vars, "vartable" \notin raced'
             PROVE TableInv'
  BY DEF TableInv
<1>0. "vartable" \notin raced
  BY RacedGrows
<1>a. ~\E t, u \in Tasks : pc'[t] = "v_assign" /\ pc'[u] = "v_deref"
  BY RecordedStep, OneInWindow DEF Base
<1> USE <1>0 DEF Base, TypeInv, TypeOK, SpawnsIdle, TableInv, At, Move, MoveTo, Word, Return, table
<1>1. ASSUME NEW t \in Tasks, Queues(t) PROVE TableInv'
  BY <1>1 DEF Queues, QCreate, QFind, BumpQueues, FillEntry, LookAtEntry, EndOfTable, GoOn
<1>2. ASSUME NEW t \in Tasks, Spawns(t) PROVE TableInv'
  <2>1. ASSUME NEW u \in Tasks, Spawn(t, u) PROVE TableInv'
    BY <2>1 DEF Spawn
  <2>2. CASE StoreIndex(t) \/ CheckIndex(t) \/ LoadAgain(t) \/ StoreAgain(t)
    <3>1. CASE StoreIndex(t)
      BY <3>1 DEF StoreIndex
    <3>2. CASE CheckIndex(t)
      BY <3>2 DEF CheckIndex
    <3>3. CASE LoadAgain(t)
      BY <3>3 DEF LoadAgain
    <3>4. CASE StoreAgain(t)
      BY <3>4 DEF StoreAgain
    <3> QED
      BY <2>2, <3>1, <3>2, <3>3, <3>4
  <2>3. CASE StartThread(t)
    BY <2>3 DEF StartThread
  <2> QED
    BY <1>2, <2>1, <2>2, <2>3 DEF Spawns
<1>3. ASSUME NEW t \in Tasks, Strings(t) PROVE TableInv'
  BY <1>3 DEF Strings, LongToS, Send, Receive
<1>4. ASSUME NEW t \in Tasks, Variables(t) PROVE TableInv'
  <2>1. CASE Variable(t)
    BY <1>a, <2>1 DEF Variable
  <2>2. CASE VariableGet(t)
    BY <2>2 DEF VariableGet
  <2>3. CASE UseVariable(t)
    BY <2>3 DEF UseVariable
  <2> QED
    BY <1>4, <2>1, <2>2, <2>3 DEF Variables
<1>5. CASE Declare
  BY <1>5 DEF Declare
<1>6. CASE Realloc
  BY <1>a, <1>6 DEF Realloc
<1>7. CASE AssignTable
  BY <1>7 DEF AssignTable
<1>8. CASE UNCHANGED vars
  BY <1>8 DEF vars
<1> QED
  BY <1>1, <1>2, <1>3, <1>4, <1>5, <1>6, <1>7, <1>8 DEF Next

(* No task reads a freed table, unless a VARIABLE was between realloc and  *)
(* its assignment while another task was between table and entry.          *)
THEOREM TableReadsAreLive == Spec => []ReadsLiveTable
<1>1. Init => Base /\ TableInv
  BY BaseInit DEF Init, TableInv
<1>2. Base /\ TableInv /\ [Next]_vars => Base' /\ TableInv'
  BY BaseStep, TableStep
<1>3. TableInv => ReadsLiveTable
  BY DEF TableInv, ReadsLiveTable
<1> QED
  BY <1>1, <1>2, <1>3, PTL DEF Spec
-----------------------------------------------------------------------------
(***************************************************************************)
(* The buffer of L>S.                                                      *)
(***************************************************************************)
NumbersInv ==
  "buf" \notin raced =>
    \A t \in Tasks : /\ pc[t] = "held" => buf = arg[t]
                     /\ slot[t] # None => slot[t] = meant[t]

LEMMA NumbersStep == Base /\ NumbersInv /\ [Next]_vars => NumbersInv'
<1> SUFFICES ASSUME Base, NumbersInv, [Next]_vars, "buf" \notin raced'
             PROVE NumbersInv'
  BY DEF NumbersInv
<1>0. "buf" \notin raced
  BY RacedGrows
<1>a. ~Two(pc', {"held"})
  BY RecordedStep, OneInWindow DEF Base
<1> USE <1>0 DEF Base, TypeInv, TypeOK, SpawnsIdle, NumbersInv, At, Move, MoveTo, Word, Return, strings
<1>1. ASSUME NEW t \in Tasks, Queues(t) PROVE NumbersInv'
  BY <1>1 DEF Queues, QCreate, QFind, BumpQueues, FillEntry, LookAtEntry, EndOfTable, GoOn
<1>2. ASSUME NEW t \in Tasks, Spawns(t) PROVE NumbersInv'
  <2>1. ASSUME NEW u \in Tasks, Spawn(t, u) PROVE NumbersInv'
    BY <2>1 DEF Spawn
  <2>2. CASE StoreIndex(t) \/ CheckIndex(t) \/ LoadAgain(t) \/ StoreAgain(t)
    BY <2>2 DEF StoreIndex, CheckIndex, LoadAgain, StoreAgain
  <2>3. CASE StartThread(t)
    BY <2>3 DEF StartThread
  <2> QED
    BY <1>2, <2>1, <2>2, <2>3 DEF Spawns
<1>3. ASSUME NEW t \in Tasks, NEW n \in Numbers, LongToS(t, n) PROVE NumbersInv'
  BY <1>a, <1>3 DEF LongToS, Two
<1>4. ASSUME NEW t \in Tasks, Send(t) PROVE NumbersInv'
  BY <1>4 DEF Send
<1>5. ASSUME NEW r \in Tasks, NEW t \in Tasks, Receive(r, t) PROVE NumbersInv'
  BY <1>5 DEF Receive
<1>6. ASSUME NEW t \in Tasks, Variables(t) PROVE NumbersInv'
  BY <1>6 DEF Variables, Variable, VariableGet, UseVariable
<1>7. CASE Declare \/ Realloc \/ AssignTable
  BY <1>7 DEF Declare, Realloc, AssignTable
<1>8. CASE UNCHANGED vars
  BY <1>8 DEF vars
<1> QED
  BY <1>1, <1>2, <1>3, <1>4, <1>5, <1>6, <1>7, <1>8 DEF Next, Strings

(* A number arrives as its sender converted it, unless two tasks held the  *)
(* result of an L>S at once.                                               *)
THEOREM ConvertedNumbersArrive == Spec => []NumbersArrive
<1>1. Init => Base /\ NumbersInv
  BY BaseInit DEF Init, NumbersInv
<1>2. Base /\ NumbersInv /\ [Next]_vars => Base' /\ NumbersInv'
  BY BaseStep, NumbersStep
<1>3. NumbersInv => NumbersArrive
  BY DEF NumbersInv, NumbersArrive
<1> QED
  BY <1>1, <1>2, <1>3, PTL DEF Spec
-----------------------------------------------------------------------------
(***************************************************************************)
(* The table of threads.                                                   *)
(***************************************************************************)
IndexInv ==
  "tid" \notin raced =>
    /\ (\A t \in Tasks : pc[t] \notin Spawning) => idx_tid <= MaxTid + 1
    /\ \A t \in Tasks :
         /\ pc[t] = "s_store" => reg[t] <= MaxTid + 1
         /\ pc[t] = "s_check" => idx_tid <= MaxTid + 2
         /\ pc[t] \in {"s_use", "s_load"} => idx_tid <= MaxTid
         /\ pc[t] = "s_again" => reg[t] <= MaxTid

LEMMA IndexStep == Base /\ IndexInv /\ [Next]_vars => IndexInv'
<1> SUFFICES ASSUME Base, IndexInv, [Next]_vars, "tid" \notin raced'
             PROVE IndexInv'
  BY DEF IndexInv
<1>0. "tid" \notin raced
  BY RacedGrows
<1>a. ~Two(pc', Spawning)
  BY RecordedStep, OneInWindow DEF Base
<1>b. SpawnsIdle
  BY DEF Base
<1> USE <1>0 DEF Base, TypeInv, TypeOK, IndexInv, At, Move, MoveTo, Word, Return, Spawning
<1>1. ASSUME NEW t \in Tasks, Queues(t) PROVE IndexInv'
  <2>1. ASSUME NEW name \in Names, QCreate(t, name) \/ QFind(t, name) PROVE IndexInv'
    BY <2>1 DEF QCreate, QFind
  <2>2. CASE BumpQueues(t)
    BY <2>2 DEF BumpQueues
  <2>3. CASE FillEntry(t)
    BY <2>3 DEF FillEntry
  <2>4. CASE LookAtEntry(t)
    BY <2>4 DEF LookAtEntry
  <2>5. CASE EndOfTable(t) \/ GoOn(t)
    BY <2>5 DEF EndOfTable, GoOn
  <2> QED
    BY <1>1, <2>1, <2>2, <2>3, <2>4, <2>5 DEF Queues
<1>2. ASSUME NEW t \in Tasks, Spawns(t) PROVE IndexInv'
  <2>1. ASSUME NEW u \in Tasks, Spawn(t, u) PROVE IndexInv'
    <3>1. \A s \in Tasks : pc[s] \notin Spawning
      BY <1>a, <2>1 DEF Spawn, Two
    <3> QED
      BY <2>1, <3>1 DEF Spawn
  <2>2. CASE pc[t] \in Spawning /\ pc'[t] \in Spawning
    <3>1. \A s \in Tasks : s # t => pc'[s] \notin Spawning
      BY <1>a, <2>2 DEF Two
    <3>2. CASE StoreIndex(t)
      BY <3>1, <3>2 DEF StoreIndex
    <3>3. CASE CheckIndex(t)
      BY <3>1, <3>3 DEF CheckIndex
    <3>4. CASE StartThread(t)
      BY <1>b, <3>1, <3>4 DEF StartThread, SpawnsIdle
    <3>5. CASE LoadAgain(t)
      BY <3>1, <3>5 DEF LoadAgain
    <3> QED
      BY <1>2, <2>2, <3>2, <3>3, <3>4, <3>5 DEF Spawns, Spawn, StoreAgain
  <2>3. CASE StoreAgain(t)
    <3>1. \A s \in Tasks : s # t => pc[s] \notin Spawning
      BY <2>3, OneInWindowNow DEF StoreAgain, Two
    <3> QED
      BY <2>3, <3>1 DEF StoreAgain
  <2> QED
    BY <1>2, <2>1, <2>2, <2>3
       DEF Spawns, StoreIndex, CheckIndex, StartThread, LoadAgain
<1>3. ASSUME NEW t \in Tasks, Strings(t) PROVE IndexInv'
  <2>1. ASSUME NEW n \in Numbers, LongToS(t, n) PROVE IndexInv'
    BY <2>1 DEF LongToS
  <2>2. CASE Send(t)
    BY <2>2 DEF Send
  <2>3. ASSUME NEW u \in Tasks, Receive(t, u) PROVE IndexInv'
    BY <2>3 DEF Receive
  <2> QED
    BY <1>3, <2>1, <2>2, <2>3 DEF Strings
<1>4. ASSUME NEW t \in Tasks, Variables(t) PROVE IndexInv'
  BY <1>4 DEF Variables, Variable, VariableGet, UseVariable
<1>5. CASE Declare \/ Realloc \/ AssignTable
  BY <1>5 DEF Declare, Realloc, AssignTable
<1>6. CASE UNCHANGED vars
  BY <1>6 DEF vars
<1> QED
  BY <1>1, <1>2, <1>3, <1>4, <1>5, <1>6 DEF Next

(* Every thread gets an entry of tid, however many are spawned one after   *)
(* the other, unless two tasks have spawned at once.                       *)
THEOREM SpawnsStayWithinTable == Spec => []SpawnsWithinTable
<1>1. Init => Base /\ IndexInv
  BY BaseInit DEF Init, IndexInv, Spawning
<1>2. Base /\ IndexInv /\ [Next]_vars => Base' /\ IndexInv'
  BY BaseStep, IndexStep
<1>3. IndexInv => SpawnsWithinTable
  BY DEF IndexInv, SpawnsWithinTable
<1> QED
  BY <1>1, <1>2, <1>3, PTL DEF Spec
-----------------------------------------------------------------------------
(***************************************************************************)
(* The registry of queues.                                                 *)
(***************************************************************************)
Filled(i) == i < n_queues /\ \A t \in Tasks : pc[t] = "q_fill" => reg[t] # i

RegistryInv ==
  "registry" \notin raced =>
    /\ \A i \in Entries : q_registry[i] # None <=> Filled(i)
    /\ \A t \in Tasks : pc[t] = "q_bump" => reg[t] = n_queues
    /\ \A t \in Tasks : pc[t] = "q_fill" => reg[t] = n_queues - 1
    /\ \A name \in created : \E i \in Entries : q_registry[i] = name
    /\ \A t \in due : pc[t] = "q_scan" =>
         \E i \in Entries : i >= reg[t] /\ q_registry[i] = arg[t]
    /\ \A t \in due : pc[t] = "q_scan"

(* A step that leaves the registry and the tasks at work on it alone.      *)
Apart ==
  /\ UNCHANGED registry
  /\ \A t \in Tasks : pc[t] \in Adding \cup {"q_scan"} \/ pc'[t] \in Adding \cup {"q_scan"}
       => UNCHANGED <<pc[t], arg[t], reg[t]>>

LEMMA ApartKeeps ==
  ASSUME TypeOK, RegistryInv, Apart, raced \subseteq raced'
  PROVE  RegistryInv'
<1> SUFFICES ASSUME "registry" \notin raced, "registry" \notin raced' PROVE RegistryInv'
  BY DEF RegistryInv
<1>1. \A i \in Entries : Filled(i)' <=> Filled(i)
  BY DEF Apart, Filled, Adding, registry
<1>2. \A i \in Entries : q_registry'[i] # None <=> Filled(i)'
  BY <1>1 DEF Apart, RegistryInv, registry
<1>3. \A t \in Tasks : pc'[t] \in Adding => reg'[t] = reg[t] /\ pc'[t] = pc[t]
  BY DEF Apart
<1>4. /\ \A t \in Tasks : pc'[t] = "q_bump" => reg'[t] = n_queues'
      /\ \A t \in Tasks : pc'[t] = "q_fill" => reg'[t] = n_queues' - 1
  BY <1>3 DEF Apart, RegistryInv, registry, Adding
<1>5. \A name \in created' : \E i \in Entries : q_registry'[i] = name
  BY DEF Apart, RegistryInv, registry
<1>6. \A t \in due' : pc'[t] = "q_scan" /\ arg'[t] = arg[t] /\ reg'[t] = reg[t]
  BY DEF Apart, RegistryInv, registry, TypeOK
<1>7. \A t \in due' : \E i \in Entries : i >= reg'[t] /\ q_registry'[i] = arg'[t]
  BY <1>6 DEF Apart, RegistryInv, registry, TypeOK
<1> QED
  BY <1>2, <1>4, <1>5, <1>6, <1>7 DEF RegistryInv

LEMMA OthersStayApart ==
  ASSUME Base,
         \/ \E t \in Tasks : Spawns(t) \/ Strings(t) \/ Variables(t)
         \/ Declare \/ Realloc \/ AssignTable \/ UNCHANGED vars
  PROVE  Apart
<1>b. SpawnsIdle
  BY DEF Base
<1> USE DEF Apart, Base, TypeInv, TypeOK, At, Move, MoveTo, Word, Return, Adding, registry
<1>2. ASSUME NEW t \in Tasks, Spawns(t) PROVE Apart
  <2>1. ASSUME NEW u \in Tasks, Spawn(t, u) PROVE Apart
    BY <2>1 DEF Spawn
  <2>2. CASE StoreIndex(t)
    BY <2>2 DEF StoreIndex
  <2>3. CASE CheckIndex(t)
    BY <2>3 DEF CheckIndex
  <2>4. CASE StartThread(t)
    BY <1>b, <2>4 DEF StartThread, SpawnsIdle
  <2>5. CASE LoadAgain(t)
    BY <2>5 DEF LoadAgain
  <2>6. CASE StoreAgain(t)
    BY <2>6 DEF StoreAgain
  <2> QED
    BY <1>2, <2>1, <2>2, <2>3, <2>4, <2>5, <2>6 DEF Spawns
<1>3. ASSUME NEW t \in Tasks, Strings(t) PROVE Apart
  <2>1. ASSUME NEW n \in Numbers, LongToS(t, n) PROVE Apart
    BY <2>1 DEF LongToS
  <2>2. CASE Send(t)
    BY <2>2 DEF Send
  <2>3. ASSUME NEW u \in Tasks, Receive(t, u) PROVE Apart
    BY <2>3 DEF Receive
  <2> QED
    BY <1>3, <2>1, <2>2, <2>3 DEF Strings
<1>4. ASSUME NEW t \in Tasks, Variables(t) PROVE Apart
  <2>1. CASE Variable(t)
    BY <2>1 DEF Variable
  <2>2. CASE VariableGet(t)
    BY <2>2 DEF VariableGet
  <2>3. CASE UseVariable(t)
    BY <2>3 DEF UseVariable
  <2> QED
    BY <1>4, <2>1, <2>2, <2>3 DEF Variables
<1>5. CASE Declare
  BY <1>5 DEF Declare
<1>6. CASE Realloc
  BY <1>6 DEF Realloc
<1>7. CASE AssignTable
  BY <1>7 DEF AssignTable
<1>8. CASE UNCHANGED vars
  BY <1>8 DEF vars
<1> QED
  BY <1>2, <1>3, <1>4, <1>5, <1>6, <1>7, <1>8

LEMMA RegistryStep == Base /\ RegistryInv /\ [Next]_vars => RegistryInv'
<1> SUFFICES ASSUME Base, RegistryInv, [Next]_vars, "registry" \notin raced'
             PROVE RegistryInv'
  BY DEF RegistryInv
<1>0. "registry" \notin raced
  BY RacedGrows
<1>a. ~Two(pc', Adding)
  BY RecordedStep, OneInWindow DEF Base
<1>b. SpawnsIdle
  BY DEF Base
<1> USE <1>0 DEF Base, TypeInv, TypeOK, RegistryInv, Filled, At, Move, MoveTo, Word,
              Return, Adding, registry
<1>1. ASSUME NEW t \in Tasks, Queues(t) PROVE RegistryInv'
  <2>1. ASSUME NEW name \in Names, QCreate(t, name) PROVE RegistryInv'
    BY <2>1 DEF QCreate
  <2>2. ASSUME NEW name \in Names, QFind(t, name) PROVE RegistryInv'
    <3>1. \A i \in Entries : Filled(i)' <=> Filled(i)
      BY <2>2 DEF QFind
    <3>2. /\ \A i \in Entries : q_registry'[i] # None <=> Filled(i)'
          /\ \A s \in Tasks : pc'[s] = "q_bump" => reg'[s] = n_queues'
          /\ \A s \in Tasks : pc'[s] = "q_fill" => reg'[s] = n_queues' - 1
          /\ \A n \in created' : \E i \in Entries : q_registry'[i] = n
      BY <2>2, <3>1 DEF QFind
    <3>3. \A s \in due' : s # t => s \in due
      BY <2>2 DEF QFind
    <3>4. \A s \in due' : pc'[s] = "q_scan"
      BY <2>2, <3>3 DEF QFind
    <3>5. t \in due' => \E i \in Entries : i >= reg'[t] /\ q_registry'[i] = arg'[t]
      BY <2>2 DEF QFind
    <3>6. \A s \in due' : s # t => \E i \in Entries : i >= reg'[s] /\ q_registry'[i] = arg'[s]
      BY <2>2, <3>3 DEF QFind
    <3>7. \A s \in due' : \E i \in Entries : i >= reg'[s] /\ q_registry'[i] = arg'[s]
      <4> HIDE DEF Base, TypeInv, TypeOK, RegistryInv, Filled
      <4> QED
        BY <3>5, <3>6
    <3> HIDE DEF Base, TypeInv, TypeOK, Filled, Move, MoveTo, Word, Return
    <3> QED
      BY <3>2, <3>4, <3>7
  <2>3. CASE BumpQueues(t)
    <3>1. \A s \in Tasks : s # t => pc[s] \notin Adding /\ pc'[s] \notin Adding
      BY <1>a, <2>3 DEF BumpQueues, Two
    <3>2. /\ n_queues' = reg[t] + 1 /\ reg[t] = n_queues
          /\ pc' = [pc EXCEPT ![t] = "q_fill"]
          /\ UNCHANGED <<q_registry, created, due, arg, reg>>
      BY <2>3 DEF BumpQueues
    <3>3. \A i \in Entries : Filled(i)' <=> Filled(i)
      BY <3>1, <3>2
    <3>4. \A s \in Tasks : /\ pc'[s] # "q_bump"
                           /\ pc'[s] = "q_fill" => reg'[s] = n_queues' - 1
      BY <3>1, <3>2
    <3>5. \A s \in due' : s \in due /\ pc'[s] = "q_scan" /\ pc[s] = "q_scan"
      BY <3>2, <2>3 DEF BumpQueues
    <3>6. \A s \in due' : \E i \in Entries : i >= reg'[s] /\ q_registry'[i] = arg'[s]
      BY <3>2, <3>5
    <3> QED
      BY <3>2, <3>3, <3>4, <3>5, <3>6
  <2>4. CASE FillEntry(t)
    <3>1. \A s \in Tasks : s # t => pc[s] \notin Adding
      BY <2>4, OneInWindowNow DEF FillEntry, Two
    <3>2. CASE reg[t] \in Entries
      <4>1. /\ q_registry' = [q_registry EXCEPT ![reg[t]] = arg[t]]
            /\ created' = created \cup {arg[t]}
            /\ Return(t)
            /\ UNCHANGED <<n_queues, due>>
            /\ pc[t] = "q_fill"
        BY <2>4, <3>2 DEF FillEntry
      <4>2. arg[t] \in Names /\ arg[t] # None
        BY <4>1 DEF OperandsFit
      <4>3. reg[t] = n_queues - 1 /\ q_registry[reg[t]] = None
        BY <3>2, <4>1
      <4>4. \A s \in Tasks : pc'[s] \notin Adding
        BY <3>1, <4>1
      <4>5. \A i \in Entries : q_registry'[i] # None <=> Filled(i)'
        BY <3>1, <3>2, <4>1, <4>2, <4>3, <4>4
      <4>6. \A n \in created' : \E i \in Entries : q_registry'[i] = n
        BY <3>2, <4>1, <4>2, <4>3
      <4>7. \A s \in due' : pc'[s] = "q_scan" /\ reg'[s] = reg[s] /\ arg'[s] = arg[s]
        BY <4>1
      <4>8. \A s \in due' : \E i \in Entries : i >= reg'[s] /\ q_registry'[i] = arg'[s]
        <5> SUFFICES ASSUME NEW s \in due'
                     PROVE \E i \in Entries : i >= reg'[s] /\ q_registry'[i] = arg'[s]
          OBVIOUS
        <5>1. s \in due /\ pc[s] = "q_scan" /\ arg[s] \in Names
          BY <4>1 DEF OperandsFit
        <5>2. PICK i \in Entries : i >= reg[s] /\ q_registry[i] = arg[s]
          BY <5>1
        <5>3. i # reg[t]
          BY <4>3, <5>1, <5>2
        <5> QED
          BY <4>1, <4>7, <5>2, <5>3
      <4> QED
        BY <4>4, <4>5, <4>6, <4>7, <4>8
    <3>3. CASE reg[t] \notin Entries
      BY <2>4, <3>1, <3>3 DEF FillEntry
    <3> QED
      BY <3>2, <3>3
  <2>5. CASE LookAtEntry(t)
    <3>1. t \in due => q_registry[reg[t]] # None
      <4> SUFFICES ASSUME t \in due PROVE q_registry[reg[t]] # None
        OBVIOUS
      <4>1. arg[t] \in Names /\ reg[t] \in Entries
        BY <2>5 DEF LookAtEntry, OperandsFit
      <4>2. PICK i \in Entries : i >= reg[t] /\ q_registry[i] = arg[t]
        BY <2>5 DEF LookAtEntry
      <4>3. Filled(i)
        BY <4>1, <4>2
      <4>4. Filled(reg[t])
        BY <4>1, <4>2, <4>3
      <4> QED
        BY <4>1, <4>4
    <3>2. CASE Return(t)
      BY <2>5, <3>2 DEF LookAtEntry
    <3>3. CASE Move(t, "crashed") /\ UNCHANGED <<arg, reg, due>>
      BY <2>5, <3>1, <3>3 DEF LookAtEntry
    <3>4. CASE /\ q_registry[reg[t]] \notin {None, arg[t]}
               /\ reg' = [reg EXCEPT ![t] = @ + 1]
               /\ UNCHANGED <<pc, raced, arg, due>>
      BY <2>5, <3>4 DEF LookAtEntry
    <3> QED
      BY <2>5, <3>2, <3>3, <3>4 DEF LookAtEntry
  <2>6. CASE EndOfTable(t)
    BY <2>6 DEF EndOfTable
  <2>7. CASE GoOn(t)
    <3>1. t \notin due
      BY <2>7 DEF GoOn
    <3>2. due' = due
      BY <2>7, <3>1 DEF GoOn
    <3>3. Apart
      BY <2>7, <3>2 DEF GoOn, Apart
    <3> QED
      BY <3>3, RacedGrows, ApartKeeps
  <2> QED
    BY <1>1, <2>1, <2>2, <2>3, <2>4, <2>5, <2>6, <2>7 DEF Queues
<1>2. CASE Apart
  BY <1>2, RacedGrows, ApartKeeps DEF Base, TypeInv
<1> QED
  BY <1>1, <1>2, OthersStayApart DEF Next

(* A queue whose QCREATE has returned is found by every later Q, unless    *)
(* two tasks have created queues at once.                                  *)
THEOREM CreatedQueuesAreFound == Spec => []FindsWhatWasCreated
<1>1. Init => Base /\ RegistryInv
  BY BaseInit DEF Init, RegistryInv, Filled
<1>2. Base /\ RegistryInv /\ [Next]_vars => Base' /\ RegistryInv'
  BY BaseStep, RegistryStep
<1>3. Base /\ RegistryInv => FindsWhatWasCreated
  BY DEF RegistryInv, FindsWhatWasCreated
<1> QED
  BY <1>1, <1>2, <1>3, PTL DEF Spec
=============================================================================
