------------------------------ MODULE Builtins ------------------------------
(***************************************************************************)
(* builtins.c: the builtin words of the data stack, from their names to    *)
(* what they do to the array.                                              *)
(*                                                                         *)
(* A name is looked up (BuiltinIndex) and the code behind its opcode runs. *)
(* d_stack is an array of D cells and d_top the number of cells in use;    *)
(* what a pop leaves above d_top stays there.  No handler checks d_top     *)
(* before it uses it, but for a pop below zero: the model follows a task   *)
(* to the first access beside its stack, and there its status is "beyond". *)
(***************************************************************************)
EXTENDS BuiltinIndex, Sequences

CONSTANTS
  D,           \* D_STACK_SIZE
  LONG_MAX,    \* the largest long; the smallest is one further from zero
  INT_MAX      \* the largest int, likewise

Divisions == {"/", "MOD", "%"}
Binary == {"+", "-", "*", ">", "<", "=", "AND", "OR"} \cup Divisions
StackWords == {"DUP", "SWAP", "OVER", "ROT", "DROP", "2DROP", "PICK", "NOT", "TRUE", "FALSE",
               "my_custom"} \cup Binary

(* The words of the index that can be found are those modelled here, and a *)
(* long holds the numbers their code names: -1 .. 2.                       *)
ASSUME BuiltinsAssumption ==
  /\ D \in Nat \ {0}
  /\ LONG_MAX \in Nat /\ 2 <= LONG_MAX
  /\ INT_MAX \in Nat /\ INT_MAX <= LONG_MAX
  /\ \A i \in 0 .. (N_builtins - 2) : name(i) \in StackWords

VARIABLES
  d_stack,     \* the array, cells 0 .. D-1
  d_top,
  status       \* "fine", "beyond", or "dead" by SIGFPE

stackVars == <<d_stack, d_top, status>>
vars == <<indexVars, stackVars>>

Cells == 0 .. (D - 1)
LONG_MIN == -LONG_MAX - 1
Long == LONG_MIN .. LONG_MAX
Unwrapped(n) == n                \* fault: a sum that is kept in more bits than a long has
Wrap(n) == ((n - LONG_MIN) % (LONG_MAX - LONG_MIN + 1)) + LONG_MIN

INT_MIN == -INT_MAX - 1
AsInt(n) == ((n - INT_MIN) % (INT_MAX - INT_MIN + 1)) + INT_MIN    \* a long for an int

F_TRUE == 0
F_FALSE == -1                    \* ~F_TRUE

TypeOK ==
  /\ IndexTypeOK
  /\ d_stack \in [Cells -> Long]
  /\ d_top \in 0 .. D
  /\ status \in {"fine", "beyond", "dead"}

Init ==
  /\ IndexInit
  /\ d_stack = [i \in Cells |-> 0]
  /\ d_top = 0
  /\ status = "fine"
-----------------------------------------------------------------------------
(***************************************************************************)
(* The accesses.  A task's stack is a record while a handler is at work on *)
(* it; `ok' is lost by an access beside the cells in use.                  *)
(***************************************************************************)
Task == [cell |-> d_stack, top |-> d_top, ok |-> TRUE]

Within(m, i) == 0 <= i /\ i < m.top
At(m, i) == IF i \in Cells THEN m.cell[i] ELSE 0
Noting(m, fine) == [m EXCEPT !.ok = @ /\ fine]

d_tos(m) == At(m, m.top - 1)
d_pop(m) == [Noting(m, m.top > 0) EXCEPT !.top = @ - 1]
d_push(m, val) ==
  IF m.top \in Cells THEN [m EXCEPT !.cell[m.top] = val, !.top = @ + 1]
                     ELSE Noting(m, FALSE)

(* The num-th entry below the top, counted from 0.                         *)
d_pick(m, num) == At(m, m.top - (num + 1))
Picks(m, num) == Noting(m, Within(m, m.top - (num + 1)))
-----------------------------------------------------------------------------
(***************************************************************************)
(* The handlers.                                                           *)
(***************************************************************************)
d_dup(m) == d_push(Picks(m, 0), d_tos(m))

f_pick(m) ==
  LET num == AsInt(d_tos(m))
      n == d_pop(m)
  IN  d_push(Picks(n, num), d_pick(n, num))

d_swap(m) == LET l1 == d_tos(m)
                 l2 == d_tos(d_pop(m))
             IN  d_push(d_push(d_pop(d_pop(m)), l1), l2)

d_over(m) == d_push(Picks(m, 1), d_pick(m, 1))

d_rot_reversed(m) ==             \* fault: the two upper entries change places
  LET l3 == d_tos(m)
      l2 == d_tos(d_pop(m))
      l1 == d_tos(d_pop(d_pop(m)))
  IN  d_push(d_push(d_push(d_pop(d_pop(d_pop(m))), l3), l2), l1)

d_rot(m) ==
  LET l3 == d_tos(m)
      l2 == d_tos(d_pop(m))
      l1 == d_tos(d_pop(d_pop(m)))
  IN  d_push(d_push(d_push(d_pop(d_pop(d_pop(m))), l2), l3), l1)

(* d_top-- and d_top -= 2, unchecked.                                      *)
d_drop(m) == [Noting(m, m.top >= 1) EXCEPT !.top = @ - 1]
d_drop2(m) == [Noting(m, m.top >= 2) EXCEPT !.top = @ - 2]

Flag(holds, true, false) == IF holds THEN true ELSE false

d_not(m) == d_push(d_pop(m), Flag(d_tos(m) = 0, 1, 0))

(* C division: towards zero; SIGFPE for 0 and for LONG_MIN / -1.           *)
Magnitude(n) == IF n < 0 THEN -n ELSE n
Quotient(a, b) == LET q == Magnitude(a) \div Magnitude(b)
                  IN  IF (a < 0) # (b < 0) THEN -q ELSE q
NoQuotient(a, b) == b = 0 \/ (a = LONG_MIN /\ b = -1)

Result(w, l2, l1) ==
  CASE w = "+" -> Wrap(l1 + l2)
    [] w = "-" -> Wrap(l2 - l1)
    [] w = "*" -> Wrap(l2 * l1)
    [] w = ">" -> Flag(l2 > l1, 0, 1)
    [] w = "<" -> Flag(l2 < l1, 0, 1)
    [] w = "=" -> Flag(l2 = l1, F_TRUE, F_FALSE)
    [] w = "AND" -> Flag(l2 = 0 /\ l1 = 0, 0, 1)
    [] w = "OR" -> Flag(l2 = 0 \/ l1 = 0, 0, 1)
    [] w = "/" -> Quotient(l2, l1)
    [] w \in {"MOD", "%"} -> l2 - l1 * Quotient(l2, l1)

(* Every binary word pops its right operand first.                         *)
d_binary(m, w) ==
  LET l1 == d_tos(m)
      l2 == d_tos(d_pop(m))
      n == d_pop(d_pop(m))
  IN  IF w \in Divisions /\ NoQuotient(l2, l1) THEN n ELSE d_push(n, Result(w, l2, l1))

Faults(m, w) == w \in Divisions /\ NoQuotient(d_tos(d_pop(m)), d_tos(m))

my_custom(m) == d_push(d_push(m, 1), 2)

(* DB_builtins[op]->code                                                   *)
code(w, m) ==
  CASE w = "DUP" -> d_dup(m)
    [] w = "SWAP" -> d_swap(m)
    [] w = "OVER" -> d_over(m)
    [] w = "ROT" -> d_rot(m)
    [] w = "DROP" -> d_drop(m)
    [] w = "2DROP" -> d_drop2(m)
    [] w = "PICK" -> f_pick(m)
    [] w = "NOT" -> d_not(m)
    [] w = "TRUE" -> d_push(m, F_TRUE)
    [] w = "FALSE" -> d_push(m, F_FALSE)
    [] w = "my_custom" -> my_custom(m)
    [] w \in Binary -> d_binary(m, w)
-----------------------------------------------------------------------------
(* The task's stack becomes m; a task that is beyond it or dead is not     *)
(* followed any further.                                                   *)
Becomes(m, faults) ==
  IF m.ok /\ ~faults
  THEN d_stack' = m.cell /\ d_top' = m.top /\ UNCHANGED status
  ELSE /\ status' = IF m.ok THEN "dead" ELSE "beyond"
       /\ UNCHANGED <<d_stack, d_top>>

Number(n) ==                     \* cb_ef_number
  /\ pc = "ready"
  /\ Becomes(d_push(Task, n), FALSE)
  /\ UNCHANGED indexVars

(* smtok_compile_word takes a lone minus sign for a number, for it has no  *)
(* character behind the first that is not a digit: that builtin is never   *)
(* looked up.                                                              *)
isNumber(k) == k = "-"
LookedUp == {k \in Keys : ~isNumber(k)}

Lookup ==
  /\ \/ \E k \in LookedUp : builtin_lookup(k)
     \/ Search
     \/ pc = "unknown" /\ Answered
  /\ UNCHANGED stackVars

Execute ==                       \* ef_primitive
  /\ pc = "found"
  /\ Answered
  /\ Becomes(code(DB_builtins[op], Task), Faults(Task, DB_builtins[op]))

Next ==
  /\ status = "fine"
  /\ (\E n \in Long : Number(n)) \/ Lookup \/ Execute

Spec == Init /\ [][Next]_vars

(* The thread that looks a word up goes on with the loop it is in.         *)
FairSpec == Spec /\ WF_vars(Search /\ UNCHANGED stackVars)
-----------------------------------------------------------------------------
LastWord == name(N_builtins - 1)
Findable == {DB_builtins[o] : o \in Opcodes} \ {LastWord}

Promised == INSTANCE ForthStack WITH
  Depth <- D,
  Greatest <- LONG_MAX,
  Furthest <- INT_MAX,
  Readable <- LookedUp,
  Words <- Findable,
  stack <- IF status = "fine" THEN [i \in 1 .. d_top |-> d_stack[i - 1]] ELSE << >>,
  word <- key

(* From its name to the array, every builtin word does what it promises,   *)
(* and touches nothing beneath its operands; a task leaves its stack only  *)
(* by a word that has too few operands or no room, and dies only by a      *)
(* division without a result.  The last name of the index does nothing,    *)
(* and the difference is never asked for: its name is taken for a number.  *)
(* (builtins.c:162, :179, :227-296, :388-422, :596)                        *)
KeepsItsPromise == Promised!ForthStackSpec
=============================================================================
