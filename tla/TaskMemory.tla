----------------------------- MODULE TaskMemory -----------------------------
(***************************************************************************)
(* task.h and the loop stacks of builtins.c: the tail of struct ftask as   *)
(* the row of ints it is.                                                  *)
(*                                                                         *)
(*   loop_upper[L] lu_top loop_lower[L] ll_top ld[L] ld_top                *)
(*                                                                         *)
(* No push or pop checks an index, so an element just outside an array is  *)
(* the member next to it: loop_lower[-1] is lu_top, loop_upper[L] is       *)
(* lu_top, loop_lower[L] is ll_top, and so on.  BEGIN outside a DO relies  *)
(* on it: the ll_tos it clears and counts in is lu_top.                    *)
(***************************************************************************)
EXTENDS Integers

CONSTANT L                       \* LOOP_STACK_SIZE

ASSUME TaskMemoryAssumption == L \in Nat \ {0}

loop_upper(i) == i
lu_top == L
loop_lower(i) == L + 1 + i
ll_top == 2 * L + 1
ld(i) == 2 * L + 2 + i
ld_top == 3 * L + 2

(* Cell -1 is the upper half of r_top: it reads 0 and may be written 0.    *)
Ints == 0 .. (3 * L + 2)
Stray == 3 * L + 3               \* set once anything else has been touched
LoopCells == -1 .. Stray

ftask_create == [i \in LoopCells |-> 0]

InTask(i) == i \in LoopCells \ {Stray}
Get(m, i) == IF InTask(i) THEN m[i] ELSE 0
Set(m, i, v) ==
  CASE i \in Ints -> [m EXCEPT ![i] = v]
    [] i = -1 /\ v = 0 -> m
    [] OTHER -> [m EXCEPT ![Stray] = 1]
Add(m, i, n) == Set(m, i, Get(m, i) + n)

lu_tos(m) == loop_upper(m[lu_top] - 1)       \* the macros: where, not what
ll_tos(m) == loop_lower(m[ll_top] - 1)

lu_push(m, v) == Add(Set(m, loop_upper(m[lu_top]), v), lu_top, 1)
ll_push(m, v) == Add(Set(m, loop_lower(m[ll_top]), v), ll_top, 1)
ld_push(m, v) == Add(Set(m, ld(m[lu_top]), v), ld_top, 1)    \* ld[lu_top], as written

(* A pop of a top below zero only complains, and offers to exit; a pop of  *)
(* 0 goes below.                                                           *)
Pop(m, top) == IF m[top] < 0 THEN m ELSE Add(m, top, -1)
lu_pop(m) == Pop(m, lu_top)
ll_pop(m) == Pop(m, ll_top)
ld_pop(m) == Pop(m, ld_top)

EnterLoop(m, lower, upper) ==                \* the three pushes of ef_do
  LET m1 == lu_push(ll_push(m, lower), upper)
  IN  ld_push(m1, IF Get(m1, lu_tos(m1)) - Get(m1, ll_tos(m1)) > 0 THEN 1 ELSE -1)

LeaveLoopUneven(m) ==                        \* fault: ld_pop is forgotten
  LET m1 == Set(m, ll_tos(m), 0)
  IN  lu_pop(ll_pop(Set(m1, lu_tos(m1), 0)))

Cleared(m) ==                                \* ll_tos = 0; lu_tos = 0
  LET m1 == Set(m, ll_tos(m), 0)
  IN  Set(m1, lu_tos(m1), 0)

LeaveLoop(m) == ld_pop(lu_pop(ll_pop(Cleared(m))))      \* the end of ef_loop_end

(* One of the three pops complains, and waits for a key.                   *)
Complains(m) == \E top \in {ll_top, lu_top, ld_top} : Cleared(m)[top] < 0
=============================================================================
