----------------------------- MODULE Variables -----------------------------
(***************************************************************************)
(* variable.c: the table of variables, and what ! @ !! @@ and ALLOT do to  *)
(* an entry of it.                                                         *)
(*                                                                         *)
(* A variable is a malloc'ed struct whose address a word pushes; scalars   *)
(* and arrays share it.  `l' is the scalar, and also the size that !! and  *)
(* @@ check an index against; `sz', the size of an element, is never set:  *)
(* ALLOT multiplies by what malloc found there.                            *)
(***************************************************************************)
EXTENDS Integers, Sequences

CONSTANTS
  ElemSizes,   \* what malloc may find in sz, in longs: 0 in fresh memory
  MinBlock     \* the longs that malloc hands out at least: 3 in glibc

ASSUME VariablesAssumption == ElemSizes \subseteq Nat /\ MinBlock \in Nat

VARIABLE vartable

(* A var_p is an address in an area of its own.                            *)
VarArea == 10000
var_p(k) == VarArea + k
IsVar(a) == (a - VarArea) \in DOMAIN vartable
Idx(a) == a - VarArea
Var(a) == vartable[Idx(a)]

IsVariable(name) == \E k \in DOMAIN vartable : vartable[k].name = name
variable_lookup(name) == CHOOSE k \in DOMAIN vartable : vartable[k].name = name

(* A second VARIABLE of the same name is reported and changes nothing.     *)
variable_add(name) ==
  IF IsVariable(name) THEN UNCHANGED vartable
  ELSE \E sz \in ElemSizes :
         vartable' = Append(vartable, [name |-> name, l |-> 0, sz |-> sz, lp |-> << >>])

(* The longs of a block of n elements.                                     *)
Block(n, sz) == 0 .. ((IF n * sz < MinBlock THEN MinBlock ELSE n * sz) - 1)

(* "Array index out of range!": the index that equals the size passes, and *)
(* so does a negative one.                                                 *)
OutOfRange(a, i) == i > Var(a).l

InBlock(a, i) == i \in DOMAIN Var(a).lp

Stored(a, val) == [vartable EXCEPT ![Idx(a)].l = val]
StoredAt(a, i, val) ==
  IF OutOfRange(a, i) THEN vartable ELSE [vartable EXCEPT ![Idx(a)].lp[i] = val]

(* malloc leaves the cells unset; here they are 0, as in fresh memory, and *)
(* the sessions write a cell before they read it.                          *)
Allotted(a, n) ==
  [vartable EXCEPT ![Idx(a)].l = n,
                   ![Idx(a)].lp = [i \in Block(n, Var(a).sz) |-> 0]]
=============================================================================
