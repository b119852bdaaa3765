------------------------------ MODULE Program ------------------------------
(***************************************************************************)
(* program.c and smtok.h: the smart tokens, the programs made of them, and *)
(* the dictionary that names programs.                                     *)
(*                                                                         *)
(* A program is a malloc'ed array of pointers to smart tokens, closed by a *)
(* NULL.  MAIN, one per line typed, and every colon definition are each    *)
(* such an array, never freed, so the heap is a sequence of programs and a *)
(* program_p is its position.  The task's pcp and the entries of its       *)
(* return stack are addresses of elements of these arrays, and the runtime *)
(* compares addresses: each array therefore has a base address.  Here it   *)
(* has one from the start and for good; in the code malloc places it when  *)
(* the first token comes, and realloc is taken to leave it there.  Before  *)
(* that pcp_array is NULL, which matters to nobody but a loop over no      *)
(* tokens that sets pcp to it.                                             *)
(***************************************************************************)
EXTENDS Integers, Sequences, FiniteSets

CONSTANTS
  Stride,      \* distance between arrays; longer than any program
  Placements   \* where malloc puts an array: "above" or "below" the others

ASSUME ProgramAssumption ==
  /\ Stride \in Nat \ {0}
  /\ Placements \subseteq {"above", "below"}

VARIABLES
  status,      \* "prompt", "parse", "run", or how the process ended: "crashed" by
               \* a signal, "exited" at a complaint, or "stray" once memory outside
               \* the model is touched
  heap,        \* heap[p]: the tokens of program p
  base,        \* base[p]: the address of pcp_array[0] of program p
  dict,        \* the dictionary: name -> program, for the names it has
  strings      \* the strings malloc'ed for string literals, each as its words

heapVars == <<heap, base, strings>>

(* A smart token: `op' is its jtidx, or the name of the builtin behind it; *)
(* `val' is the union val.  A pointer to one is <<program, position>>.     *)
smtok(op, val) == [op |-> op, val |-> val]

Null == <<0, 0>>
Wild == <<0, 1>>     \* a pointer read from memory that holds something else

(* A char pointer is an address in an area of its own.                     *)
StringArea == 20000
char_p(k) == StringArea + k
IsString(a) == (a - StringArea) \in DOMAIN strings
Text(a) == strings[a - StringArea]

Programs == 1 .. Len(heap)
End(p) == base[p] + Len(heap[p])
Array(p) == base[p] .. (End(p) - 1)

NullArray == -StringArea

(* What pcp points to: a token, a closing NULL or NULL's own page, or no   *)
(* array at all.                                                           *)
Points(a) == \E p \in Programs : a \in Array(p)
AtNull(a) == a = NullArray + 1 \/ \E p \in Programs : a = End(p)
Token(a) == LET p == CHOOSE q \in Programs : a \in Array(q)
            IN  heap[p][a - base[p] + 1]

(* program_create: a new, empty array, above or below all the others.      *)
program_create(place) ==
  /\ heap' = Append(heap, << >>)
  /\ base' = Append(base, IF place = "above" THEN Stride * Len(heap)
                                             ELSE -(Stride * Len(heap)))
  /\ UNCHANGED strings

(* program_add_smtok, as a function of the heap: append a token.           *)
program_add_smtok(h, p, tok) == [h EXCEPT ![p] = Append(@, tok)]
=============================================================================
