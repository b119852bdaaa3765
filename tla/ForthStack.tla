----------------------------- MODULE ForthStack -----------------------------
(***************************************************************************)
(* What the stack words of TP-Forth promise: a stack of numbers of limited *)
(* depth, and what each word does to its top.  Whatever a word does not    *)
(* take stays as it is.  0 is true, everything else is false.              *)
(*                                                                         *)
(* Builtins.tla is the detailed model that is checked to implement this.   *)
(***************************************************************************)
EXTENDS Integers, Sequences

CONSTANTS
  Greatest,    \* the largest number; the least is one further from zero
  Furthest,    \* the largest number PICK can tell, likewise
  Depth,       \* how many longs the stack holds
  Readable,    \* the words that can be typed
  Words,       \* those of them that are performed
  None

Least == -Greatest - 1
Numbers == Least .. Greatest

VARIABLES
  stack,       \* its top last
  word,        \* the word that has been read and not yet performed, or None
  status       \* "fine"; "beyond" after a word that found too little on the
               \* stack or no room; "dead" after a division without a result

forthStackVars == <<stack, word, status>>

ForthStackInit ==
  /\ stack = << >>
  /\ word = None
  /\ status = "fine"

Top(k) == stack[Len(stack) - k]
Index(n) == CHOOSE i \in (-Furthest - 1) .. Furthest : (n - i) % (2 * (Furthest + 1)) = 0
Replaces(n, new) == stack' = SubSeq(stack, 1, Len(stack) - n) \o new

Takes(w) ==
  CASE w \in {"TRUE", "FALSE", "my_custom"} -> 0
    [] w \in {"DUP", "DROP", "NOT"} -> 1
    [] w = "ROT" -> 3
    [] w = "PICK" -> IF stack = << >> \/ Index(Top(0)) < 0 THEN 1 ELSE Index(Top(0)) + 2
    [] OTHER -> 2

Grows(w) ==
  CASE w \in {"TRUE", "FALSE", "DUP", "OVER"} -> 1
    [] w = "my_custom" -> 2
    [] OTHER -> 0

Applies(w) ==
  /\ Len(stack) >= Takes(w)
  /\ Len(stack) + Grows(w) <= Depth
  /\ w = "PICK" => Index(Top(0)) >= 0

Shuffles(w) ==
  \/ w = "DUP" /\ Replaces(0, <<Top(0)>>)
  \/ w = "SWAP" /\ Replaces(2, <<Top(0), Top(1)>>)
  \/ w = "OVER" /\ Replaces(0, <<Top(1)>>)
  \/ w = "ROT" /\ Replaces(3, <<Top(1), Top(0), Top(2)>>)
  \/ w = "DROP" /\ Replaces(1, << >>)
  \/ w = "2DROP" /\ Replaces(2, << >>)
  \/ w = "PICK" /\ Replaces(1, <<Top(Index(Top(0)) + 1)>>)
  \/ w = "my_custom" /\ Replaces(0, <<1, 2>>)

(* A flag is some number that IF takes as it should.                       *)
Holds(w) ==
  CASE w = "TRUE" -> TRUE
    [] w = "FALSE" -> FALSE
    [] w = "NOT" -> Top(0) # 0
    [] w = "AND" -> Top(1) = 0 /\ Top(0) = 0
    [] w = "OR" -> Top(1) = 0 \/ Top(0) = 0
    [] w = "<" -> Top(1) < Top(0)
    [] w = ">" -> Top(1) > Top(0)
    [] w = "=" -> Top(1) = Top(0)

Decides(w) ==
  /\ w \in {"TRUE", "FALSE", "NOT", "AND", "OR", "<", ">", "="}
  /\ \E flag \in Numbers : (flag = 0 <=> Holds(w)) /\ Replaces(Takes(w), <<flag>>)

(* Sums, differences and products are right up to what a long can hold.    *)
Exact(w) ==
  CASE w = "+" -> Top(1) + Top(0)
    [] w = "-" -> Top(1) - Top(0)
    [] w = "*" -> Top(1) * Top(0)

Computes(w) ==
  /\ w \in {"+", "-", "*"}
  /\ \E n \in Numbers : (Exact(w) - n) % (Greatest - Least + 1) = 0 /\ Replaces(2, <<n>>)

(* A quotient is cut towards zero, and a remainder has the sign of the     *)
(* dividend.  A zero divisor has no result, nor has the least number       *)
(* divided by -1: the processor traps.                                     *)
Abs(n) == IF n < 0 THEN -n ELSE n
Traps(w) ==
  /\ w \in {"/", "MOD", "%"}
  /\ Top(0) = 0 \/ (Top(0) = -1 /\ Top(1) = Least)

Divides(w) ==
  /\ w \in {"/", "MOD", "%"}
  /\ \E q, r \in Numbers :
       /\ Top(1) = q * Top(0) + r
       /\ Abs(r) < Abs(Top(0))
       /\ r # 0 => (r < 0 <=> Top(1) < 0)
       /\ Replaces(2, <<IF w = "/" THEN q ELSE r>>)
-----------------------------------------------------------------------------
Ends(how) == status' = how /\ stack' = << >>

Number(n) ==
  /\ word = None
  /\ IF Len(stack) < Depth THEN Replaces(0, <<n>>) /\ UNCHANGED status
                           ELSE Ends("beyond")
  /\ UNCHANGED word

Read(w) ==
  /\ word = None
  /\ word' = w
  /\ UNCHANGED <<stack, status>>

(* A word that is not a builtin is looked for elsewhere.                   *)
Leave ==
  /\ word \notin Words \cup {None}
  /\ word' = None
  /\ UNCHANGED <<stack, status>>

Perform ==
  /\ word \in Words
  /\ word' = None
  /\ \/ ~Applies(word) /\ Ends("beyond")
     \/ Applies(word) /\ Traps(word) /\ Ends("dead")
     \/ /\ Applies(word) /\ ~Traps(word)
        /\ Shuffles(word) \/ Decides(word) \/ Computes(word) \/ Divides(word)
        /\ UNCHANGED status

ForthStackNext ==
  /\ status = "fine"
  /\ \/ \E n \in Numbers : Number(n)
     \/ \E w \in Readable : Read(w)
     \/ Leave
     \/ Perform

ForthStackSpec == ForthStackInit /\ [][ForthStackNext]_forthStackVars
=============================================================================
