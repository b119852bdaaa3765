------------------------------ MODULE Meaning ------------------------------
(***************************************************************************)
(* What the words of a session mean, told by their structure and without   *)
(* jumps, addresses, loop stacks, return stack or program counter: the     *)
(* reference the compiled and executed session is compared with.           *)
(*                                                                         *)
(* It follows the code where TP-Forth is not ANS Forth: 0 is true; DO runs *)
(* its body up to AND including the limit and at least once; I is the      *)
(* index of the innermost DO in progress, also in a word called from the   *)
(* loop; BEGIN counts in that same index, and outside a DO in one that     *)
(* lives on from line to line; the first definition of a name stays; a     *)
(* variable hides the words of its name in what is compiled after it; and  *)
(* a word that SEXEC runs ends the word that runs it.  In one place it     *)
(* follows the documents instead: "-" subtracts (README:8).                *)
(***************************************************************************)
EXTENDS Forth

LOCAL INSTANCE SequencesExt

(* A meaning m: the data stack d, the output out, the index i, whether     *)
(* EXIT is ending the word or line; the definitions dict, the names vars   *)
(* of the variables with their scalars and arrays vals, the texts of the   *)
(* strings; and code, the words of the line with their names resolved.     *)
Nothing == [d |-> << >>, out |-> << >>, i |-> 0, exit |-> FALSE, dict |-> << >>,
            vars |-> << >>, vals |-> << >>, texts |-> << >>, code |-> << >>]

Pushed(m, v) == [m EXCEPT !.d = Append(@, v)]
Dropped(m, n) == [m EXCEPT !.d = Popped(@, n)]
Second(m) == m.d[Len(m.d) - 1]
Third(m) == m.d[Len(m.d) - 2]

(* The words outside comments: "\" to the end of the line, "(" to ")".     *)
Beyond(source, w) == SubSeq(source, SelectInSeq(source, LAMBDA x : x = w) + 1, Len(source))
RECURSIVE Stripped(_)
Stripped(source) ==
  CASE source = << >> -> << >>
    [] source # << >> /\ Head(source) = NL -> Stripped(Tail(source))
    [] source # << >> /\ Head(source) \in DOMAIN Closing ->
         Stripped(Beyond(source, Closing[Head(source)]))
    [] OTHER -> <<Head(source)>> \o Stripped(Tail(source))

(***************************************************************************)
(* First the names: each word of a line becomes what it stands for there.  *)
(***************************************************************************)
Is(w, v) == [w |-> w, v |-> v]
With(m, w, v) == [m EXCEPT !.code = Append(@, Is(w, v))]
NewVariable(m, name) ==
  IF Contains(m.vars, name) THEN m
  ELSE [m EXCEPT !.vars = Append(@, name), !.vals = Append(@, [l |-> 0, a |-> << >>])]
Defined(m, name, code) ==
  [m EXCEPT !.dict = [n \in DOMAIN @ \cup {name} |-> IF n = name THEN code ELSE @[n]]]

LookedUp(w, m) ==
  IF w \in ControlWords \cup {"I", "'", "EXEC", "-"} THEN With(m, w, 0)
  ELSE IF w \in Numbers THEN With(m, "NUM", NumVal[w])
  ELSE IF Contains(m.vars, w) THEN With(m, "VAR", SelectInSeq(m.vars, LAMBDA x : x = w))
  ELSE IF w \in Builtins THEN With(m, w, 0)
  ELSE IF w \in DOMAIN m.dict THEN With(m, "CALL", w)
  ELSE m

RECURSIVE Resolved(_, _)
Resolved(words, m) ==
  IF words = << >> THEN m
  ELSE LET w == Head(words)
           rest == Tail(words)
       IN
    CASE w = ":" ->
           LET name == words[2]
               k == SelectInSeq(words, LAMBDA x : x = ";")
               known == name \in DOMAIN m.dict
               inner == Resolved(SubSeq(words, 3, k - 1),
                                 [(IF known THEN m ELSE Defined(m, name, << >>)) EXCEPT !.code = << >>])
               closed == IF known THEN inner ELSE Defined(inner, name, inner.code)
           IN  Resolved(SubSeq(words, k + 1, Len(words)), [closed EXCEPT !.code = m.code])
      [] w \in DOMAIN Naming /\ words[2] = "VARIABLE" -> Resolved(rest, m)     \* no name
      [] w \in DOMAIN Naming /\ words[2] # "VARIABLE" -> Resolved(Tail(rest), NewVariable(m, words[2]))
      [] w = Quote ->
           LET k == SelectInSubSeq(words, 2, Len(words), LAMBDA x : x \in DOMAIN EndQuote)
               text == SubSeq(words, 2, k - 1) \o <<EndQuote[words[k]]>>
           IN  Resolved(SubSeq(words, k + 1, Len(words)),
                        With([m EXCEPT !.texts = Append(@, text)], "STR", Len(m.texts) + 1))
      [] OTHER -> Resolved(rest, LookedUp(w, m))

(***************************************************************************)
(* Then what they do.                                                      *)
(***************************************************************************)

(* Position of the word that closes the structure opened at code[1].       *)
RECURSIVE Closer(_, _, _, _, _)
Closer(code, open, close, k, depth) ==
  CASE code[k].w \in close /\ depth = 0 -> k
    [] code[k].w \in close /\ depth # 0 -> Closer(code, open, close, k + 1, depth - 1)
    [] code[k].w = open -> Closer(code, open, close, k + 1, depth + 1)
    [] OTHER -> Closer(code, open, close, k + 1, depth)

After(code, k) == SubSeq(code, k + 1, Len(code))
Inside(code, k) == SubSeq(code, 2, k - 1)

RECURSIVE Means(_, _), Rounds(_, _, _), Repeat(_, _, _)

(* The body of a word or a line: EXIT ends it, and it alone.               *)
Ended(m) == [m EXCEPT !.exit = FALSE]

Rounds(body, m, upper) ==
  LET m1 == Means(body, m)
  IN  IF m1.i < upper THEN Rounds(body, [m1 EXCEPT !.i = @ + 1], upper) ELSE m1

Repeat(body, m, last) ==
  LET m1 == Means(body, m)
      m2 == [m1 EXCEPT !.i = @ + 1]
  IN  CASE m1.exit -> m1
        [] ~m1.exit /\ last = "AGAIN" -> Repeat(body, m2, last)
        [] OTHER -> IF Top(m1.d) = F_TRUE THEN Dropped(m2, 1) ELSE Repeat(body, Dropped(m2, 1), last)

(* ! @ !! @@ ALLOT: scalars, and arrays as partial functions.              *)
Memory(op, m) ==
  LET k == Idx(m.d[Len(m.d) - VarDepth[op]])
      left == Dropped(m, Operands(op))
      x == Top(m.d)
  IN  CASE op = "@" -> Pushed(left, m.vals[k].l)
        [] op = "!" -> [left EXCEPT !.vals[k].l = x]
        [] op = "ALLOT" -> [left EXCEPT !.vals[k] = [l |-> x, a |-> << >>]]
        [] op = "@@" -> IF x > m.vals[k].l THEN left ELSE Pushed(left, m.vals[k].a[x])
        [] op = "!!" -> IF Second(m) > m.vals[k].l THEN left
                        ELSE [left EXCEPT !.vals[k].a =
                                [n \in DOMAIN @ \cup {Second(m)} |-> IF n = Second(m) THEN x ELSE @[n]]]

Means(code, m) ==
  IF code = << >> \/ m.exit THEN m
  ELSE LET w == Head(code).w
           v == Head(code).v
           rest == Tail(code)
       IN
    CASE w = "IF" ->
           LET k == Closer(code, "IF", {"THEN"}, 2, 0)
               e == {j \in 2 .. k : code[j].w = "ELSE"}      \* no IF inside an IF
               m1 == Dropped(m, 1)
           IN  Means(After(code, k),
                     IF e = {}
                     THEN IF Top(m.d) = F_TRUE THEN Means(Inside(code, k), m1) ELSE m1
                     ELSE LET j == CHOOSE j \in e : TRUE
                          IN  Means(IF Top(m.d) = F_TRUE THEN Inside(code, j)
                                                         ELSE SubSeq(code, j + 1, k - 1), m1))
      [] w = "EXIT" -> [m EXCEPT !.exit = TRUE]
      [] w = "DO" ->
           LET k == Closer(code, "DO", {"LOOP"}, 2, 0)
               m1 == Rounds(Inside(code, k), [Dropped(m, 2) EXCEPT !.i = Top(m.d)], Second(m))
           IN  Means(After(code, k), [m1 EXCEPT !.i = m.i])
      [] w = "BEGIN" ->
           LET k == Closer(code, "BEGIN", {"UNTIL", "AGAIN"}, 2, 0)
           IN  Means(After(code, k), Repeat(Inside(code, k), [m EXCEPT !.i = 0], code[k].w))
      [] w = "'" -> Means(After(code, 3), Means(<<code[2]>>, m))         \* ' word EXEC
      [] w = "I" -> Means(rest, Pushed(m, m.i))
      [] w = "." -> Means(rest, [Dropped(m, 1) EXCEPT !.out = Append(@, Top(m.d))])
      [] w = "-" -> Means(rest, Pushed(Dropped(m, 2), Second(m) - Top(m.d)))
      [] w = "NUM" -> Means(rest, Pushed(m, v))
      [] w = "VAR" -> Means(rest, Pushed(m, var_p(v)))
      [] w = "STR" -> Means(rest, Pushed(m, char_p(v)))
      [] w \in Pure -> Means(rest, [m EXCEPT !.d = Applied(w, @)])
      [] w \in DOMAIN VarDepth -> Means(rest, Memory(w, m))
      [] w = "CALL" -> Means(rest, Ended(Means(m.dict[v], m)))
      [] w = "SEXEC" ->
           LET found == {n \in DOMAIN m.dict : m.texts[Top(m.d) - StringArea] = <<n>>}
           IN  IF found = {} THEN Means(rest, Dropped(m, 1))
               ELSE LET n == CHOOSE n \in found : TRUE
                    IN  [Means(m.dict[n], Dropped(m, 1)) EXCEPT !.exit = TRUE]

(* A session, line by line; the main task starts with empty stacks.        *)
RECURSIVE SessionMeans(_)
SessionMeans(lines) ==
  IF lines = << >> THEN Nothing
  ELSE LET before == SessionMeans(SubSeq(lines, 1, Len(lines) - 1))
           task == IF Len(lines) = 2 THEN [before EXCEPT !.d = << >>, !.i = 0] ELSE before
           m == Resolved(Stripped(Top(lines)), [task EXCEPT !.code = << >>])
       IN  Ended(Means(m.code, m))

(* At every prompt the session has printed, left on the data stack and in  *)
(* the variables, what its words mean: reading it word by word, compiling  *)
(* it to tokens and jumps and running them on three loop stacks and a      *)
(* shared return stack loses nothing of it.                                *)
CompiledAsMeant ==
  status = "prompt" =>
    LET m == SessionMeans(session)
    IN  /\ out = m.out /\ d_stack = m.d
        /\ \A k \in DOMAIN m.vals : vartable[k].l = m.vals[k].l
=============================================================================
