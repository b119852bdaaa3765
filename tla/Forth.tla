------------------------------- MODULE Forth -------------------------------
(***************************************************************************)
(* tpforth.c: the program.  It runs startup.fs in a task of its own, makes *)
(* the main task, and then, line by line, parses what is typed into a new  *)
(* MAIN and runs it.  The dictionary, the open control structures and the  *)
(* stacks of the task all live on from line to line.                       *)
(***************************************************************************)
EXTENDS Compiler, Runtime

CONSTANT Scripts   \* plans of what is typed: script[1] is the set of what startup.fs may
                   \* hold, script[n] that of the n-th lines

ASSUME ForthAssumption ==
  /\ Scripts \subseteq Seq(SUBSET Seq(Words \cup {NL}))
  /\ \A script \in Scripts : \A n \in 2 .. Len(script) : script[n] \subseteq Seq(Words)  \* fgets
  /\ Builtins \subseteq Pure \cup DOMAIN VarDepth \cup {".", ">r", "SEXEC"}

VARIABLE session   \* history: the lines read so far

vars == <<status, heapVars, vartable, compilerVars, taskVars, session>>

Init ==
  /\ status = "prompt"
  /\ heap = << >>
  /\ base = << >>
  /\ strings = << >>
  /\ current_PROG = 0
  /\ CompilerInit
  /\ RuntimeInit
  /\ session = << >>

(* t = ftask_create("Main"), between startup.fs and the first line.        *)
MainTask ==
  IF Len(session) = 1
  THEN /\ d_stack' = << >>
       /\ r_stack' = << >>
       /\ loops' = ftask_create
       /\ prog_stack' = << >>
  ELSE UNCHANGED <<d_stack, r_stack, loops, prog_stack>>

(* The lines of all plans, and those that may follow the session.          *)
Lines == UNION {UNION {script[n] : n \in DOMAIN script} : script \in Scripts}
NextLines ==
  UNION {script[Len(session) + 1] :
           script \in {s \in Scripts : /\ Len(session) < Len(s)
                                        /\ \A n \in DOMAIN session : session[n] \in s[n]}}

(* fgets, then the head of parse(): a new MAIN, an idle parser, the first  *)
(* word.  A line ends in a newline.                                        *)
parse ==
  /\ status = "prompt"
  /\ \E l \in NextLines : line' = strtok(Append(l, NL)) /\ session' = Append(session, l)
  /\ status' = "parse"
  /\ checks' = AllChecks
  /\ state' = "EXPECTING_ANY"
  /\ \E place \in Placements : program_create(place)
  /\ program' = Len(heap) + 1
  /\ current_PROG' = Len(heap) + 1
  /\ MainTask
  /\ UNCHANGED <<string_buffer, names, openVars, program_stack, program_Stack_top, pcp, frames, out>>

Compile == ParseWord /\ UNCHANGED <<taskVars, session>>

Start ==
  /\ status = "parse"
  /\ line = << >>
  /\ run_task
  /\ UNCHANGED <<compilerVars, session>>

Run == Execute /\ UNCHANGED <<compilerVars, session>>

Next == parse \/ Compile \/ Start \/ Run

Spec == Init /\ [][Next]_vars

(* The interpreter is one thread that never waits: it goes on as long as   *)
(* it has a line to work on.                                               *)
FairSpec == Spec /\ WF_vars(Compile \/ Start \/ Run)
-----------------------------------------------------------------------------
(***************************************************************************)
(* Properties.                                                             *)
(***************************************************************************)
Dead == {"crashed", "exited", "stray"}

TypeOK ==
  /\ status \in {"prompt", "parse", "run"} \cup Dead
  /\ \A p \in Programs : \A i \in 1 .. Len(heap[p]) : heap[p][i].val \in Int
  /\ DOMAIN base = Programs
  /\ line \in Seq(Words \cup {NL}) /\ checks \subseteq AllChecks
  /\ state \in {"EXPECTING_ANY", "COLON_EXPECTING_NAME", "STRING_EXPECTING_QUOTE"}
               \cup {Naming[w] : w \in DOMAIN Naming} \cup {Skipping[m] : m \in DOMAIN Closing}
  /\ string_buffer \in Seq(Words)
  /\ \A k \in DOMAIN vartable : vartable[k].l \in Int
  /\ \A n \in DOMAIN dict : n \in Words /\ dict[n] \in Programs
  /\ \A ptr \in {current_IF, current_DO, current_BEGIN} :
       ptr \in {Null, Wild} \/ (ptr[1] \in Programs /\ ptr[2] \in DOMAIN heap[ptr[1]])
  /\ d_stack \in Seq(Int) /\ Len(d_stack) <= DStack
  /\ program_stack \in Seq(Programs \cup {NoProgram})
  /\ program_Stack_top \in (-NullsBelow) .. (ProgStack + 1)
  /\ r_stack \in Seq(Int) /\ Len(r_stack) <= RStack
  /\ loops \in [LoopCells -> Int]
  /\ prog_stack \in Seq(Programs) /\ Len(prog_stack) <= PStack
  /\ \A k \in 1 .. Len(frames) : frames[k].prog \in Programs

(* A well-formed line neither kills the process nor makes it touch memory  *)
(* beside its stacks.                                                      *)
NothingStrays == status \notin Dead

(* While a program runs, pcp stays in the array of the program that the    *)
(* innermost program_exec_loop was called with, or at its end.             *)
StaysInProgram ==
  status = "run" /\ frame.kind # "EXEC" => pcp \in base[frame.prog] .. End(frame.prog)

(* The return stack holds one entry for every loop that is open and one    *)
(* for every call that is in progress, and nothing else: the two uses that *)
(* share it (ef_do and ef_dict_entry, ef_exec) never take the other's.     *)
ReturnStackExact ==
  status = "run" => Len(r_stack) = loops[ll_top] + Cardinality({k \in 2 .. Len(frames) : frames[k].kind # "SEXEC"})

(* The three loop stacks rise and fall together (ef_do, ef_loop_end).      *)
LoopStacksInStep ==
  loops[ll_top] = loops[lu_top] /\ loops[ll_top] = loops[ld_top]

(* At the prompt the loop and return stacks are as the line found them:    *)
(* nothing a line does piles up over a session.                            *)
PromptRestores ==
  status = "prompt" =>
    /\ r_stack = << >> /\ prog_stack = << >>
    /\ loops[ll_top] = 0 /\ loops[ld_top] = 0

(* task->program is saved exactly once per colon word in progress, however *)
(* the words were left (LOOP, EXIT, EXEC).                                 *)
ProgramsSaved ==
  Len(prog_stack) = Cardinality({k \in 1 .. Len(frames) : frames[k].kind = "DICT"})

(* A call returns to the token after the one that made it: when a nested   *)
(* loop ends, pcp goes to the instruction after a DICT or EXEC token of    *)
(* the caller's program.                                                   *)
ReturnsToCaller ==
  [][Len(frames') < Len(frames) /\ frames' # << >> /\ status' = "run" /\ frame.kind # "SEXEC" =>
       LET caller == Top(frames')
       IN  caller.kind # "EXEC" =>
             /\ pcp' - 1 \in Array(caller.prog)
             /\ Token(pcp' - 1).op = IF frame.kind = "DICT" THEN "DICT" ELSE "EXEC"]_vars

(* What a word stands for changes only when a VARIABLE of its name is      *)
(* made: a second definition never takes over (dict_add_entry), and a      *)
(* definition never hides a builtin (smtok_compile_word).                  *)
NamesKeepTheirMeaning ==
  [][\A w \in Words : Known(w) /\ smtok_compile_word(w)' # smtok_compile_word(w) =>
       /\ ~IsVariable(w) /\ IsVariable(w)'
       /\ vartable'[Len(vartable')].name = w]_vars

(* A program that has run, or whose definition is closed, is never changed *)
(* again: THEN patches an IF of the program being compiled.                *)
ClosedProgramsStay ==
  [][\A p \in Programs :
       p # current_PROG /\ (\A k \in DOMAIN program_stack : program_stack[k] # p)
         => heap'[p] = heap[p]]_vars

(* THEN completes the jump of its IF or ELSE: in every program that runs,  *)
(* an IF without ELSE, and an ELSE, jump to the THEN that closes them.     *)
(* That holds where definitions are begun outside conditionals: in the     *)
(* line `TRUE IF 1 : v TRUE IF ; THEN' the THEN writes into v's IF.        *)
Bracket == {"IF", "ELSE", "THEN"}
Closes(p, i, j) ==
  i < j /\ heap[p][j].op \in Bracket /\ \A k \in (i + 1) .. (j - 1) : heap[p][k].op \notin Bracket
JumpsLand ==
  status = "run" =>
    \A p \in Programs : \A i, j \in DOMAIN heap[p] :
      /\ heap[p][i].op \in {"IF", "ELSE"}
      /\ heap[p][j].op = "THEN"
      /\ Closes(p, i, j)
      => heap[p][i].val = j - i

(* A line whose structures are opened and closed in order, with no IF in   *)
(* an IF and no loop in a loop of its kind, is compiled without a fault,   *)
(* whatever the lines before it left behind: loops and conditionals that   *)
(* were never closed, open definitions, a ";" too many.  What it does not  *)
(* survive is a program_stack full of open definitions.                    *)
(* A conditional does not reach into or out of a definition: an ELSE that  *)
(* is the first token of its program is taken for an IF.  And a name is no *)
(* control word, which ":" and VARIABLE would take as a name all the same. *)
Opened(l, n, w) == Cardinality({k \in 1 .. n : l[k] = w})
Orderly(l) ==
  /\ \A n \in 1 .. Len(l) : l[n] \notin DOMAIN Closing \cup DOMAIN EndQuote
  /\ \A n \in 1 .. (Len(l) - 1) :
       l[n] \in {":"} \cup DOMAIN Naming => l[n + 1] \notin ControlWords \cup {NL}
  /\ \A n \in 0 .. Len(l) : Opened(l, n, "IF") - Opened(l, n, "THEN") \in {0, 1}
  /\ \A n \in 1 .. Len(l) :
       /\ l[n] = "ELSE" => Opened(l, n, "IF") > Opened(l, n, "THEN")
       /\ l[n] \in {":", ";"} => Opened(l, n, "IF") = Opened(l, n, "THEN")
Balanced(l) ==
  /\ Orderly(l)
  /\ \A n \in 0 .. Len(l) :
       /\ Opened(l, n, "DO") - Opened(l, n, "LOOP") \in {0, 1}
       /\ Opened(l, n, "BEGIN") - Opened(l, n, "UNTIL") - Opened(l, n, "AGAIN") \in {0, 1}
       /\ Opened(l, n, ":") - Opened(l, n, ";") \in {0, 1}
(* Well-formed words: loops that close what was opened, and no conditional *)
(* across the edge of one; EXIT outside loops; an ELSE followed by its     *)
(* THEN.  This is what compiled programs are checked for as well, so it    *)
(* speaks of any sequence of words or of tokens' kinds.                    *)
LoopWords == {"DO", "LOOP", "BEGIN", "AGAIN", "UNTIL"}
Depth(s, n) ==
  (Opened(s, n, "DO") + Opened(s, n, "BEGIN"))
    - (Opened(s, n, "LOOP") + Opened(s, n, "AGAIN") + Opened(s, n, "UNTIL"))
Paired(s, m, n) ==
  /\ s[n] = "THEN" \/ (s[m] = "IF" /\ s[n] = "ELSE")
  /\ Depth(s, n) = Depth(s, m)
Shaped(s) ==
  /\ \A n \in 0 .. Len(s) : Depth(s, n) >= 0
  /\ \A n \in 1 .. Len(s) : s[n] = "EXIT" => Depth(s, n) = 0
  /\ \A n \in 1 .. Len(s) : s[n] \notin {">r", "SEXEC"}
  /\ \A m, n \in 1 .. Len(s) :
       /\ m < n /\ s[m] \in {"IF", "ELSE"} /\ s[n] \in Bracket
       /\ \A k \in (m + 1) .. (n - 1) : s[k] \notin Bracket
       => Paired(s, m, n)
WellFormed(l) ==
  /\ Orderly(l) /\ Shaped(l)
  /\ \A n \in 1 .. Len(l) : l[n] \in {":", ";"} => Depth(l, n) = 0
  /\ Depth(l, Len(l)) = 0
  /\ Opened(l, Len(l), "IF") = Opened(l, Len(l), "THEN")
(* Programs made of well-formed lines are well formed themselves: what     *)
(* LOOP returns to, what an IF jumps to and the end of the program all lie *)
(* as deep in loops as they should.                                        *)
Code(p) == [k \in 1 .. Len(heap[p]) |-> heap[p][k].op]
Complete(s) ==
  /\ Depth(s, Len(s)) = 0
  /\ \A m \in 1 .. Len(s) : s[m] \in {"IF", "ELSE"} => \E n \in (m + 1) .. Len(s) : s[n] \in Bracket
ProgramsWellMade == status = "run" => \A p \in Programs : Shaped(Code(p)) /\ Complete(Code(p))

BalancedLineCompiles ==
  status \in Dead /\ frames = << >> /\ Balanced(Top(session)) => program_Stack_top > ProgStack

(* What well-formed programs must still do right as they run, for the      *)
(* machine has no check of it: ' takes the address of a word and not of a  *)
(* loop's end or of the program's; EXEC is given such an address; and an   *)
(* IF that has an ELSE finds a true flag, for it has no jump to make.      *)
TicksTakeWords ==
  Executes("DEFER") =>
    \A p \in Programs : pcp \in Array(p) =>
      pcp + 1 \in Array(p) /\ Token(pcp + 1).op \notin LoopWords
ExecTakesWords ==
  Running /\ frame.kind = "EXEC" /\ Points(pcp) => Token(pcp).op \notin LoopWords
ElseAfterTrue ==
  Executes("IF") =>
    \A p \in Programs : \A i, j \in DOMAIN heap[p] :
      pcp = base[p] + i - 1 /\ heap[p][j].op = "ELSE" /\ Closes(p, i, j) => Top(d_stack) = F_TRUE
(* And they have the memory they need: malloc gives every program an array *)
(* of its own, and no L-th loop is opened, for ld_push writes ld[lu_top],  *)
(* and ld[L] is ld_top.                                                    *)
ArraysFit == \A p \in Programs : Len(heap[p]) < Stride
WithinMemory == ArraysFit /\ loops[ll_top] < L
Disciplined == TicksTakeWords /\ ExecTakesWords /\ ElseAfterTrue /\ WithinMemory

(* parser.c:37: IF FALSE skips to ELSE+1, thereby executing the ELSE code. *)
FalseSkipsToElse ==
  status = "run" =>
    \A p \in Programs : \A i, j \in DOMAIN heap[p] :
      /\ heap[p][i].op = "IF"
      /\ heap[p][j].op = "ELSE"
      /\ Closes(p, i, j)
      => heap[p][i].val = (j + 1) - i

(* runtime.c:72: the code between DO and LOOP runs while a < b, a being    *)
(* the index that I reads and b the upper limit.                           *)
BodyRunsWhileBelow ==
  status = "run" /\ Points(pcp) /\ GoesOn /\ Token(pcp).op = "I" /\ loops[ll_top] > 0
    => Get(loops, ll_tos(loops)) < Get(loops, lu_tos(loops))

(* README:8: `NUM @ 1 - 2 DO' counts up to NUM - 1.                        *)
MinusSubtracts ==
  \A a, b \in Numbers :
    status = "prompt" /\ session # << >> /\ Top(session) = <<a, b, "-", ".">>
      => out # << >> /\ Top(out) = NumVal[a] - NumVal[b]

(* compiler.h:15: nested conditionals compile, to a depth of 15.           *)
NestedIfCompiles == status # "crashed"

(* Every line comes to an end.                                             *)
LineEnds == (status = "parse") ~> (status = "prompt")
=============================================================================
