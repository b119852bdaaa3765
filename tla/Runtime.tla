------------------------------ MODULE Runtime ------------------------------
(***************************************************************************)
(* runtime.c: the virtual machine that runs a program in a task.           *)
(*                                                                         *)
(* A step is one call of program_exec_loop's callback: the handler of the  *)
(* smart token pcp points to.  A colon word is run by a nested             *)
(* program_exec_loop, so the C call stack is part of the machine: one      *)
(* frame per active loop, and one per word that EXEC is executing.  The    *)
(* loop goes on while pcp is BELOW the end of its program's array, and     *)
(* fetches whatever is there, its own token or not.                        *)
(***************************************************************************)
EXTENDS Program, Variables, TaskMemory

CONSTANTS
  RStack,      \* entries of r_stack: LOOP_STACK_SIZE, as many as the loop stacks have
  DStack,      \* entries of d_stack
  PStack,      \* entries of prog_stack: PROG_STACK_SIZE
  MaxCount     \* bound: what a BEGIN loop counts up to before the model stops it

ASSUME RuntimeAssumption ==
  /\ RStack \in Nat \ {0} /\ RStack = L
  /\ DStack \in Nat \ {0}
  /\ PStack \in Nat \ {0}
  /\ MaxCount \in Nat \ {0}

VARIABLES
  program,     \* task->program
  pcp,         \* task->pcp
  d_stack,     \* the data stack, its top last
  r_stack,     \* the return stack, its top last
  loops,       \* the loop stacks and their tops, as cells of TaskMemory
  prog_stack,  \* task->prog_stack
  frames,      \* the C calls in progress, innermost last
  out          \* what "." has printed since the session began

taskVars == <<program, pcp, d_stack, r_stack, loops, prog_stack, frames, out>>

F_TRUE == 0
F_FALSE == -1

Top(s) == s[Len(s)]
Popped(s, n) == SubSeq(s, 1, Len(s) - n)

Frame(kind, prog) == [kind |-> kind, prog |-> prog, done |-> FALSE]
frame == Top(frames)

RuntimeInit ==
  /\ program = 0
  /\ pcp = 0
  /\ d_stack = << >>
  /\ r_stack = << >>
  /\ loops = ftask_create
  /\ prog_stack = << >>
  /\ frames = << >>
  /\ out = << >>
-----------------------------------------------------------------------------
(***************************************************************************)
(* The loop.                                                               *)
(***************************************************************************)

(* pcp < pcp_array + npcp_array.  EXEC calls the callback once, unlooped.  *)
GoesOn == IF frame.kind = "EXEC" THEN ~frame.done ELSE pcp < End(frame.prog)

Running == status = "run" /\ GoesOn

(* How many stack entries the handler of an op takes for granted.          *)
Operands(op) ==
  CASE op = "!!" -> 3
    [] op \in {"DO", "+", "*", "<", "=", "SWAP", "OVER", "!", "@@", "ALLOT"} -> 2
    [] op \in {"IF", "UNTIL", "EXEC", "DUP", "DROP", ".", "NOT", ">r", "@", "SEXEC"} -> 1
    [] OTHER -> 0

DPushed == {"NUM", "VAR", "STR", "I", "DEFER", "DUP", "OVER", "TRUE", "FALSE"}
RPushed == {"DICT", "DO", "BEGIN", "EXEC", ">r"}
RRead == {"LOOP", "AGAIN", "UNTIL"}
IndexUsed == {"I", "LOOP", "BEGIN", "AGAIN", "UNTIL"}

(* How far below the top a builtin expects the var_p it dereferences.      *)
VarDepth == [op \in {"!", "@", "!!", "@@", "ALLOT"} |->
               CASE op = "@" -> 0 [] op = "!!" -> 2 [] OTHER -> 1]
Below(n) == d_stack[Len(d_stack) - n]

(* The pointers a builtin follows lead to a variable, into the array's     *)
(* block, to a string.                                                     *)
Dereferences(op) ==
  /\ op \in DOMAIN VarDepth => IsVar(Below(VarDepth[op]))
  /\ op \in {"!!", "@@"} => LET v == Below(VarDepth[op])
                               i == Below(VarDepth[op] - 1)
                           IN  OutOfRange(v, i) \/ InBlock(v, i)
  /\ op = "ALLOT" => Below(0) >= 0
  /\ op = "SEXEC" => IsString(Below(0))

(* Otherwise it reads or writes beside its stack, and the model stops.     *)
WithinStacks(op) ==
  /\ Len(d_stack) >= Operands(op)
  /\ op \in DPushed => Len(d_stack) < DStack
  /\ op \in RPushed => Len(r_stack) < RStack
  /\ op = "DICT" => Len(prog_stack) < PStack
  /\ op \in RRead => r_stack # << >>
  /\ op \in IndexUsed => InTask(ll_tos(loops))
  /\ op = "LOOP" => InTask(lu_tos(Add(loops, ll_tos(loops), 1)))
  /\ Dereferences(op)

Executes(op) ==
  /\ Running
  /\ Points(pcp)
  /\ Token(pcp).op = op
  /\ WithinStacks(op)

(* The frame of EXEC has called its word.                                  *)
Called == [frames EXCEPT ![Len(frames)].done = TRUE]

(* The handler sets pcp and leaves the C stack as it was; a Jump leaves    *)
(* the variables too.                                                      *)
Goto(to) ==
  /\ pcp' = to
  /\ frames' = Called
  /\ UNCHANGED <<heapVars, program, prog_stack>>
Jump(to) == Goto(to) /\ UNCHANGED vartable

LoopsBecome(m) ==
  /\ loops' = m
  /\ status' = IF m[Stray] = 1 THEN "stray" ELSE status

(* The callback dereferences the NULL that closes an array, or follows pcp *)
(* out of every array.                                                     *)
Fetch ==
  /\ Running
  /\ ~Points(pcp)
  /\ status' = IF AtNull(pcp) THEN "crashed" ELSE "stray"
  /\ UNCHANGED <<heapVars, vartable, taskVars>>

(***************************************************************************)
(* Numbers, strings, variables and builtins.                               *)
(***************************************************************************)
cb_ef_number ==            \* and ef_string, ef_variable: all push the token's val
  /\ \E op \in {"NUM", "STR", "VAR"} : Executes(op)
  /\ d_stack' = Append(d_stack, Token(pcp).val)
  /\ Jump(pcp + 1)
  /\ UNCHANGED <<status, r_stack, loops, out>>

Flag(b) == IF b THEN F_TRUE ELSE F_FALSE
Bit(b) == IF b THEN 0 ELSE 1

(* What a builtin puts in place of its operands; x is on top, y below it.  *)
Pure == {"DUP", "DROP", "SWAP", "OVER", "+", "*", "<", "=", "NOT", "TRUE", "FALSE"}
Result(op, x, y) ==
  CASE op = "DUP" -> <<x, x>>
    [] op = "DROP" -> << >>
    [] op = "SWAP" -> <<x, y>>
    [] op = "OVER" -> <<y, x, y>>
    [] op = "+" -> <<y + x>>
    [] op = "*" -> <<y * x>>
    [] op = "<" -> <<Bit(y < x)>>
    [] op = "=" -> <<Flag(y = x)>>
    [] op = "NOT" -> <<Bit(x # 0)>>
    [] op = "TRUE" -> <<F_TRUE>>
    [] op = "FALSE" -> <<F_FALSE>>

Applied(op, d) ==
  Popped(d, Operands(op)) \o
    Result(op, IF d = << >> THEN 0 ELSE Top(d), IF Len(d) < 2 THEN 0 ELSE d[Len(d) - 1])

ef_primitive ==
  /\ \/ /\ \E op \in Pure : Executes(op) /\ d_stack' = Applied(op, d_stack)
        /\ UNCHANGED <<r_stack, out>>
     \/ /\ Executes(".")
        /\ out' = Append(out, Top(d_stack))
        /\ d_stack' = Popped(d_stack, 1)
        /\ UNCHANGED r_stack
     \/ /\ Executes(">r")
        /\ r_stack' = Append(r_stack, Top(d_stack))
        /\ d_stack' = Popped(d_stack, 1)
        /\ UNCHANGED out
     \/ /\ Executes("@")
        /\ d_stack' = Append(Popped(d_stack, 1), Var(Below(0)).l)
        /\ UNCHANGED <<r_stack, out>>
     \/ /\ Executes("@@")
        /\ d_stack' = IF OutOfRange(Below(1), Below(0)) THEN Popped(d_stack, 2)
                      ELSE Append(Popped(d_stack, 2), Var(Below(1)).lp[Below(0)])
        /\ UNCHANGED <<r_stack, out>>
  /\ Jump(pcp + 1)
  /\ UNCHANGED <<status, loops>>

(* The builtins that change a variable.                                    *)
d_variable_store ==
  /\ \/ Executes("!") /\ vartable' = Stored(Below(1), Below(0))
     \/ Executes("!!") /\ vartable' = StoredAt(Below(2), Below(1), Below(0))
     \/ Executes("ALLOT") /\ vartable' = Allotted(Below(1), Below(0))
  /\ d_stack' = Popped(d_stack, Operands(Token(pcp).op))
  /\ Goto(pcp + 1)
  /\ UNCHANGED <<status, r_stack, loops, out>>
-----------------------------------------------------------------------------
(***************************************************************************)
(* Counted loops.                                                          *)
(***************************************************************************)
ef_do_early ==             \* fault: the address of DO itself is pushed
  /\ Executes("DO")
  /\ LoopsBecome(EnterLoop(loops, Top(d_stack), d_stack[Len(d_stack) - 1]))
  /\ d_stack' = Popped(d_stack, 2)
  /\ r_stack' = Append(r_stack, pcp)
  /\ Jump(pcp + 1)
  /\ UNCHANGED out

ef_do ==
  /\ Executes("DO")
  /\ LoopsBecome(EnterLoop(loops, Top(d_stack), d_stack[Len(d_stack) - 1]))
  /\ d_stack' = Popped(d_stack, 2)
  /\ r_stack' = Append(r_stack, pcp + 1)
  /\ Jump(pcp + 1)
  /\ UNCHANGED out

ef_i_cb ==
  /\ Executes("I")
  /\ d_stack' = Append(d_stack, Get(loops, ll_tos(loops)))
  /\ Jump(pcp + 1)
  /\ UNCHANGED <<status, r_stack, loops, out>>

LoopIsOverLate ==          \* fault: > where the code has >=
  Get(loops, ll_tos(loops)) > Get(Add(loops, ll_tos(loops), 1), lu_tos(loops))

(* if (ll_tos(task)++ >= lu_tos(task)): the index is incremented first,    *)
(* in memory, and its old value compared.                                  *)
LoopIsOver == Get(loops, ll_tos(loops)) >= Get(Add(loops, ll_tos(loops), 1), lu_tos(loops))

ef_loop_end_leaks ==       \* fault: the loop's return address stays
  /\ Executes("LOOP")
  /\ LET m == Add(loops, ll_tos(loops), 1)
     IN IF LoopIsOver
        THEN LoopsBecome(LeaveLoop(m)) /\ Jump(pcp + 1)
        ELSE LoopsBecome(m) /\ Jump(Top(r_stack))
  /\ UNCHANGED <<d_stack, r_stack, out>>

(* A handler would go beside its stack; or a pop of ef_loop_end complains  *)
(* and the next key is an x: exit(-1).  With any other key, the first of   *)
(* the next line typed, the handler goes on.                               *)
Overrun ==
  /\ Running
  /\ Points(pcp)
  /\ \/ ~WithinStacks(Token(pcp).op) /\ status' = "stray"
     \/ /\ Executes("LOOP") /\ LoopIsOver
        /\ Complains(Add(loops, ll_tos(loops), 1))
        /\ status' = "exited"
  /\ UNCHANGED <<heapVars, vartable, taskVars>>

ef_loop_end ==
  /\ Executes("LOOP")
  /\ LET m == Add(loops, ll_tos(loops), 1)
     IN IF LoopIsOver
        THEN /\ LoopsBecome(LeaveLoop(m))
             /\ r_stack' = Popped(r_stack, 1)
             /\ Jump(pcp + 1)
        ELSE /\ LoopsBecome(m)
             /\ r_stack' = r_stack
             /\ Jump(Top(r_stack))
  /\ UNCHANGED <<d_stack, out>>
-----------------------------------------------------------------------------
(***************************************************************************)
(* BEGIN loops.  They count in the index of the DO around them, if any,    *)
(* and in lu_top otherwise.                                                *)
(***************************************************************************)
ef_begin ==
  /\ Executes("BEGIN")
  /\ LoopsBecome(Set(loops, ll_tos(loops), 0))
  /\ r_stack' = Append(r_stack, pcp + 1)
  /\ Jump(pcp + 1)
  /\ UNCHANGED <<d_stack, out>>

CountsTo(n) == Get(loops, ll_tos(loops)) < n

ef_again ==
  /\ Executes("AGAIN")
  /\ CountsTo(MaxCount)
  /\ LoopsBecome(Add(loops, ll_tos(loops), 1))
  /\ Jump(Top(r_stack))
  /\ UNCHANGED <<d_stack, r_stack, out>>

ef_until ==
  /\ Executes("UNTIL")
  /\ CountsTo(MaxCount)
  /\ LoopsBecome(Add(loops, ll_tos(loops), 1))
  /\ d_stack' = Popped(d_stack, 1)
  /\ IF Top(d_stack) = F_TRUE
     THEN r_stack' = Popped(r_stack, 1) /\ Jump(pcp + 1)
     ELSE r_stack' = r_stack /\ Jump(Top(r_stack))
  /\ UNCHANGED out
-----------------------------------------------------------------------------
(***************************************************************************)
(* Conditionals and EXIT.                                                  *)
(***************************************************************************)
ef_if ==
  /\ Executes("IF")
  /\ d_stack' = Popped(d_stack, 1)
  /\ Jump(pcp + IF Top(d_stack) = F_TRUE THEN 1 ELSE Token(pcp).val)
  /\ UNCHANGED <<status, r_stack, loops, out>>

ef_else ==
  /\ Executes("ELSE")
  /\ Jump(pcp + Token(pcp).val)
  /\ UNCHANGED <<status, d_stack, r_stack, loops, out>>

ef_then ==
  /\ Executes("THEN")
  /\ Jump(pcp + 1)
  /\ UNCHANGED <<status, d_stack, r_stack, loops, out>>

(* To the end of the program of this frame; no stack is unwound.           *)
ef_exit ==
  /\ Executes("EXIT")
  /\ Jump(End(frame.prog))
  /\ UNCHANGED <<status, d_stack, r_stack, loops, out>>
-----------------------------------------------------------------------------
(***************************************************************************)
(* Calls.                                                                  *)
(***************************************************************************)

(* run_prog: a nested loop, from the first token of the colon word.        *)
ef_dict_entry ==
  /\ Executes("DICT")
  /\ r_stack' = Append(r_stack, pcp)
  /\ prog_stack' = Append(prog_stack, program)
  /\ frames' = Append(Called, Frame("DICT", Token(pcp).val))
  /\ pcp' = base[Token(pcp).val]
  /\ UNCHANGED <<heapVars, vartable, status, program, d_stack, loops, out>>

(* ': push the address of the next token and skip it.                      *)
ef_defer ==
  /\ Executes("DEFER")
  /\ d_stack' = Append(d_stack, pcp + 1)
  /\ Jump(pcp + 2)
  /\ UNCHANGED <<status, r_stack, loops, out>>

ef_exec_skips ==           \* fault: the address after EXEC is pushed
  /\ Executes("EXEC")
  /\ r_stack' = Append(r_stack, pcp + 1)
  /\ d_stack' = Popped(d_stack, 1)
  /\ frames' = Append(Called, Frame("EXEC", frame.prog))
  /\ pcp' = Top(d_stack)
  /\ UNCHANGED <<heapVars, vartable, status, program, loops, prog_stack, out>>

ef_exec_next ==            \* fault: EXEC runs the token behind it
  /\ Executes("EXEC")
  /\ r_stack' = Append(r_stack, pcp)
  /\ d_stack' = Popped(d_stack, 1)
  /\ frames' = Append(Called, Frame("EXEC", frame.prog))
  /\ pcp' = pcp + 1
  /\ UNCHANGED <<heapVars, vartable, status, program, loops, prog_stack, out>>

(* EXEC: one call of the callback, at the address on the data stack.       *)
ef_exec ==
  /\ Executes("EXEC")
  /\ r_stack' = Append(r_stack, pcp)
  /\ d_stack' = Popped(d_stack, 1)
  /\ frames' = Append(Called, Frame("EXEC", frame.prog))
  /\ pcp' = Top(d_stack)
  /\ UNCHANGED <<heapVars, vartable, status, program, loops, prog_stack, out>>

(* SEXEC: a nested loop for the word the string names, with nothing saved. *)
d_string_exec ==
  /\ Executes("SEXEC")
  /\ d_stack' = Popped(d_stack, 1)
  /\ LET found == {name \in DOMAIN dict : Text(Below(0)) = <<name>>}
     IN  IF found = {} THEN Jump(pcp + 1)
         ELSE /\ \E name \in found : /\ frames' = Append(Called, Frame("SEXEC", dict[name]))
                                     /\ pcp' = base[dict[name]]
              /\ UNCHANGED <<heapVars, vartable, program, prog_stack>>
  /\ UNCHANGED <<status, r_stack, loops, out>>

(* Where pcp is left by a nested loop; one that had no token to execute    *)
(* has set it to the NULL that the word has for an array.                  *)
Left == IF heap[frame.prog] = << >> THEN NullArray ELSE pcp

ReturnUnsaved ==           \* fault: the saved program stays saved
  /\ status = "run"
  /\ ~GoesOn
  /\ Len(frames) > 1
  /\ frames' = Popped(frames, 1)
  /\ UNCHANGED <<program, prog_stack>>
  /\ IF frame.kind = "SEXEC" THEN pcp' = Left + 1 /\ UNCHANGED <<r_stack, status>>
     ELSE IF r_stack # << >>
     THEN pcp' = Top(r_stack) + 1 /\ r_stack' = Popped(r_stack, 1) /\ UNCHANGED status
     ELSE status' = "stray" /\ UNCHANGED <<pcp, r_stack>>
  /\ UNCHANGED <<heapVars, vartable, d_stack, loops, out>>

(* The nested call returns: pcp = r_pop(task) + 1, whatever is on top of   *)
(* the return stack by now; after SEXEC, pcp++ from where the word ended.  *)
Return ==
  /\ status = "run"
  /\ ~GoesOn
  /\ Len(frames) > 1
  /\ frames' = Popped(frames, 1)
  /\ IF frame.kind = "DICT"
     THEN program' = Top(prog_stack) /\ prog_stack' = Popped(prog_stack, 1)
     ELSE UNCHANGED <<program, prog_stack>>
  /\ IF frame.kind = "SEXEC" THEN pcp' = Left + 1 /\ UNCHANGED <<r_stack, status>>
     ELSE IF r_stack # << >>
     THEN pcp' = Top(r_stack) + 1 /\ r_stack' = Popped(r_stack, 1) /\ UNCHANGED status
     ELSE status' = "stray" /\ UNCHANGED <<pcp, r_stack>>
  /\ UNCHANGED <<heapVars, vartable, d_stack, loops, out>>

(* run_task: task->program from its first token.                           *)
run_task ==
  /\ status' = "run"
  /\ pcp' = base[program]
  /\ frames' = <<Frame("MAIN", program)>>
  /\ UNCHANGED <<heapVars, vartable, program, d_stack, r_stack, loops, prog_stack, out>>

(* The outermost loop ends and run_task returns to its caller.             *)
Finish ==
  /\ status = "run"
  /\ ~GoesOn
  /\ Len(frames) = 1
  /\ status' = "prompt"
  /\ frames' = << >>
  /\ UNCHANGED <<heapVars, vartable, program, pcp, d_stack, r_stack, loops, prog_stack, out>>

Execute ==
  \/ cb_ef_number \/ ef_primitive \/ d_variable_store \/ d_string_exec
  \/ ef_do \/ ef_i_cb \/ ef_loop_end
  \/ ef_begin \/ ef_again \/ ef_until
  \/ ef_if \/ ef_else \/ ef_then \/ ef_exit
  \/ ef_dict_entry \/ ef_defer \/ ef_exec
  \/ Return \/ Finish
  \/ Fetch \/ Overrun
=============================================================================
