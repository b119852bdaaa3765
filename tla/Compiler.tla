------------------------------ MODULE Compiler ------------------------------
(***************************************************************************)
(* parser.c, compiler.c, smtok.c and dictionary.c: how the words of a      *)
(* source become smart tokens.                                             *)
(*                                                                         *)
(* A source is its words in order, with NL for a newline; between words    *)
(* that no NL separates there is a blank.  strtok hands out one word at a  *)
(* time and puts a NUL over the separator behind it.                       *)
(*                                                                         *)
(* The parser takes one word at a time and appends at most one token to    *)
(* current_PROG.  IF, ELSE, DO and BEGIN are remembered in current_IF,     *)
(* current_DO and current_BEGIN, to be completed by THEN, LOOP, AGAIN and  *)
(* UNTIL.  The stacks on which a nested structure should tuck away the     *)
(* outer one (ct_push, ct_pop) are passed BY VALUE: a push is lost, and a  *)
(* pop returns whatever lies below the copy on the C stack.                *)
(***************************************************************************)
EXTENDS Program, Variables

CONSTANTS
  Words,       \* the words lines are made of; of those that begin with a quote or a
               \* backslash, only these two marks themselves
  Builtins,    \* those that builtin_lookup finds
  NumVal,      \* those isNumber accepts, with what atol makes of them
  EndQuote,    \* those that end in a quote, with the text before it
  WildReads,   \* outcomes of reading through a wild pointer: "harmless", "fault"
  ProgStack,   \* program_stack[32]
  NullsBelow   \* the NULLs below it in memory: in the Debug build some 29, the unused
               \* end of the buffer of L>S

Numbers == DOMAIN NumVal
NL == "\n"
Quote == "\""
Closing == [mark \in {"\\", "("} |-> IF mark = "(" THEN ")" ELSE NL]   \* comments

(* Words parse_word handles itself, before smtok_compile_word sees them.   *)
StructureWords == {"IF", "ELSE", "THEN", "DO", "LOOP", "BEGIN", "AGAIN", "UNTIL", "EXIT"}
ControlWords == StructureWords \cup {":", ";", "VARIABLE", "CREATE", Quote} \cup DOMAIN Closing

ASSUME CompilerAssumption ==
  /\ Builtins \subseteq Words
  /\ Numbers \subseteq Words
  /\ \A n \in Numbers : NumVal[n] \in Int
  /\ DOMAIN EndQuote \cup ControlWords \subseteq Words
  /\ Quote \in DOMAIN EndQuote
  /\ NL \notin Words
  /\ WildReads \subseteq {"harmless", "fault"}
  /\ ProgStack \in Nat \ {0}
  /\ NullsBelow \in Nat

VARIABLES
  line,           \* the source from the current word on; empty once tok is NULL
  checks,         \* comment marks that parse() still looks for in this word
  state,          \* the parser's state
  string_buffer,  \* the words of the string being read
  current_PROG,   \* the program words are compiled into, or NoProgram
  current_IF, current_DO, current_BEGIN,
  program_stack,  \* what ":" interrupted: the entries that have been pushed, the
                  \* first of them at an index below 0 after a surplus ";"
  program_Stack_top

names == <<dict, vartable>>
openVars == <<current_IF, current_DO, current_BEGIN>>
compilerVars == <<line, checks, state, string_buffer, dict, openVars, current_PROG,
                  program_stack, program_Stack_top>>

(* What a control word leaves alone, apart from the open structures.       *)
settled == <<base, strings, state, string_buffer, names, current_PROG, program_stack,
             program_Stack_top>>

NoProgram == 0       \* the NULL read below program_stack

npcp_array == Len(heap[current_PROG])
Here == <<current_PROG, npcp_array + 1>>      \* the token about to be appended
Deref(ptr) == heap[ptr[1]][ptr[2]]

EmitNewest(tok) ==         \* fault: into the newest program, not the current one
  heap' = program_add_smtok(heap, Len(heap), tok)
Emit(tok) == heap' = program_add_smtok(heap, current_PROG, tok)

CompilerInit ==
  /\ line = << >>
  /\ checks = {}
  /\ state = "EXPECTING_ANY"
  /\ string_buffer = << >>
  /\ dict = << >>
  /\ vartable = << >>
  /\ current_IF = Null
  /\ current_DO = Null
  /\ current_BEGIN = Null
  /\ program_stack = << >>
  /\ program_Stack_top = 0
-----------------------------------------------------------------------------
(***************************************************************************)
(* One word of the line: strtok hands it out and the parser goes on.       *)
(***************************************************************************)

(* Where the first element of S stands, from a place on; 0 for nowhere.    *)
FirstIn(S, source, from) ==
  LET found == {k \in from .. Len(source) : source[k] \in S}
  IN  IF found = {} THEN 0 ELSE CHOOSE k \in found : \A j \in found : k <= j

strtok(source) ==          \* from its first word on
  LET k == FirstIn(Words, source, 1)
  IN  IF k = 0 THEN << >> ELSE SubSeq(source, k, Len(source))

(* parse_func of a state is called with the current word.                  *)
Given(states) ==
  /\ status = "parse"
  /\ state \in states
  /\ line # << >>
  /\ Head(line) \notin checks

Parsing(w) == Given({"EXPECTING_ANY"}) /\ Head(line) = w

AllChecks == DOMAIN Closing
NextWord ==
  /\ line' = strtok(Tail(line))
  /\ checks' = AllChecks
  /\ status' = status

(* The parser dereferences a pointer it should not have.                   *)
Crash ==
  /\ status' = "crashed"
  /\ UNCHANGED <<heapVars, vartable, compilerVars>>

(* A word that leaves a token in the current program, if there is one.     *)
Compiling(w) == Parsing(w) /\ current_PROG # NoProgram

(* ct_push: the pushed pointer goes to a copy of the stack.  ct_pop: the   *)
(* copy is empty, so it returns the word below it.                         *)
ct_pop == Wild

(* A wild pointer is read: in the Debug build it points into the code,     *)
(* which is readable; elsewhere the read may fault.                        *)
Readable(ptr) == ptr \notin {Null, Wild} \/ (ptr = Wild /\ "harmless" \in WildReads)
MayFault(ptr) == ptr = Null \/ (ptr = Wild /\ "fault" \in WildReads)

-----------------------------------------------------------------------------
(***************************************************************************)
(* IF ELSE THEN.  IF and ELSE keep their own offset in val until THEN      *)
(* turns the last of them into a relative jump.                            *)
(***************************************************************************)
if_create_beyond ==        \* fault: current_IF points past the token
  /\ Compiling("IF")
  /\ Emit(smtok("IF", npcp_array))
  /\ current_IF' = <<current_PROG, npcp_array + 2>>
  /\ NextWord
  /\ UNCHANGED <<settled, current_DO, current_BEGIN>>

if_create_keeps ==         \* fault: the new IF is not entered
  /\ Compiling("IF")
  /\ Emit(smtok("IF", npcp_array))
  /\ NextWord
  /\ UNCHANGED <<settled, openVars>>

if_create ==
  /\ Compiling("IF")
  /\ Emit(smtok("IF", npcp_array))
  /\ current_IF' = Here
  /\ NextWord
  /\ UNCHANGED <<settled, current_DO, current_BEGIN>>

else_create ==
  /\ Compiling("ELSE")
  /\ Emit(smtok("ELSE", npcp_array))
  /\ current_IF' = Here
  /\ NextWord
  /\ UNCHANGED <<settled, current_DO, current_BEGIN>>

(* THEN writes through current_IF; after an ELSE at offset 0 it takes the  *)
(* ELSE for an IF and writes through the pointer it has just popped.       *)
Completable ==
  /\ current_IF \notin {Null, Wild}
  /\ Deref(current_IF).op = "IF" \/ Deref(current_IF).val # 0

then_create_absolute ==    \* fault: the offset of THEN, not the distance to it
  /\ Compiling("THEN")
  /\ IF Completable
     THEN /\ LET patched == [heap EXCEPT ![current_IF[1]][current_IF[2]].val = npcp_array]
             IN  heap' = program_add_smtok(patched, current_PROG, smtok("THEN", npcp_array))
          /\ current_IF' = ct_pop
          /\ NextWord
          /\ UNCHANGED <<settled, current_DO, current_BEGIN>>
     ELSE Crash

then_create ==
  /\ Compiling("THEN")
  /\ IF Completable
     THEN /\ LET patched == [heap EXCEPT ![current_IF[1]][current_IF[2]].val = npcp_array - @]
             IN  heap' = program_add_smtok(patched, current_PROG, smtok("THEN", npcp_array))
          /\ current_IF' = ct_pop
          /\ NextWord
          /\ UNCHANGED <<settled, current_DO, current_BEGIN>>
     ELSE Crash
-----------------------------------------------------------------------------
(***************************************************************************)
(* DO LOOP, BEGIN AGAIN, BEGIN UNTIL.  The val these tokens carry is never *)
(* used at run time, but it is read through the pointer.                   *)
(***************************************************************************)
do_create ==
  /\ Compiling("DO")
  /\ Emit(smtok("DO", npcp_array + 1))
  /\ current_DO' = Here
  /\ NextWord
  /\ UNCHANGED <<settled, current_IF, current_BEGIN>>

begin_create ==
  /\ Compiling("BEGIN")
  /\ Emit(smtok("BEGIN", npcp_array + 1))
  /\ current_BEGIN' = Here
  /\ NextWord
  /\ UNCHANGED <<settled, current_IF, current_DO>>

ijump(ptr) == IF ptr = Wild THEN 0 ELSE Deref(ptr).val

loop_create_checks ==      \* fault: a LOOP whose DO is no longer known is left out
  /\ Compiling("LOOP")
  /\ IF current_DO \in {Null, Wild}
     THEN UNCHANGED <<heap, current_DO>>
     ELSE Emit(smtok("LOOP", ijump(current_DO))) /\ current_DO' = ct_pop
  /\ NextWord
  /\ UNCHANGED <<settled, current_IF, current_BEGIN>>

loop_create ==
  /\ Compiling("LOOP")
  /\ \/ /\ Readable(current_DO)
        /\ Emit(smtok("LOOP", ijump(current_DO)))
        /\ current_DO' = ct_pop
        /\ NextWord
        /\ UNCHANGED <<settled, current_IF, current_BEGIN>>
     \/ MayFault(current_DO) /\ Crash

BackTo(w) ==
  /\ Compiling(w)
  /\ \/ /\ Readable(current_BEGIN)
        /\ Emit(smtok(w, ijump(current_BEGIN)))
        /\ current_BEGIN' = ct_pop
        /\ NextWord
        /\ UNCHANGED <<settled, current_IF, current_DO>>
     \/ MayFault(current_BEGIN) /\ Crash

again_create == BackTo("AGAIN")
until_create == BackTo("UNTIL")
-----------------------------------------------------------------------------
exit_create ==
  /\ Compiling("EXIT")
  /\ Emit(smtok("EXIT", 0))
  /\ NextWord
  /\ UNCHANGED <<settled, openVars>>

(***************************************************************************)
(* : name ... ;                                                            *)
(***************************************************************************)
parse_colon ==
  /\ Parsing(":")
  /\ state' = "COLON_EXPECTING_NAME"
  /\ NextWord
  /\ UNCHANGED <<heapVars, string_buffer, names, current_PROG, openVars, program_stack,
                 program_Stack_top>>

dict_add_entry_newest(name, prog) ==   \* fault: a redefinition replaces the program
  dict' = [n \in DOMAIN dict \cup {name} |-> IF n = name THEN prog ELSE dict[n]]

(* dict_add_entry: a name the dictionary has already keeps its program.    *)
dict_add_entry(name, prog) ==
  dict' = IF name \in DOMAIN dict THEN dict
          ELSE [n \in DOMAIN dict \cup {name} |-> IF n = name THEN prog ELSE dict[n]]

(* Any word is taken as the name.  The words that follow are compiled into *)
(* the new program, in the dictionary or not.  The entry that ct_prog_push *)
(* writes behind the last one is program_Stack_top itself, half a pointer  *)
(* from then on, here one more than it can be: the next ":" or ";" uses it *)
(* as an index.                                                            *)
parse_colon_name ==
  /\ Given({"COLON_EXPECTING_NAME"})
  /\ IF program_Stack_top <= ProgStack
     THEN /\ \E place \in Placements : program_create(place)
          /\ program_stack' = Append(program_stack, current_PROG)
          /\ program_Stack_top' = program_Stack_top + 1
          /\ current_PROG' = Len(heap) + 1
          /\ dict_add_entry(Head(line), Len(heap) + 1)
          /\ state' = "EXPECTING_ANY"
          /\ NextWord
          /\ UNCHANGED <<string_buffer, vartable, openVars>>
     ELSE Crash

(* ct_prog_pop.  What it finds below the entries pushed is NULL, as far as *)
(* memory there is known.                                                  *)
semicolon ==
  /\ Parsing(";")
  /\ \/ program_Stack_top > ProgStack /\ Crash
     \/ /\ program_Stack_top <= ProgStack
        /\ \/ /\ program_stack # << >>
              /\ current_PROG' = program_stack[Len(program_stack)]
              /\ program_stack' = SubSeq(program_stack, 1, Len(program_stack) - 1)
           \/ /\ program_stack = << >> /\ program_Stack_top > -NullsBelow
              /\ current_PROG' = NoProgram
              /\ program_stack' = program_stack
        /\ program_Stack_top' = program_Stack_top - 1
        /\ NextWord
        /\ UNCHANGED <<heapVars, state, names, string_buffer, openVars>>
     \/ /\ program_stack = << >> /\ program_Stack_top <= -NullsBelow
        /\ status' = "stray"
        /\ UNCHANGED <<heapVars, vartable, compilerVars>>
-----------------------------------------------------------------------------
(***************************************************************************)
(* VARIABLE and CREATE take the next word as a name; after CREATE too it   *)
(* goes to parse_variable_name.                                            *)
(***************************************************************************)
Naming == [w \in {"VARIABLE", "CREATE"} |->
             IF w = "CREATE" THEN "CREATE_EXPECTING_NAME" ELSE "VARIABLE_EXPECTING_NAME"]

parse_variable ==
  /\ \E w \in DOMAIN Naming : Parsing(w) /\ state' = Naming[w]
  /\ NextWord
  /\ UNCHANGED <<heapVars, string_buffer, names, current_PROG, openVars, program_stack,
                 program_Stack_top>>

parse_variable_name ==
  /\ Given({Naming[w] : w \in DOMAIN Naming})
  /\ IF Head(line) = "VARIABLE"
     THEN state' = Naming["VARIABLE"] /\ UNCHANGED vartable
     ELSE state' = "EXPECTING_ANY" /\ variable_add(Head(line))
  /\ NextWord
  /\ UNCHANGED <<heapVars, string_buffer, dict, current_PROG, openVars, program_stack,
                 program_Stack_top>>
-----------------------------------------------------------------------------
(***************************************************************************)
(* " words to the next word that ends in a quote".                         *)
(***************************************************************************)
parse_string ==
  /\ Parsing(Quote)
  /\ state' = "STRING_EXPECTING_QUOTE"
  /\ string_buffer' = << >>
  /\ NextWord
  /\ UNCHANGED <<heapVars, names, current_PROG, openVars, program_stack,
                 program_Stack_top>>

parse_string_expecting_quote ==
  /\ Given({"STRING_EXPECTING_QUOTE"})
  /\ Head(line) \in DOMAIN EndQuote => current_PROG # NoProgram
  /\ NextWord
  /\ IF Head(line) \in DOMAIN EndQuote
     THEN /\ state' = "EXPECTING_ANY"
          /\ strings' = Append(strings, Append(string_buffer, EndQuote[Head(line)]))
          /\ Emit(smtok("STR", char_p(Len(strings) + 1)))
          /\ UNCHANGED string_buffer
     ELSE /\ string_buffer' = Append(string_buffer, Head(line))
          /\ UNCHANGED <<state, heap, strings>>
  /\ UNCHANGED <<base, names, current_PROG, openVars, program_stack,
                 program_Stack_top>>
-----------------------------------------------------------------------------
(***************************************************************************)
(* Comments.  parse() looks for a mark in each word strtok hands out, and  *)
(* walks on to the end of the comment, over NULs and newlines alike.  The  *)
(* word behind it takes the place of the mark and is not looked at again,  *)
(* but for a "(" behind a "\".                                            *)
(***************************************************************************)
CommentEndOfLine ==        \* fault: a "(" comment ends with its line
  FirstIn({NL, Closing[Head(line)]}, line, IF Len(line) > 1 /\ line[2] = NL THEN 3 ELSE 2)

(* The newline right behind the mark is a NUL by now.                      *)
CommentEnd ==
  FirstIn({Closing[Head(line)]}, line, IF Len(line) > 1 /\ line[2] = NL THEN 3 ELSE 2)

comment ==
  /\ status = "parse"
  /\ line # << >>
  /\ Head(line) \in checks
  /\ UNCHANGED <<heapVars, string_buffer, names, current_PROG, openVars, program_stack,
                 program_Stack_top>>
  /\ LET rest == strtok(SubSeq(line, CommentEnd + 1, Len(line)))
     IN  IF CommentEnd # 0 /\ rest # << >>
         THEN /\ line' = rest
              /\ checks' = IF Head(line) = "(" THEN {} ELSE {"("}
              /\ state' = "EXPECTING_ANY"
              /\ UNCHANGED status
         ELSE /\ status' = IF CommentEnd = 0 THEN "stray" ELSE "crashed"   \* tok is NULL
              /\ UNCHANGED <<line, checks, state>>

(* A mark that was not looked at reaches parse_word; from then on words    *)
(* are skipped until the next mark that is.                                *)
Skipping == [mark \in DOMAIN Closing |->
               IF mark = "(" THEN "PAREN_COMMENT_EXPECTING_RIGHT_PAREN"
                             ELSE "BACKSPACE_COMMENT_EXPECTING_NEWLINE"]

parse_mark ==
  /\ \E mark \in DOMAIN Closing : Parsing(mark) /\ state' = Skipping[mark]
  /\ NextWord
  /\ UNCHANGED <<heapVars, string_buffer, names, current_PROG, openVars, program_stack,
                 program_Stack_top>>

skip_word ==
  /\ Given({Skipping[mark] : mark \in DOMAIN Closing})
  /\ NextWord
  /\ UNCHANGED <<settled, heap, openVars>>
-----------------------------------------------------------------------------
(***************************************************************************)
(* Every other word: smtok_compile_word resolves it, first match wins.     *)
(***************************************************************************)
Known(w) ==
  \/ w \in {"I", "'", "EXEC"} \cup Numbers \cup Builtins \cup DOMAIN dict
  \/ IsVariable(w)

smtok_compile_builtin(w) ==      \* fault: builtins are looked up before variables
  IF w = "I" THEN smtok("I", 0)
  ELSE IF w \in Numbers THEN smtok("NUM", NumVal[w])
  ELSE IF w = "'" THEN smtok("DEFER", 0)
  ELSE IF w = "EXEC" THEN smtok("EXEC", 0)
  ELSE IF w \in Builtins THEN smtok(w, 0)
  ELSE IF IsVariable(w) THEN smtok("VAR", var_p(variable_lookup(w)))
  ELSE smtok("DICT", dict[w])

smtok_compile_word(w) ==
  IF w = "I" THEN smtok("I", 0)
  ELSE IF w \in Numbers THEN smtok("NUM", NumVal[w])
  ELSE IF w = "'" THEN smtok("DEFER", 0)
  ELSE IF w = "EXEC" THEN smtok("EXEC", 0)
  ELSE IF IsVariable(w) THEN smtok("VAR", var_p(variable_lookup(w)))
  ELSE IF w \in Builtins THEN smtok(w, 0)
  ELSE smtok("DICT", dict[w])

(* program_add: a word that is not found is reported and left out; the     *)
(* rest of the line is compiled as if it were not there.                   *)
program_add(w) ==
  /\ Parsing(w)
  /\ Known(w) => current_PROG # NoProgram
  /\ IF Known(w) THEN Emit(smtok_compile_word(w)) ELSE heap' = heap
  /\ NextWord
  /\ UNCHANGED <<settled, openVars>>

(* A token for no program: behind a surplus ";" the pointer is NULL.       *)
null_PROG ==
  /\ current_PROG = NoProgram
  /\ \/ \E w \in StructureWords : Parsing(w)
     \/ \E w \in Words \ ControlWords : Parsing(w) /\ Known(w)
     \/ Given({"STRING_EXPECTING_QUOTE"}) /\ Head(line) \in DOMAIN EndQuote
  /\ Crash

ParseWord ==
  \/ if_create \/ else_create \/ then_create
  \/ do_create \/ loop_create
  \/ begin_create \/ again_create \/ until_create
  \/ exit_create
  \/ parse_colon \/ parse_colon_name \/ semicolon
  \/ parse_variable \/ parse_variable_name
  \/ parse_string \/ parse_string_expecting_quote
  \/ comment \/ parse_mark \/ skip_word
  \/ \E w \in Words \ ControlWords : program_add(w)
  \/ null_PROG
=============================================================================
