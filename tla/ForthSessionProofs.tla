------------------------ MODULE ForthSessionProofs ------------------------
(***************************************************************************)
(* Proof that in a session of orderly lines every conditional jumps to its *)
(* THEN and every closed program stays as it is: what ForthCodeProofs      *)
(* assumes of the open structures holds there.                             *)
(***************************************************************************)
EXTENDS ForthCodeProofs, ForthLineProofs

(* Every line has its conditionals opened and closed in order, one at a    *)
(* time, and each within one definition or outside all.  It may leave one  *)
(* open at its end, and its loops and definitions are as they may be.      *)
OrderlySession == \A l \in Lines : Orderly(l)

(* The programs that ":" has interrupted are older than the current one;   *)
(* NULL, which a surplus ";" leaves, can only be the first of them.        *)
Rising ==
  /\ \A k \in 1 .. Len(program_stack) : program_stack[k] < current_PROG
  /\ \A k \in 1 .. Len(program_stack) : \A j \in 1 .. (k - 1) : program_stack[j] < program_stack[k]

(* The current program ends open only while the line has an IF open, and   *)
(* that IF is in the current program.                                      *)
CurrentInv ==
  status = "parse" =>
    /\ session # << >>
    /\ current_PROG # NoProgram /\ EndsOpen(current_PROG) => IfOpen(All, Read)
    /\ IfOpen(All, Read) => current_IF[1] = current_PROG

SessionOrder ==
  /\ session # << >> => Orderly(Top(session))
  /\ current_PROG \in 0 .. Len(heap)
  /\ Rising
  /\ DefinesOutsideIf

OrderInv == SessionOrder /\ CurrentInv
-----------------------------------------------------------------------------
(* Which programs end open is a matter of their last bracket.              *)
LEMMA EndsKept ==
  ASSUME NEW tok, Grew(tok), NEW p \in Programs
  PROVE  /\ p # current_PROG \/ tok.op \notin Bracket => (EndsOpen(p)' <=> EndsOpen(p))
         /\ p = current_PROG /\ tok.op = "THEN" => ~EndsOpen(p)'
<1>1. /\ Len(heap[p]) \in Nat
      /\ Len(heap'[p]) = IF p = current_PROG THEN Len(heap[p]) + 1 ELSE Len(heap[p])
      /\ \A i \in 1 .. Len(heap[p]) : heap'[p][i].op = heap[p][i].op
      /\ p = current_PROG => heap'[p][Len(heap[p]) + 1] = tok
  BY DEF Grew
<1>2. CASE p # current_PROG \/ tok.op \notin Bracket
  <2>1. \A i : LastBracket(p, i)' <=> LastBracket(p, i)
    BY <1>2, OldBrackets
  <2>2. \A i : LastBracket(p, i) => i \in 1 .. Len(heap[p]) /\ i \in 1 .. Len(heap'[p])
    BY <1>1 DEF LastBracket
  <2>3. "THEN" \in Bracket
    BY DEF Bracket
  <2>4. EndsOpen(p)' <=> EndsOpen(p)
    BY <1>1, <2>1, <2>2 DEF EndsOpen
  <2> QED  BY <1>2, <2>3, <2>4
<1>3. CASE p = current_PROG /\ tok.op \in Bracket
  <2>1. \A i : LastBracket(p, i)' <=> i = Len(heap[p]) + 1
    BY <1>3, OldBrackets
  <2> QED  BY <1>1, <1>3, <2>1 DEF EndsOpen, Jumping
<1> QED  BY <1>2, <1>3

(* A token goes into the current program, which is not on program_stack.   *)
LEMMA StackKept ==
  ASSUME TypeInv, SessionOrder, NEW tok, Grew(tok),
         UNCHANGED <<current_PROG, program_stack, session>>
  PROVE  SessionOrder'
<1>1. program_stack \in Seq(Interruptible) /\ DOMAIN program_stack = 1 .. Len(program_stack)
  BY LenProperties DEF TypeInv, ReaderInv
<1>2. ASSUME NEW k \in 1 .. Len(program_stack), program_stack[k] # NoProgram
      PROVE  ~EndsOpen(program_stack[k])'
  <2>1. program_stack[k] \in Programs
    BY <1>1, <1>2, ElementOfSeq DEF Interruptible
  <2>2. program_stack[k] # current_PROG
    <3>1. program_stack[k] < current_PROG /\ program_stack[k] \in Int /\ current_PROG \in Int
      BY <2>1 DEF SessionOrder, Rising, Programs
    <3> QED  BY <3>1
  <2>3. ~EndsOpen(program_stack[k])
    BY <1>1, <1>2 DEF SessionOrder, DefinesOutsideIf
  <2> QED  BY <2>1, <2>2, <2>3, EndsKept
<1>3. DefinesOutsideIf'
  BY <1>1, <1>2 DEF DefinesOutsideIf
<1>4. current_PROG \in 0 .. Len(heap')
  BY DEF Grew, Programs, SessionOrder
<1> QED  BY <1>3, <1>4 DEF SessionOrder, Rising

LEMMA OrderKept ==
  ASSUME SessionOrder, UNCHANGED <<heap, current_PROG, program_stack, session>>
  PROVE  SessionOrder'
BY DEF SessionOrder, Rising, DefinesOutsideIf, EndsOpen, LastBracket

(* A new program is empty and the youngest.                                *)
LEMMA CreateEnds ==
  ASSUME TypeInv, NEW place, program_create(place)
  PROVE  /\ Len(heap) \in Nat /\ Len(heap') = Len(heap) + 1
         /\ \A p \in Programs : EndsOpen(p)' <=> EndsOpen(p)
         /\ Len(heap'[Len(heap) + 1]) = 0
<1>1. HeapInv /\ Len(heap) \in Nat
  BY HeapFacts DEF TypeInv
<1>2. /\ Len(heap') = Len(heap) + 1
      /\ \A p \in Programs : heap'[p] = heap[p]
      /\ heap'[Len(heap) + 1] = << >>
  BY <1>1, CreateStep
<1>3. Len(heap'[Len(heap) + 1]) = 0
  BY <1>2
<1>4. \A p \in Programs : EndsOpen(p)' <=> EndsOpen(p)
  BY <1>2 DEF EndsOpen, LastBracket
<1> QED  BY <1>1, <1>2, <1>3, <1>4

(* A word that adds no bracket.                                            *)
LEMMA PlainOrder ==
  ASSUME TypeInv, LineInv, OrderInv, status = "parse", line # << >>, NextWord,
         Head(line) \notin {"IF", "THEN"},
         UNCHANGED <<current_IF, current_PROG, program_stack, session>>,
         heap' = heap \/ \E tok : Emit(tok) /\ tok.op \notin Bracket /\ current_PROG # NoProgram
  PROVE  OrderInv'
<1>1. /\ PlaceInv /\ SessionInv /\ Orderly(Top(session)) /\ session # << >>
      /\ HeapInv /\ current_PROG \in Interruptible
  BY DEF LineInv, OrderInv, CurrentInv, SessionOrder, TypeInv, ReaderInv
<1>2. IfOpen(All, Read)' <=> IfOpen(All, Read)
  BY <1>1, WordRead, Zenon
<1>3. SessionOrder' /\ (EndsOpen(current_PROG)' <=> EndsOpen(current_PROG))
  <2>1. CASE heap' = heap
    BY <2>1, OrderKept DEF OrderInv, EndsOpen, LastBracket
  <2>2. ASSUME NEW tok, Emit(tok), tok.op \notin Bracket, current_PROG # NoProgram
        PROVE  SessionOrder' /\ (EndsOpen(current_PROG)' <=> EndsOpen(current_PROG))
    <3>0. current_PROG \in Programs
      BY <1>1, <2>2 DEF Interruptible
    <3>1. Grew(tok)
      BY <1>1, <2>2, <3>0, EmitGrows
    <3>2. EndsOpen(current_PROG)' <=> EndsOpen(current_PROG)
      BY <2>2, <3>0, <3>1, EndsKept
    <3> QED  BY <3>1, <3>2, StackKept DEF OrderInv
  <2> QED  BY <2>1, <2>2
<1>4. CurrentInv'
  BY <1>2, <1>3 DEF OrderInv, CurrentInv
<1> QED  BY <1>3, <1>4 DEF OrderInv

(* IF and ELSE are entered in current_IF while the line has an IF open.    *)
LEMMA IfOrder ==
  ASSUME TypeInv, LineInv, OrderInv, session' = session, if_create \/ else_create
  PROVE  OrderInv'
<1>1. /\ status = "parse" /\ state = "EXPECTING_ANY" /\ line # << >> /\ current_PROG \in Programs
      /\ Head(line) \in {"IF", "ELSE"}
      /\ NextWord /\ UNCHANGED <<current_PROG, program_stack, program_Stack_top>> /\ current_IF' = Here
      /\ Emit(smtok(Head(line), npcp_array))
  BY CompilingIntoProgram DEF if_create, else_create, Parsing, Given, settled
<1>2. PlaceInv /\ StateInv /\ SessionInv /\ Orderly(Top(session)) /\ session # << >> /\ HeapInv
  BY <1>1 DEF LineInv, OrderInv, CurrentInv, SessionOrder, TypeInv
<1>3. SessionOrder'
  BY <1>1, <1>2, EmitGrows, StackKept DEF OrderInv
<1>4. IfOpen(All, Read)'
  <2>1. Head(line) = "ELSE" => IfOpen(All, Read)
    BY <1>1, <1>2, WordFits
  <2> QED  BY <1>1, <1>2, <2>1, WordRead, Zenon
<1>5. current_IF'[1] = current_PROG'
  BY <1>1 DEF Here
<1> QED  BY <1>2, <1>3, <1>4, <1>5 DEF OrderInv, CurrentInv

(* Behind a THEN no IF is open.                                            *)
LEMMA ThenOrder ==
  ASSUME TypeInv, LineInv, OrderInv, session' = session, then_create
  PROVE  OrderInv'
<1>1. /\ status = "parse" /\ state = "EXPECTING_ANY" /\ line # << >> /\ current_PROG \in Programs
      /\ Head(line) = "THEN"
  BY CompilingIntoProgram DEF then_create, Parsing, Given
<1>2. PlaceInv /\ StateInv /\ SessionInv /\ Orderly(Top(session)) /\ session # << >> /\ HeapInv
  BY <1>1 DEF LineInv, OrderInv, CurrentInv, SessionOrder, TypeInv
<1>3. CASE ~Completable
  <2>1. UNCHANGED <<heap, current_PROG, program_stack, program_Stack_top>> /\ status' # "parse"
    BY <1>3 DEF then_create, Crash, heapVars, compilerVars
  <2> QED  BY <2>1, OrderKept DEF OrderInv, CurrentInv
<1>4. CASE Completable
  <2>1. Grew(smtok("THEN", npcp_array)) /\ smtok("THEN", npcp_array).op = "THEN"
    BY <1>4, ThenGrows DEF smtok
  <2>2. NextWord /\ UNCHANGED <<current_PROG, program_stack, program_Stack_top>>
    BY <1>4 DEF then_create, settled
  <2>3. SessionOrder'
    BY <2>1, <2>2, StackKept DEF OrderInv
  <2>4. ~EndsOpen(current_PROG)'
    BY <1>1, <2>1, <2>2, EndsKept
  <2>5. ~IfOpen(All, Read)'
    <3>1. Head(line) # "IF"
      BY <1>1
    <3> QED  BY <1>1, <1>2, <2>2, <3>1, WordRead, Zenon
  <2> QED  BY <1>2, <2>3, <2>4, <2>5 DEF OrderInv, CurrentInv
<1> QED  BY <1>3, <1>4

(* ":" interrupts a program that does not end open, and begins a new one.  *)
LEMMA ColonNameOrder ==
  ASSUME TypeInv, LineInv, OrderInv, session' = session, parse_colon_name
  PROVE  OrderInv'
<1>1. status = "parse" /\ state = "COLON_EXPECTING_NAME" /\ line # << >>
  BY DEF parse_colon_name, Given
<1>2. /\ PlaceInv /\ StateInv /\ SessionInv /\ Orderly(Top(session)) /\ session # << >>
      /\ program_stack \in Seq(Interruptible) /\ current_PROG \in Interruptible
  BY <1>1 DEF LineInv, OrderInv, CurrentInv, SessionOrder, TypeInv, ReaderInv
<1>3. CASE ~(program_Stack_top <= ProgStack)
  <2>1. UNCHANGED <<heap, current_PROG, program_stack, program_Stack_top>> /\ status' # "parse"
    BY <1>3 DEF parse_colon_name, Crash, heapVars, compilerVars
  <2> QED  BY <2>1, OrderKept DEF OrderInv, CurrentInv
<1>4. CASE program_Stack_top <= ProgStack
  <2>1. /\ \E place : program_create(place)
        /\ program_stack' = Append(program_stack, current_PROG)
        /\ current_PROG' = Len(heap) + 1 /\ NextWord /\ current_IF' = current_IF
    BY <1>4 DEF parse_colon_name, openVars
  <2>2. /\ Len(heap) \in Nat /\ Len(heap') = Len(heap) + 1
        /\ \A p \in Programs : EndsOpen(p)' <=> EndsOpen(p)
        /\ Len(heap'[current_PROG']) = 0
    BY <2>1, CreateEnds
  <2>3. ~EndsOpen(current_PROG)'
    BY <2>2 DEF EndsOpen
  <2>4. ~IfOpen(All, Read) /\ Head(line) \notin ControlWords
    <3>1. "COLON_EXPECTING_NAME" # "EXPECTING_ANY"
      OBVIOUS
    <3> QED  BY <1>1, <1>2, <3>1, WordFits
  <2>5. ~IfOpen(All, Read)'
    <3>1. Head(line) # "IF"
      BY <2>4 DEF ControlWords, StructureWords
    <3> QED  BY <1>1, <1>2, <2>1, <2>4, <3>1, WordRead, Zenon
  <2>6. current_PROG # NoProgram => ~EndsOpen(current_PROG)
    BY <1>1, <2>4 DEF OrderInv, CurrentInv
  <2>7. /\ Len(program_stack) \in Nat /\ Len(program_stack') = Len(program_stack) + 1
        /\ DOMAIN program_stack = 1 .. Len(program_stack)
        /\ DOMAIN program_stack' = 1 .. (Len(program_stack) + 1)
        /\ program_stack'[Len(program_stack) + 1] = current_PROG
        /\ \A k \in 1 .. Len(program_stack) :
             program_stack'[k] = program_stack[k] /\ program_stack[k] \in Interruptible
    BY <1>2, <2>1, LenProperties, AppendProperties, ElementOfSeq
  <2>8. /\ \A k \in 1 .. Len(program_stack) : program_stack[k] < current_PROG
        /\ \A k \in 1 .. Len(program_stack) : \A j \in 1 .. (k - 1) : program_stack[j] < program_stack[k]
    BY DEF OrderInv, SessionOrder, Rising
  <2>9. Rising'
    <3>1. \A p \in Interruptible : p < current_PROG' /\ p \in Int
      BY <2>1, <2>2 DEF Interruptible, Programs, NoProgram
    <3>2. ASSUME NEW k \in 1 .. Len(program_stack')
          PROVE  program_stack'[k] < current_PROG'
      BY <1>2, <2>7, <3>1, <3>2
    <3>3. ASSUME NEW k \in 1 .. Len(program_stack'), NEW j \in 1 .. (k - 1)
          PROVE  program_stack'[j] < program_stack'[k]
      <4>1. j \in 1 .. Len(program_stack)
        BY <2>7
      <4>2. CASE k = Len(program_stack) + 1
        BY <2>7, <2>8, <4>1, <4>2
      <4>3. CASE k # Len(program_stack) + 1
        BY <2>7, <2>8, <4>1, <4>3
      <4> QED  BY <4>2, <4>3
    <3> QED  BY <3>2, <3>3 DEF Rising
  <2>10. DefinesOutsideIf'
    <3>1. ASSUME NEW k \in 1 .. (Len(program_stack) + 1), program_stack'[k] # NoProgram
          PROVE  ~EndsOpen(program_stack'[k])
      <4>1. CASE k = Len(program_stack) + 1
        BY <2>6, <2>7, <3>1, <4>1
      <4>2. CASE k # Len(program_stack) + 1
        BY <2>7, <3>1, <4>2 DEF OrderInv, SessionOrder, DefinesOutsideIf
      <4> QED  BY <4>1, <4>2
    <3>2. ASSUME NEW k \in 1 .. (Len(program_stack) + 1), program_stack'[k] # NoProgram
          PROVE  ~EndsOpen(program_stack[k])'
      <4>1. PICK p \in Programs : p = program_stack'[k]
        BY <1>2, <2>7, <3>2 DEF Interruptible
      <4>2. ~EndsOpen(p)'
        BY <2>2, <3>1, <3>2, <4>1
      <4> QED  BY <4>1, <4>2 DEF EndsOpen, LastBracket
    <3> QED  BY <2>7, <3>2 DEF DefinesOutsideIf
  <2>11. SessionOrder'
    BY <2>1, <2>2, <2>9, <2>10 DEF OrderInv, SessionOrder
  <2> QED  BY <1>2, <2>3, <2>5, <2>11 DEF OrderInv, CurrentInv
<1> QED  BY <1>3, <1>4

(* ";" goes back to a program that does not end open, or to none.          *)
LEMMA SemicolonOrder ==
  ASSUME TypeInv, LineInv, OrderInv, session' = session, semicolon
  PROVE  OrderInv'
<1>1. status = "parse" /\ state = "EXPECTING_ANY" /\ line # << >> /\ Head(line) = ";"
  BY DEF semicolon, Parsing, Given
<1>2. /\ PlaceInv /\ StateInv /\ SessionInv /\ Orderly(Top(session)) /\ session # << >>
      /\ program_stack \in Seq(Interruptible)
  BY <1>1 DEF LineInv, OrderInv, CurrentInv, SessionOrder, TypeInv, ReaderInv
<1>3. CASE status' # "parse"
  <2>1. UNCHANGED <<heap, current_PROG, program_stack, program_Stack_top>>
    BY <1>1, <1>3 DEF semicolon, Crash, NextWord, heapVars, compilerVars
  <2> QED  BY <1>3, <2>1, OrderKept DEF OrderInv, CurrentInv
<1>a. status' = "parse" => NextWord /\ heap' = heap
  BY DEF semicolon, Crash, heapVars
<1>b. status' = "parse" => ~IfOpen(All, Read)'
  <2>1. Head(line) # "IF" /\ Head(line) \in {":", ";"}
    BY <1>1
  <2>2. ~IfOpen(All, Read)
    BY <1>1, <1>2, <2>1, WordFits, Zenon
  <2> QED  BY <1>1, <1>2, <1>a, <2>1, <2>2, WordRead, Zenon
<1>5. CASE status' = "parse" /\ program_stack = << >>
  <2>1. current_PROG' = NoProgram /\ program_stack' = << >>
    BY <1>5 DEF semicolon, Crash
  <2>2. DOMAIN program_stack' = {} /\ Len(program_stack') = 0
    BY <2>1
  <2>3. current_PROG' \in 0 .. Len(heap')
    BY <2>1, <1>5, <1>a, HeapFacts DEF NoProgram, TypeInv
  <2>4. SessionOrder'
    BY <2>2, <2>3 DEF OrderInv, SessionOrder, Rising, DefinesOutsideIf
  <2> QED  BY <1>2, <1>5, <1>b, <2>1, <2>4 DEF OrderInv, CurrentInv
<1>4. CASE status' = "parse" /\ program_stack # << >>
  <2>1. /\ current_PROG' = program_stack[Len(program_stack)]
        /\ program_stack' = Popped(program_stack, 1)
        /\ heap' = heap /\ NextWord
    BY <1>4, <1>a DEF semicolon, Crash, Popped
  <2>2. /\ Len(program_stack) \in Nat \ {0} /\ program_stack[Len(program_stack)] \in Interruptible
        /\ DOMAIN program_stack = 1 .. Len(program_stack)
    BY <1>2, <1>4, TopType, LenProperties DEF Top
  <2>3. /\ program_stack' \in Seq(Interruptible)
        /\ Len(program_stack') = Len(program_stack) - 1
        /\ \A k \in 1 .. (Len(program_stack) - 1) : program_stack'[k] = program_stack[k]
    <3>1. 1 \in Nat /\ 1 <= Len(program_stack)
      BY <2>2
    <3>2. /\ Popped(program_stack, 1) \in Seq(Interruptible)
          /\ Len(Popped(program_stack, 1)) = Len(program_stack) - 1
          /\ \A k \in 1 .. (Len(program_stack) - 1) : Popped(program_stack, 1)[k] = program_stack[k]
      BY <1>2, <3>1, PoppedProperties
    <3> QED  BY <2>1, <3>2
  <2>4. DOMAIN program_stack' = 1 .. (Len(program_stack) - 1)
    BY <2>3, LenProperties
  <2>5. /\ \A k \in 1 .. Len(program_stack) :
             program_stack[k] # NoProgram => ~EndsOpen(program_stack[k])
        /\ \A k \in 1 .. Len(program_stack) : \A j \in 1 .. (k - 1) : program_stack[j] < program_stack[k]
    BY <2>2 DEF OrderInv, SessionOrder, Rising, DefinesOutsideIf
  <2>6. Rising'
    BY <2>1, <2>2, <2>3, <2>5, SMTT(30) DEF Rising
  <2>7. DefinesOutsideIf'
    <3>1. ASSUME NEW k \in 1 .. (Len(program_stack) - 1), program_stack'[k] # NoProgram
          PROVE  ~EndsOpen(program_stack[k])'
      <4>1. ~EndsOpen(program_stack'[k])
        BY <2>2, <2>3, <2>5, <3>1
      <4> QED  BY <2>1, <4>1 DEF EndsOpen, LastBracket
    <3> QED  BY <2>4, <3>1 DEF DefinesOutsideIf
  <2>8. current_PROG' # NoProgram => ~EndsOpen(current_PROG)'
    <3>1. current_PROG' # NoProgram => ~EndsOpen(current_PROG')
      BY <2>1, <2>2, <2>5
    <3> QED  BY <2>1, <3>1 DEF EndsOpen, LastBracket
  <2>10. SessionOrder'
    <3>1. current_PROG' \in 0 .. Len(heap')
      BY <2>1, <2>2, HeapFacts DEF TypeInv, Interruptible, Programs, NoProgram
    <3> QED  BY <2>6, <2>7, <3>1 DEF OrderInv, SessionOrder
  <2> QED  BY <1>2, <1>4, <1>b, <2>8, <2>10 DEF OrderInv, CurrentInv
<1> QED  BY <1>3, <1>4, <1>5

LEMMA CompileOrder ==
  ASSUME TypeInv, LineInv, OrderInv, Compile
  PROVE  OrderInv'
<1>0. /\ ParseWord /\ session' = session /\ status = "parse"
      /\ PlaceInv /\ StateInv /\ SessionInv /\ Orderly(Top(session))
  <2>1. status = "parse"
    BY DEF Compile, ParseWord, if_create, else_create, then_create, do_create, loop_create,
       begin_create, again_create, until_create, BackTo, exit_create, parse_colon,
       parse_colon_name, semicolon, parse_variable, parse_variable_name, parse_string,
       parse_string_expecting_quote, comment, parse_mark, skip_word, program_add, null_PROG,
       Compiling, Parsing, Given
  <2> QED  BY <2>1 DEF Compile, LineInv, OrderInv, CurrentInv, SessionOrder, TypeInv
<1>1. CASE Crash
  <2>1. UNCHANGED <<heap, current_PROG, program_stack, program_Stack_top>> /\ status' # "parse"
    BY <1>1 DEF Crash, heapVars, compilerVars
  <2> QED  BY <1>0, <2>1, OrderKept DEF OrderInv, CurrentInv
<1>2. CASE if_create \/ else_create
  BY <1>0, <1>2, IfOrder
<1>3. CASE then_create
  BY <1>0, <1>3, ThenOrder
<1>4. CASE parse_colon_name
  BY <1>0, <1>4, ColonNameOrder
<1>5. CASE semicolon
  BY <1>0, <1>5, SemicolonOrder
<1>6. CASE (do_create \/ loop_create \/ begin_create \/ again_create \/ until_create \/ exit_create) /\ ~Crash
  <2>1. /\ line # << >> /\ Head(line) \notin {"IF", "THEN"} /\ NextWord
        /\ UNCHANGED <<current_IF, current_PROG, program_stack, program_Stack_top>>
        /\ current_PROG # NoProgram
        /\ \E v : \/ Emit(smtok("DO", v)) \/ Emit(smtok("LOOP", v)) \/ Emit(smtok("BEGIN", v))
                  \/ Emit(smtok("AGAIN", v)) \/ Emit(smtok("UNTIL", v)) \/ Emit(smtok("EXIT", v))
    BY <1>6 DEF do_create, loop_create, begin_create, again_create, until_create, BackTo,
       exit_create, settled, openVars, Compiling, Parsing, Given
  <2>2. \E tok : Emit(tok) /\ tok.op \notin Bracket /\ current_PROG # NoProgram
    BY <2>1 DEF smtok, Bracket
  <2> QED  BY <1>0, <2>1, <2>2, PlainOrder
<1>7. CASE parse_colon \/ parse_variable
  <2>1. /\ line # << >> /\ Head(line) \notin {"IF", "THEN"} /\ NextWord /\ heap' = heap
        /\ UNCHANGED <<current_IF, current_PROG, program_stack, program_Stack_top>>
    BY <1>7 DEF parse_colon, parse_variable, Parsing, Given, heapVars, openVars, Naming
  <2> QED  BY <1>0, <2>1, PlainOrder
<1>8. CASE parse_variable_name
  <2>1. /\ line # << >> /\ NextWord /\ heap' = heap /\ state # "EXPECTING_ANY"
        /\ UNCHANGED <<current_IF, current_PROG, program_stack, program_Stack_top>>
    BY <1>8 DEF parse_variable_name, Given, heapVars, openVars, Naming
  <2>2. Head(line) \notin ControlWords
    BY <1>0, <2>1, WordFits
  <2>3. Head(line) \notin {"IF", "THEN"}
    BY <2>2 DEF ControlWords, StructureWords
  <2> QED  BY <1>0, <2>1, <2>3, PlainOrder
<1>9. ASSUME NEW w \in Words \ ControlWords, program_add(w)
      PROVE  OrderInv'
  <2>1. /\ line # << >> /\ Head(line) = w /\ NextWord
        /\ UNCHANGED <<current_IF, current_PROG, program_stack, program_Stack_top>>
        /\ heap' = heap \/ (Known(w) /\ current_PROG # NoProgram /\ Emit(smtok_compile_word(w)))
    BY <1>9 DEF program_add, settled, openVars, Parsing, Given
  <2>2. Known(w) => smtok_compile_word(w).op \notin Bracket
    <3>1. TableInv /\ Len(heap) \in Nat
      BY HeapFacts DEF TypeInv
    <3> QED  BY <1>9, <3>1, CompiledToken DEF Bracket
  <2>3. Head(line) \notin {"IF", "THEN"}
    BY <1>9, <2>1 DEF ControlWords, StructureWords
  <2> QED  BY <1>0, <2>1, <2>2, <2>3, PlainOrder
<1>10. ~comment /\ ~parse_string /\ ~parse_mark /\ ~parse_string_expecting_quote /\ ~skip_word
  <2>1. line # << >> => Head(line) \notin DOMAIN Closing \cup DOMAIN EndQuote
    BY <1>0, WordFits
  <2>2. checks \subseteq DOMAIN Closing /\ Quote \in DOMAIN EndQuote
    BY CompilerAssumption DEF TypeInv, ReaderInv, AllChecks
  <2>3. ~comment /\ ~parse_string /\ ~parse_mark
    BY <2>1, <2>2 DEF comment, parse_string, parse_mark, Parsing, Given
  <2>4. /\ state # "STRING_EXPECTING_QUOTE"
        /\ state \notin {Skipping[mark] : mark \in DOMAIN Closing}
    BY <1>0 DEF StateInv, Naming, Skipping, Closing
  <2> QED  BY <2>3, <2>4 DEF parse_string_expecting_quote, skip_word, Given
<1> QED  BY <1>0, <1>1, <1>2, <1>3, <1>4, <1>5, <1>6, <1>7, <1>8, <1>9, <1>10
         DEF ParseWord, null_PROG

(* A new line has nothing open, and its MAIN is empty.                     *)
LEMMA ParseOrder ==
  ASSUME OrderlySession, TypeInv, OrderInv, parse
  PROVE  OrderInv'
<1>1. PICK l \in NextLines : session' = Append(session, l)
  BY DEF parse
<1>2. session' # << >> /\ Orderly(Top(session'))
  <2>1. SessionInv /\ Len(session) \in Nat
    BY LenProperties DEF TypeInv, SessionInv
  <2>2. l \in Source /\ l \in Lines
    BY <2>1, NextLine
  <2>3. /\ Append(session, l) # << >>
        /\ Len(Append(session, l)) = Len(session) + 1
        /\ Append(session, l)[Len(session) + 1] = l
    BY <2>1, <2>2, AppendProperties DEF SessionInv
  <2>4. Orderly(l)
    BY <2>2 DEF OrderlySession
  <2> QED  BY <1>1, <2>3, <2>4 DEF Top
<1>3. /\ \E place : program_create(place)
      /\ current_PROG' = Len(heap) + 1 /\ status' = "parse"
      /\ UNCHANGED <<program_stack, current_IF>>
  BY DEF parse, openVars
<1>4. /\ Len(heap) \in Nat /\ Len(heap') = Len(heap) + 1
      /\ \A p \in Programs : EndsOpen(p)' <=> EndsOpen(p)
      /\ Len(heap'[current_PROG']) = 0
  BY <1>3, CreateEnds
<1>5. ~EndsOpen(current_PROG)'
  BY <1>4 DEF EndsOpen
<1>6. ~IfOpen(All, Read)'
  <2>1. StructInv'
    BY <1>2, <1>3, ParseLine DEF LineInv
  <2> QED  BY <1>4, <2>1 DEF StructInv, npcp_array
<1>7. SessionOrder'
  <2>1. program_stack \in Seq(Interruptible) /\ DOMAIN program_stack = 1 .. Len(program_stack)
    BY LenProperties DEF TypeInv, ReaderInv
  <2>2. \A k \in 1 .. Len(program_stack) : program_stack[k] \in Interruptible
    BY <2>1, ElementOfSeq
  <2>3. Rising'
    <3>1. \A p \in Interruptible : p < current_PROG'
      BY <1>3, <1>4 DEF Interruptible, Programs, NoProgram
    <3> QED  BY <1>3, <2>2, <3>1 DEF OrderInv, SessionOrder, Rising
  <2>4. DefinesOutsideIf'
    <3>1. ASSUME NEW k \in 1 .. Len(program_stack), program_stack[k] # NoProgram
          PROVE  ~EndsOpen(program_stack[k])'
      <4>1. PICK p \in Programs : p = program_stack[k]
        BY <2>2, <3>1 DEF Interruptible
      <4>2. ~EndsOpen(p)'
        BY <1>4, <2>1, <3>1, <4>1 DEF OrderInv, SessionOrder, DefinesOutsideIf
      <4> QED  BY <1>3, <4>1, <4>2 DEF EndsOpen, LastBracket
    <3> QED  BY <1>3, <2>1, <3>1 DEF DefinesOutsideIf
  <2>5. current_PROG' \in 0 .. Len(heap')
    BY <1>3, <1>4
  <2> QED  BY <1>2, <2>3, <2>4, <2>5 DEF SessionOrder
<1> QED  BY <1>2, <1>5, <1>6, <1>7 DEF OrderInv, CurrentInv

LEMMA OrderSteps ==
  ASSUME OrderlySession, TypeInv, LineInv, OrderInv, [Next]_vars
  PROVE  OrderInv'
<1>1. CASE UNCHANGED vars
  BY <1>1, OrderKept DEF vars, heapVars, compilerVars, openVars, OrderInv, CurrentInv, EndsOpen,
     LastBracket, All, Read
<1>2. CASE parse
  BY <1>2, ParseOrder
<1>3. CASE Compile
  BY <1>3, CompileOrder
<1>4. CASE Start
  <2>1. UNCHANGED <<heap, current_PROG, program_stack, session>> /\ status' # "parse"
    BY <1>4 DEF Start, run_task, heapVars, compilerVars
  <2> QED  BY <2>1, OrderKept DEF OrderInv, CurrentInv
<1>5. CASE Run
  <2>1. UNCHANGED <<current_PROG, program_stack, session>> /\ status' # "parse"
    BY <1>5, RunCrashes DEF Run, compilerVars
  <2>2. heap' = heap
    BY <1>5 DEF Run, Execute, cb_ef_number, ef_primitive, d_variable_store, d_string_exec, ef_do,
       ef_i_cb, ef_loop_end, ef_begin, ef_again, ef_until, ef_if, ef_else, ef_then, ef_exit,
       ef_dict_entry, ef_defer, ef_exec, Return, Finish, Fetch, Overrun, Jump, Goto, heapVars
  <2> QED  BY <2>1, <2>2, OrderKept DEF OrderInv, CurrentInv
<1> QED  BY <1>1, <1>2, <1>3, <1>4, <1>5 DEF Next
-----------------------------------------------------------------------------
LEMMA OrderHolds ==
  ASSUME OrderlySession
  PROVE  Spec => [](TypeInv /\ LineInv /\ OrderInv)
<1>1. Init => LineInv /\ OrderInv
  <2>1. Init => program_stack = << >> /\ current_PROG = 0 /\ status = "prompt" /\ session = << >> /\ heap = << >>
    BY DEF Init, CompilerInit
  <2>2. ASSUME program_stack = << >>, current_PROG = 0, status = "prompt", session = << >>, heap = << >>
        PROVE  LineInv /\ OrderInv
    <3>1. DOMAIN program_stack = {} /\ Len(program_stack) = 0 /\ Len(heap) = 0
      BY <2>2
    <3> QED  BY <2>2, <3>1 DEF LineInv, OrderInv, SessionOrder, CurrentInv, Rising, DefinesOutsideIf
  <2> QED  BY <2>1, <2>2
<1>2. TypeInv /\ LineInv /\ BalancedLineCompiles /\ OrderInv /\ [Next]_vars => LineInv' /\ OrderInv'
  <2> SUFFICES ASSUME TypeInv, LineInv, BalancedLineCompiles, OrderInv, [Next]_vars
               PROVE  LineInv' /\ OrderInv'
    OBVIOUS
  <2>1. LineInv'
    BY LineSteps
  <2> QED  BY <2>1, OrderSteps
<1> QED  BY <1>1, <1>2, Inductive, BalancedLinesCompile, PTL DEF Spec

(* In a session of orderly lines every conditional jumps to the THEN that  *)
(* closes it, whatever else its lines do: stray loops, missing or surplus  *)
(* ":" and ";", an IF that its line leaves open (compiler.c, parser.c).    *)
THEOREM OrderlySessionsLand == ASSUME OrderlySession PROVE Spec => []JumpsLand
<1>1. OrderInv => DefinesOutsideIf
  BY DEF OrderInv, SessionOrder
<1> QED  BY <1>1, OrderHolds, ConditionalsLand, PTL

(* And its closed programs stay as they are: THEN completes an IF of the   *)
(* program that it stands in.                                              *)
THEOREM OrderlySessionsStay == ASSUME OrderlySession PROVE Spec => ClosedProgramsStay
<1>1. TypeInv /\ LineInv /\ OrderInv => IfIsOpen
  <2> SUFFICES ASSUME TypeInv, LineInv, OrderInv, Parsing("THEN")
               PROVE  Open(current_IF[1])
    BY DEF IfIsOpen
  <2>1. status = "parse" /\ line # << >> /\ Head(line) = "THEN"
    BY DEF Parsing, Given
  <2>2. PlaceInv /\ StateInv /\ SessionInv /\ Orderly(Top(session))
    BY <2>1 DEF LineInv, OrderInv, CurrentInv, SessionOrder, TypeInv
  <2>3. IfOpen(All, Read)
    <3>1. Head(line) \in {"THEN", "ELSE"}
      BY <2>1
    <3> QED  BY <2>1, <2>2, <3>1, WordFits, Zenon
  <2> QED  BY <2>1, <2>3 DEF OrderInv, CurrentInv, Open
<1> QED  BY <1>1, OrderHolds, ClosedStay, PTL
=============================================================================
