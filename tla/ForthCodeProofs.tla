-------------------------- MODULE ForthCodeProofs --------------------------
(***************************************************************************)
(* Proofs about what the compiler leaves behind, for every vocabulary and  *)
(* script: what a name stands for, which tokens of a program may still     *)
(* change, and where conditionals jump.                                    *)
(***************************************************************************)
EXTENDS ForthProofs

(***************************************************************************)
(* Names.  variable_lookup finds one entry because a name has only one.    *)
(***************************************************************************)
NamesInv ==
  \A j, k \in 1 .. Len(vartable) : vartable[j].name = vartable[k].name => j = k

SameNames ==
  /\ Len(vartable') = Len(vartable)
  /\ \A k \in 1 .. Len(vartable) : vartable'[k].name = vartable[k].name

LEMMA LookupFinds ==
  ASSUME NEW T \in Seq(Entries), NEW j \in 1 .. Len(T), NEW name, T[j].name = name,
         \A i, k \in 1 .. Len(T) : T[i].name = T[k].name => i = k
  PROVE  (CHOOSE k \in DOMAIN T : T[k].name = name) = j
<1>1. DOMAIN T = 1 .. Len(T)
  BY LenProperties
<1>2. \E k \in DOMAIN T : T[k].name = name
  BY <1>1
<1>3. PICK k : k = CHOOSE i \in DOMAIN T : T[i].name = name
  OBVIOUS
<1>4. k \in DOMAIN T /\ T[k].name = name
  BY <1>2, <1>3
<1> QED  BY <1>1, <1>3, <1>4

(* The words that are variables, and where, stay the same.                 *)
LEMMA SameNamesStay ==
  ASSUME vartable \in Seq(Entries), vartable' \in Seq(Entries), NamesInv, SameNames
  PROVE  /\ NamesInv'
         /\ \A w : IsVariable(w)' <=> IsVariable(w)
         /\ \A w : IsVariable(w) => variable_lookup(w)' = variable_lookup(w)
<1>1. /\ DOMAIN vartable = 1 .. Len(vartable) /\ DOMAIN vartable' = 1 .. Len(vartable)
      /\ Len(vartable') = Len(vartable)
      /\ \A k \in 1 .. Len(vartable) : vartable'[k].name = vartable[k].name
  BY LenProperties DEF SameNames
<1>2. NamesInv'
  BY <1>1 DEF NamesInv
<1>3. \A w : IsVariable(w)' <=> IsVariable(w)
  BY <1>1 DEF IsVariable
<1>4. ASSUME NEW w, IsVariable(w)
      PROVE  variable_lookup(w)' = variable_lookup(w)
  <2>1. PICK j \in 1 .. Len(vartable) : vartable[j].name = w
    BY <1>1, <1>4 DEF IsVariable
  <2>2. variable_lookup(w) = j
    BY <2>1, LookupFinds DEF NamesInv, variable_lookup
  <2>3. j \in 1 .. Len(vartable') /\ vartable'[j].name = w
    BY <1>1, <2>1
  <2>4. \A i, k \in 1 .. Len(vartable') : vartable'[i].name = vartable'[k].name => i = k
    BY <1>2 DEF NamesInv
  <2>5. variable_lookup(w)' = j
    BY <2>3, <2>4, LookupFinds DEF variable_lookup
  <2> QED  BY <2>2, <2>5
<1> QED  BY <1>2, <1>3, <1>4

(* A new variable is the last of the table, and changes what no other name *)
(* stands for.                                                             *)
LEMMA AddedName ==
  ASSUME TableInv, vartable' \in Seq(Entries), NamesInv, NEW name \in Words,
         variable_add(name), ~IsVariable(name)
  PROVE  /\ NamesInv'
         /\ IsVariable(name)' /\ vartable'[Len(vartable')].name = name
         /\ \A w : w # name => (IsVariable(w)' <=> IsVariable(w))
         /\ \A w : IsVariable(w) => IsVariable(w)' /\ variable_lookup(w)' = variable_lookup(w)
<1>1. PICK sz \in ElemSizes :
        vartable' = Append(vartable, [name |-> name, l |-> 0, sz |-> sz, lp |-> << >>])
  BY DEF variable_add
<1>2. Len(vartable) \in Nat /\ DOMAIN vartable = 1 .. Len(vartable) /\ vartable \in Seq(Entries)
  BY LenProperties DEF TableInv
<1>3. /\ Len(vartable') = Len(vartable) + 1
      /\ \A k \in 1 .. Len(vartable) : vartable'[k] = vartable[k]
      /\ vartable'[Len(vartable) + 1].name = name
  BY <1>1, <1>2
<1>4. DOMAIN vartable' = 1 .. (Len(vartable) + 1)
  BY <1>3, LenProperties
<1>5. NamesInv'
  BY <1>2, <1>3 DEF NamesInv, IsVariable
<1>6. IsVariable(name)' /\ vartable'[Len(vartable')].name = name
  BY <1>2, <1>3, <1>4 DEF IsVariable
<1>7. \A w : w # name => (IsVariable(w)' <=> IsVariable(w))
  BY <1>2, <1>3, <1>4 DEF IsVariable
<1>8. ASSUME NEW w, IsVariable(w)
      PROVE  IsVariable(w)' /\ variable_lookup(w)' = variable_lookup(w)
  <2>1. PICK j \in 1 .. Len(vartable) : vartable[j].name = w
    BY <1>2, <1>8 DEF IsVariable
  <2>2. variable_lookup(w) = j
    BY <1>2, <2>1, LookupFinds DEF NamesInv, variable_lookup
  <2>3. j \in 1 .. Len(vartable') /\ vartable'[j].name = w
    BY <1>2, <1>3, <2>1
  <2>4. \A i, k \in 1 .. Len(vartable') : vartable'[i].name = vartable'[k].name => i = k
    BY <1>5 DEF NamesInv
  <2>5. variable_lookup(w)' = j
    BY <2>3, <2>4, LookupFinds DEF variable_lookup
  <2> QED  BY <1>4, <2>2, <2>3, <2>5 DEF IsVariable
<1> QED  BY <1>5, <1>6, <1>7, <1>8

(* A store changes the value of a variable and not its name.               *)
LEMMA StoresKeepNames ==
  ASSUME TypeInv, d_variable_store
  PROVE  SameNames
<1>1. vartable \in Seq(Entries) /\ DOMAIN vartable = 1 .. Len(vartable) /\ Len(vartable) \in Nat
  BY LenProperties DEF TypeInv, TableInv
<1>2. ASSUME NEW a \in Int, IsVar(a), NEW e, e.name = Var(a).name,
             vartable' = [vartable EXCEPT ![Idx(a)] = e]
      PROVE  SameNames
  <2>1. Idx(a) \in 1 .. Len(vartable) /\ Var(a) = vartable[Idx(a)]
    BY <1>1, <1>2 DEF IsVar, Idx, Var
  <2>2. /\ DOMAIN vartable' = DOMAIN vartable
        /\ \A i \in 1 .. Len(vartable) : vartable'[i].name = vartable[i].name
    BY <1>1, <1>2, <2>1
  <2>3. Len(vartable') = Len(vartable)
    BY <1>1, <1>2
  <2> QED  BY <2>2, <2>3 DEF SameNames
<1>3. ASSUME NEW a \in Int, IsVar(a)
      PROVE  Var(a) \in Entries
  BY <1>3, VariableFacts DEF TypeInv
<1>4. \A op \in {"!", "!!", "ALLOT"} : Executes(op) =>
        /\ 0 \in Nat /\ 1 \in Nat /\ 2 \in Nat
        /\ IsVar(Below(VarDepth[op])) /\ Below(VarDepth[op]) \in Int
        /\ VarDepth[op] = IF op = "!!" THEN 2 ELSE 1
  <2> SUFFICES ASSUME NEW op \in {"!", "!!", "ALLOT"}, Executes(op)
               PROVE  /\ IsVar(Below(VarDepth[op])) /\ Below(VarDepth[op]) \in Int
                      /\ VarDepth[op] = IF op = "!!" THEN 2 ELSE 1
    OBVIOUS
  <2>1. WithinStacks(op) /\ op \in DOMAIN VarDepth /\ VarDepth[op] = IF op = "!!" THEN 2 ELSE 1
    BY Executing DEF VarDepth
  <2>2. VarDepth[op] \in Nat /\ VarDepth[op] < Len(d_stack)
    BY <2>1, Executing DEF WithinStacks, Operands
  <2> QED  BY <2>1, <2>2, DataStack DEF WithinStacks, Dereferences
<1>5. CASE Executes("!") /\ vartable' = Stored(Below(1), Below(0))
  <2>1. IsVar(Below(1)) /\ Below(1) \in Int
    BY <1>4, <1>5
  <2>2. [Var(Below(1)) EXCEPT !.l = Below(0)].name = Var(Below(1)).name
    BY <1>3, <2>1 DEF Entries
  <2>3. vartable' = [vartable EXCEPT ![Idx(Below(1))] = [Var(Below(1)) EXCEPT !.l = Below(0)]]
    BY <1>5 DEF Stored, Var
  <2> QED  BY <1>2, <2>1, <2>2, <2>3
<1>6. CASE Executes("!!") /\ vartable' = StoredAt(Below(2), Below(1), Below(0))
  <2>1. IsVar(Below(2)) /\ Below(2) \in Int
    BY <1>4, <1>6
  <2>2. CASE OutOfRange(Below(2), Below(1))
    BY <1>1, <1>6, <2>2 DEF StoredAt, SameNames
  <2>3. CASE ~OutOfRange(Below(2), Below(1))
    <3> DEFINE e == [Var(Below(2)) EXCEPT !.lp = [Var(Below(2)).lp EXCEPT ![Below(1)] = Below(0)]]
    <3>1. e.name = Var(Below(2)).name
      BY <1>3, <2>1 DEF Entries
    <3>2. vartable' = [vartable EXCEPT ![Idx(Below(2))] = e]
      BY <1>6, <2>3 DEF StoredAt, Var
    <3> QED  BY <1>2, <2>1, <3>1, <3>2
  <2> QED  BY <2>2, <2>3
<1>7. CASE Executes("ALLOT") /\ vartable' = Allotted(Below(1), Below(0))
  <2> DEFINE v == Var(Below(1))
             e == [v EXCEPT !.l = Below(0), !.lp = [i \in Block(Below(0), v.sz) |-> 0]]
  <2>1. IsVar(Below(1)) /\ Below(1) \in Int
    BY <1>4, <1>7
  <2>2. e.name = v.name
    BY <1>3, <2>1 DEF Entries
  <2>3. vartable' = [vartable EXCEPT ![Idx(Below(1))] = e]
    BY <1>7 DEF Allotted, Var
  <2> QED  BY <1>2, <2>1, <2>2, <2>3
<1> QED  BY <1>5, <1>6, <1>7 DEF d_variable_store

(* What a step does to the names: nothing, a variable or a definition.     *)
LEMMA NameSteps ==
  ASSUME TypeInv, [Next]_vars
  PROVE  \/ dict' = dict /\ SameNames
         \/ \E name \in Words : dict' = dict /\ variable_add(name)
         \/ /\ vartable' = vartable
            /\ \E name, p : dict_add_entry(name, p)
<1>1. vartable' = vartable => SameNames
  BY DEF SameNames
<1>2. CASE UNCHANGED vars
  BY <1>1, <1>2 DEF vars, compilerVars
<1>3. CASE parse
  BY <1>1, <1>3 DEF parse, names
<1>4. CASE Start
  BY <1>1, <1>4 DEF Start, run_task, compilerVars
<1>5. CASE Run
  <2>1. Execute /\ dict' = dict
    BY <1>5 DEF Run, compilerVars
  <2>2. vartable' = vartable \/ d_variable_store
    BY <2>1 DEF Execute, cb_ef_number, ef_primitive, d_string_exec, ef_do, ef_i_cb, ef_loop_end,
         ef_begin, ef_again, ef_until, ef_if, ef_else, ef_then, ef_exit, ef_dict_entry, ef_defer,
         ef_exec, Return, Finish, Fetch, Overrun, Jump
  <2> QED  BY <1>1, <2>1, <2>2, StoresKeepNames
<1>6. CASE Compile
  <2>1. CASE parse_variable_name
    BY <1>1, <2>1, WordReadyIsWord DEF parse_variable_name
  <2>2. CASE parse_colon_name
    BY <1>1, <2>2 DEF parse_colon_name, Crash, compilerVars
  <2>3. CASE ~parse_variable_name /\ ~parse_colon_name
    <3>1. dict' = dict /\ vartable' = vartable
      BY <1>6, <2>3 DEF Compile, ParseWord, if_create, else_create, then_create, do_create,
           loop_create, begin_create, again_create, until_create, BackTo, exit_create, parse_colon,
           semicolon, parse_variable, parse_string, parse_string_expecting_quote, comment,
           parse_mark, skip_word, program_add, null_PROG, settled, names, Crash, compilerVars
    <3> QED  BY <1>1, <3>1
  <2> QED  BY <2>1, <2>2, <2>3
<1> QED  BY <1>2, <1>3, <1>4, <1>5, <1>6 DEF Next

LEMMA NamesStay ==
  ASSUME TypeInv, TypeInv', NamesInv, [Next]_vars
  PROVE  /\ NamesInv'
         /\ \A w \in Words : Known(w) /\ smtok_compile_word(w)' # smtok_compile_word(w) =>
              /\ ~IsVariable(w) /\ IsVariable(w)'
              /\ vartable'[Len(vartable')].name = w
<1>1. vartable \in Seq(Entries) /\ vartable' \in Seq(Entries) /\ TableInv
  BY DEF TypeInv, TableInv
<1>2. CASE dict' = dict /\ SameNames
  <2>1. /\ NamesInv' /\ \A w : IsVariable(w)' <=> IsVariable(w)
        /\ \A w : IsVariable(w) => variable_lookup(w)' = variable_lookup(w)
    BY <1>1, <1>2, SameNamesStay
  <2>2. ASSUME NEW w PROVE smtok_compile_word(w)' = smtok_compile_word(w)
    BY <1>2, <2>1 DEF smtok_compile_word, var_p
  <2> QED  BY <2>1, <2>2
<1>3. ASSUME NEW name \in Words, dict' = dict, variable_add(name), ~IsVariable(name)
      PROVE  /\ NamesInv'
             /\ \A w \in Words : Known(w) /\ smtok_compile_word(w)' # smtok_compile_word(w) =>
                  /\ ~IsVariable(w) /\ IsVariable(w)'
                  /\ vartable'[Len(vartable')].name = w
  <2>1. /\ NamesInv'
        /\ IsVariable(name)' /\ vartable'[Len(vartable')].name = name
        /\ \A w : w # name => (IsVariable(w)' <=> IsVariable(w))
        /\ \A w : IsVariable(w) => IsVariable(w)' /\ variable_lookup(w)' = variable_lookup(w)
    BY <1>1, <1>3, AddedName
  <2>2. ASSUME NEW w, w # name PROVE smtok_compile_word(w)' = smtok_compile_word(w)
    BY <1>3, <2>1, <2>2 DEF smtok_compile_word, var_p
  <2> QED  BY <1>3, <2>1, <2>2
<1>4. ASSUME NEW name, NEW p, vartable' = vartable, dict_add_entry(name, p)
      PROVE  /\ NamesInv'
             /\ \A w \in Words : Known(w) => smtok_compile_word(w)' = smtok_compile_word(w)
  <2>1. \A w : (IsVariable(w)' <=> IsVariable(w)) /\ variable_lookup(w)' = variable_lookup(w)
    BY <1>4 DEF IsVariable, variable_lookup
  <2>2. \A w \in DOMAIN dict : w \in DOMAIN dict' /\ dict'[w] = dict[w]
    BY <1>4 DEF dict_add_entry
  <2>3. ASSUME NEW w \in Words, Known(w) PROVE smtok_compile_word(w)' = smtok_compile_word(w)
    BY <2>1, <2>2, <2>3 DEF smtok_compile_word, Known, var_p
  <2> QED  BY <1>4, <2>3 DEF NamesInv
<1> QED
  <2>1. CASE \E name \in Words : dict' = dict /\ variable_add(name)
    <3>1. PICK name \in Words : dict' = dict /\ variable_add(name)
      BY <2>1
    <3>2. CASE IsVariable(name)
      BY <1>2, <3>1, <3>2 DEF variable_add, SameNames
    <3>3. CASE ~IsVariable(name)
      BY <1>3, <3>1, <3>3
    <3> QED  BY <3>2, <3>3
  <2> QED  BY <1>2, <1>4, <2>1, NameSteps

(* No name has two variables, whatever is typed.                           *)
THEOREM NamesAreUnique == Spec => []NamesInv
<1>1. Init => NamesInv
  BY DEF Init, CompilerInit, NamesInv
<1>2. TypeInv /\ TypeInv' /\ NamesInv /\ [Next]_vars => NamesInv'
  BY NamesStay
<1> QED  BY <1>1, <1>2, Inductive, PTL DEF Spec

(* A word goes on standing for what it stands for, in every session, until *)
(* a VARIABLE of its name is made: neither a second definition nor a       *)
(* definition named like a builtin takes over.                             *)
THEOREM MeaningsStay == Spec => NamesKeepTheirMeaning
<1>1. TypeInv /\ TypeInv' /\ NamesInv /\ [Next]_vars =>
        [\A w \in Words : Known(w) /\ smtok_compile_word(w)' # smtok_compile_word(w) =>
           /\ ~IsVariable(w) /\ IsVariable(w)'
           /\ vartable'[Len(vartable')].name = w]_vars
  BY NamesStay
<1> QED  BY <1>1, Inductive, NamesAreUnique, PTL DEF Spec, NamesKeepTheirMeaning
-----------------------------------------------------------------------------
(***************************************************************************)
(* Programs.  A program is open while words may still be compiled into it. *)
(***************************************************************************)
Open(p) == p = current_PROG \/ \E k \in DOMAIN program_stack : program_stack[k] = p

(* What a step does to the heap: nothing, a new program, a token at the    *)
(* end of the current one, or THEN.                                        *)
LEMMA HeapSteps ==
  ASSUME TypeInv, [Next]_vars
  PROVE  \/ heap' = heap
         \/ \E place : program_create(place)
         \/ Compile /\ current_PROG \in Programs /\ \E tok : Emit(tok)
         \/ /\ then_create /\ Completable /\ current_PROG \in Programs
            /\ UNCHANGED <<taskVars, session>>
<1>1. CASE UNCHANGED vars
  BY <1>1 DEF vars, heapVars
<1>2. CASE parse
  BY <1>2 DEF parse
<1>3. CASE Start
  BY <1>3 DEF Start, run_task, heapVars
<1>4. CASE Run
  BY <1>4 DEF Run, Execute, cb_ef_number, ef_primitive, d_variable_store, d_string_exec, ef_do,
       ef_i_cb, ef_loop_end, ef_begin, ef_again, ef_until, ef_if, ef_else, ef_then, ef_exit,
       ef_dict_entry, ef_defer, ef_exec, Return, Finish, Fetch, Overrun, Jump, Goto, heapVars
<1>5. CASE Compile
  <2>1. CASE then_create
    <3>1. current_PROG \in Programs
      BY <2>1, CompilingIntoProgram DEF then_create
    <3> QED  BY <1>5, <2>1, <3>1 DEF then_create, Crash, heapVars, Compile
  <2>2. CASE parse_colon_name
    BY <2>2 DEF parse_colon_name, Crash, heapVars
  <2>3. CASE ~then_create /\ ~parse_colon_name
    <3>1. heap' = heap \/ \E tok : Emit(tok)
      BY <1>5, <2>3 DEF Compile, ParseWord, if_create, else_create, do_create,
           loop_create, begin_create, again_create, until_create, BackTo, exit_create, parse_colon,
           semicolon, parse_variable, parse_variable_name, parse_string,
           parse_string_expecting_quote, comment,
           parse_mark, skip_word, program_add, null_PROG, settled, Crash, heapVars
    <3>2. heap' = heap \/ current_PROG \in Programs
      <4>1. status = "parse"
        BY <1>5 DEF Compile, ParseWord, if_create, else_create, then_create, do_create,
           loop_create, begin_create, again_create, until_create, BackTo, exit_create, parse_colon,
           parse_colon_name, semicolon, parse_variable, parse_variable_name, parse_string,
           parse_string_expecting_quote, comment,
           parse_mark, skip_word, program_add, null_PROG, Compiling, Parsing, Given
      <4>2. heap' = heap \/ current_PROG # NoProgram
        BY <1>5, <2>3 DEF Compile, ParseWord, if_create, else_create, do_create,
           loop_create, begin_create, again_create, until_create, BackTo, exit_create, parse_colon,
           semicolon, parse_variable, parse_variable_name, parse_string,
           parse_string_expecting_quote, comment, Compiling,
           parse_mark, skip_word, program_add, null_PROG, settled, Crash, heapVars
      <4> QED  BY <4>1, <4>2 DEF TypeInv, ReaderInv, Interruptible
    <3> QED  BY <1>5, <3>1, <3>2
  <2> QED  BY <2>1, <2>2, <2>3
<1> QED  BY <1>1, <1>2, <1>3, <1>4, <1>5 DEF Next

(* Of a program that is not open, no token but the open IF can change.     *)
LEMMA ClosedStep ==
  ASSUME TypeInv, [Next]_vars, NEW p \in Programs, ~Open(p)
  PROVE  /\ heap'[p] \in Seq(Tokens)
         /\ Len(heap'[p]) = Len(heap[p])
         /\ \A i \in 1 .. Len(heap[p]) :
              heap'[p][i] = heap[p][i] \/ (current_IF \notin Nowhere /\ <<p, i>> = <<current_IF[1], current_IF[2]>>)
<1>0. HeapInv /\ OpenInv /\ heap[p] \in Seq(Tokens) /\ DOMAIN heap = 1 .. Len(heap) /\ p # current_PROG
  BY HeapFacts DEF TypeInv, Open
<1>1. CASE heap'[p] = heap[p]
  BY <1>0, <1>1
<1>2. CASE heap' = heap
  BY <1>1, <1>2
<1>3. ASSUME NEW place, program_create(place) PROVE heap'[p] = heap[p]
  BY <1>0, <1>3, CreateStep
<1>4. ASSUME NEW tok, Emit(tok) PROVE heap'[p] = heap[p]
  BY <1>0, <1>4 DEF Emit, program_add_smtok, Programs
<1>5. CASE then_create /\ Completable /\ current_PROG \in Programs
  <2> DEFINE v == npcp_array - heap[current_IF[1]][current_IF[2]].val
             tok == smtok("THEN", npcp_array)
  <2>1. /\ heap' = program_add_smtok(Patched(v), current_PROG, tok) /\ UNCHANGED <<base, strings>>
    BY <1>5 DEF then_create, Patched, settled
  <2>2. current_IF \notin Nowhere /\ npcp_array \in Nat
    BY <1>0, <1>5, HeapFacts DEF Completable, Nowhere, npcp_array
  <2>3. v \in Int
    BY <1>0, <2>2, HeapFacts DEF OpenInv, JumpIn, PointerIn, Programs
  <2>4. tok \in Tokens /\ tok.op = "THEN"
    BY <2>2, SmtokType DEF Ops
  <2> HIDE DEF v, tok
  <2>5. /\ HeapInv' /\ Len(heap') = Len(heap)
        /\ Len(heap'[p]) = Len(heap[p])
        /\ \A i \in 1 .. Len(heap[p]) :
              heap'[p][i] = IF <<p, i>> = <<current_IF[1], current_IF[2]>>
                            THEN [heap[p][i] EXCEPT !.val = v] ELSE heap[p][i]
    BY <1>0, <1>5, <2>1, <2>2, <2>3, <2>4, PatchStep
  <2>6. p \in 1 .. Len(heap') /\ heap' \in Seq(Seq(Tokens))
    BY <2>5 DEF HeapInv, Programs
  <2>7. heap'[p] \in Seq(Tokens)
    BY <2>6, ElementOfSeq
  <2> QED  BY <2>2, <2>5, <2>7
<1> QED  BY <1>1, <1>2, <1>3, <1>4, <1>5, HeapSteps

(* THEN writes through current_IF, and nothing else writes into a program  *)
(* but at its end: of a program that has run, or whose definition is       *)
(* closed, at most the one IF that current_IF still points to can change.  *)
THEOREM OnlyOpenIfChanges ==
  Spec => [][\A p \in Programs : ~Open(p) =>
               /\ Len(heap'[p]) = Len(heap[p])
               /\ \A i \in 1 .. Len(heap[p]) :
                    heap'[p][i] = heap[p][i] \/ (p = current_IF[1] /\ i = current_IF[2])]_vars
<1>1. TypeInv /\ [Next]_vars =>
        [\A p \in Programs : ~Open(p) =>
               /\ Len(heap'[p]) = Len(heap[p])
               /\ \A i \in 1 .. Len(heap[p]) :
                    heap'[p][i] = heap[p][i] \/ (p = current_IF[1] /\ i = current_IF[2])]_vars
  BY ClosedStep
<1> QED  BY <1>1, Inductive, PTL DEF Spec

(* So the closed programs of a session stay as they are, unless THEN meets *)
(* an IF that an earlier line left open in one of them.                    *)
IfIsOpen == Parsing("THEN") /\ current_IF \notin Nowhere => Open(current_IF[1])

THEOREM ClosedStay == Spec /\ []IfIsOpen => ClosedProgramsStay
<1>1. ASSUME TypeInv, IfIsOpen, [Next]_vars, NEW p \in Programs, ~Open(p)
      PROVE  heap'[p] = heap[p]
  <2>1. HeapInv /\ heap[p] \in Seq(Tokens) /\ p # current_PROG
    BY <1>1, HeapFacts DEF TypeInv, Open
  <2>2. CASE heap' = heap \/ \E place : program_create(place)
    BY <1>1, <2>1, <2>2, CreateStep
  <2>3. ASSUME NEW tok, Emit(tok) PROVE heap'[p] = heap[p]
    BY <1>1, <2>1, <2>3 DEF Emit, program_add_smtok, Programs
  <2>4. CASE then_create /\ Completable
    <3>1. Parsing("THEN") /\ current_IF \notin Nowhere
      BY <2>4 DEF then_create, Compiling, Completable, Nowhere
    <3>2. p # current_IF[1]
      BY <1>1, <3>1 DEF IfIsOpen
    <3>3. /\ heap'[p] \in Seq(Tokens) /\ Len(heap'[p]) = Len(heap[p])
          /\ \A i \in 1 .. Len(heap[p]) : heap'[p][i] = heap[p][i]
      BY <1>1, <3>2, ClosedStep
    <3> QED  BY <2>1, <3>3, SeqEqual
  <2> QED  BY <1>1, <2>2, <2>3, <2>4, HeapSteps
<1>2. TypeInv /\ IfIsOpen /\ [Next]_vars =>
        [\A p \in Programs :
           p # current_PROG /\ (\A k \in DOMAIN program_stack : program_stack[k] # p)
             => heap'[p] = heap[p]]_vars
  BY <1>1 DEF Open
<1> QED  BY <1>2, Inductive, PTL DEF Spec, ClosedProgramsStay
-----------------------------------------------------------------------------
(***************************************************************************)
(* Conditionals.  The last bracket of a program is one of IF, ELSE and     *)
(* THEN with no other behind it; a program ends open when that is no THEN. *)
(***************************************************************************)
LastBracket(p, i) ==
  /\ i \in 1 .. Len(heap[p])
  /\ heap[p][i].op \in Bracket
  /\ \A j \in 1 .. Len(heap[p]) : j > i => heap[p][j].op \notin Bracket
EndsOpen(p) == \E i \in 1 .. Len(heap[p]) : LastBracket(p, i) /\ heap[p][i].op \in Jumping

(* A definition is begun outside a conditional: one begun inside may take  *)
(* current_IF with it, and the THEN behind its ";" completes that.         *)
DefinesOutsideIf ==
  \A k \in DOMAIN program_stack : program_stack[k] # NoProgram => ~EndsOpen(program_stack[k])

Landed ==
  \A p \in Programs : \A i, j \in 1 .. Len(heap[p]) :
    /\ heap[p][i].op \in Jumping
    /\ heap[p][j].op = "THEN"
    /\ Closes(p, i, j)
    => heap[p][i].val = j - i

(* current_IF is the last bracket of its program and still keeps its own   *)
(* offset; and an open end of the current program is current_IF.           *)
IfKeepsOffset ==
  current_IF \notin Nowhere =>
    /\ LastBracket(current_IF[1], current_IF[2])
    /\ Deref(current_IF).val = current_IF[2] - 1
OpenEndIsIf ==
  status = "parse" /\ current_PROG # NoProgram =>
    \A i \in 1 .. Len(heap[current_PROG]) :
      LastBracket(current_PROG, i) /\ heap[current_PROG][i].op \in Jumping =>
        current_IF \in Nowhere \/ <<current_IF[1], current_IF[2]>> = <<current_PROG, i>>
JumpInv == Landed /\ IfKeepsOffset /\ OpenEndIsIf

(* The heap after a token is added: what there was, but for the val of one *)
(* token, and the new one.                                                 *)
Grew(tok) ==
  /\ Programs' = Programs /\ current_PROG \in Programs
  /\ \A p \in Programs :
       /\ Len(heap[p]) \in Nat
       /\ Len(heap'[p]) = IF p = current_PROG THEN Len(heap[p]) + 1 ELSE Len(heap[p])
       /\ \A i \in 1 .. Len(heap[p]) : heap'[p][i].op = heap[p][i].op
  /\ heap'[current_PROG][Len(heap[current_PROG]) + 1] = tok

LEMMA EmitGrows ==
  ASSUME HeapInv, current_PROG \in Programs, NEW tok, Emit(tok)
  PROVE  Grew(tok) /\ \A p \in Programs : \A i \in 1 .. Len(heap[p]) : heap'[p][i] = heap[p][i]
<1>1. /\ DOMAIN heap = 1 .. Len(heap) /\ Len(heap) \in Nat
      /\ \A p \in Programs : heap[p] \in Seq(Tokens) /\ Len(heap[p]) \in Nat
  BY HeapFacts
<1> DEFINE new == Append(heap[current_PROG], tok)
<1>2. /\ heap' = [heap EXCEPT ![current_PROG] = new]
      /\ Len(new) = Len(heap[current_PROG]) + 1
      /\ \A i \in 1 .. Len(heap[current_PROG]) : new[i] = heap[current_PROG][i]
      /\ new[Len(heap[current_PROG]) + 1] = tok
  BY <1>1 DEF Emit, program_add_smtok
<1> HIDE DEF new
<1>3. \A p \in Programs : heap'[p] = IF p = current_PROG THEN new ELSE heap[p]
  BY <1>1, <1>2 DEF Programs
<1>4. Programs' = Programs
  <2>1. heap \in Seq(Seq(Tokens))
    BY DEF HeapInv
  <2>2. Len(heap') = Len(heap)
    BY <1>2, <2>1
  <2> QED  BY <2>2 DEF Programs
<1> QED  BY <1>1, <1>2, <1>3, <1>4 DEF Grew

(* The brackets of before are the brackets there are, but for the new one. *)
LEMMA OldBrackets ==
  ASSUME NEW tok, Grew(tok), NEW p \in Programs
  PROVE  /\ \A i, j \in 1 .. Len(heap[p]) : Closes(p, i, j)' <=> Closes(p, i, j)
         /\ p # current_PROG \/ tok.op \notin Bracket =>
              \A i : LastBracket(p, i)' <=> LastBracket(p, i)
         /\ p = current_PROG /\ tok.op \in Bracket =>
              \A i : LastBracket(p, i)' <=> i = Len(heap[p]) + 1
         /\ p = current_PROG =>
              \A i \in 1 .. Len(heap[p]) : \A j :
                j = Len(heap[p]) + 1 /\ Closes(p, i, j)' /\ heap[p][i].op \in Jumping =>
                  LastBracket(p, i)
<1> DEFINE N == Len(heap[p])
           M == Len(heap'[p])
           B(i) == heap[p][i].op \in Bracket
           C(i) == heap'[p][i].op \in Bracket
<1>1. /\ N \in Nat /\ M = IF p = current_PROG THEN N + 1 ELSE N
      /\ \A i \in 1 .. N : B(i) <=> C(i)
      /\ p = current_PROG => (C(N + 1) <=> tok.op \in Bracket)
      /\ \A i \in 1 .. N : heap[p][i].op \in Jumping => B(i)
  BY DEF Grew, Jumping, Bracket
<1>2. \A i, j : Closes(p, i, j) <=> i < j /\ B(j) /\ \A k \in (i + 1) .. (j - 1) : ~B(k)
  BY DEF Closes
<1>3. \A i, j : Closes(p, i, j)' <=> i < j /\ C(j) /\ \A k \in (i + 1) .. (j - 1) : ~C(k)
  BY DEF Closes
<1>4. \A i : LastBracket(p, i) <=> i \in 1 .. N /\ B(i) /\ \A j \in 1 .. N : j > i => ~B(j)
  BY DEF LastBracket
<1>5. \A i : LastBracket(p, i)' <=> i \in 1 .. M /\ C(i) /\ \A j \in 1 .. M : j > i => ~C(j)
  BY DEF LastBracket
<1> HIDE DEF N, M, B, C
<1>6. \A i, j \in 1 .. N : Closes(p, i, j)' <=> Closes(p, i, j)
  BY <1>1, <1>2, <1>3
<1>7. CASE p # current_PROG
  BY <1>1, <1>4, <1>5, <1>6, <1>7 DEF N
<1>8. CASE p = current_PROG /\ tok.op \notin Bracket
  <2>1. \A i : LastBracket(p, i)' <=> LastBracket(p, i)
    BY <1>1, <1>4, <1>5, <1>8
  <2>2. \A i \in 1 .. N : \A j : j = N + 1 => ~Closes(p, i, j)'
    BY <1>1, <1>3, <1>8
  <2> QED  BY <1>6, <1>8, <2>1, <2>2 DEF N
<1>9. CASE p = current_PROG /\ tok.op \in Bracket
  <2>1. \A i : LastBracket(p, i)' <=> i = N + 1
    BY <1>1, <1>5, <1>9
  <2>2. ASSUME NEW i \in 1 .. N, NEW j, j = N + 1, Closes(p, i, j)', heap[p][i].op \in Jumping
        PROVE  LastBracket(p, i)
    BY <1>1, <1>3, <1>4, <2>2
  <2> QED  BY <1>6, <1>9, <2>1, <2>2 DEF N
<1> QED  BY <1>7, <1>8, <1>9

(* A word that adds no bracket changes none of this.                       *)
LEMMA JumpsKept ==
  ASSUME TypeInv, JumpInv, current_IF' = current_IF, current_PROG' = current_PROG,
         status = "parse" \/ status' # "parse",
         heap' = heap \/ \E tok : Emit(tok) /\ tok.op \notin Bracket /\ status = "parse"
                                 /\ current_PROG # NoProgram
  PROVE  JumpInv'
<1>0. HeapInv /\ OpenInv
  BY DEF TypeInv
<1>1. CASE heap' = heap
  <2>1. Landed' /\ IfKeepsOffset'
    BY <1>1 DEF JumpInv, Landed, IfKeepsOffset, LastBracket, Closes, Deref, Programs
  <2>2. OpenEndIsIf'
    BY <1>1 DEF JumpInv, OpenEndIsIf, LastBracket
  <2> QED  BY <2>1, <2>2 DEF JumpInv
<1>2. ASSUME NEW tok, Emit(tok), tok.op \notin Bracket, status = "parse", current_PROG # NoProgram
      PROVE  JumpInv'
  <2>1. current_PROG \in Programs
    BY <1>2 DEF TypeInv, ReaderInv, Interruptible
  <2>2. Grew(tok) /\ \A p \in Programs : \A i \in 1 .. Len(heap[p]) : heap'[p][i] = heap[p][i]
    BY <1>0, <1>2, <2>1, EmitGrows
  <2>3. /\ Programs' = Programs
        /\ \A p \in Programs : \A i \in 1 .. Len(heap'[p]) :
             heap'[p][i].op \in Bracket => i \in 1 .. Len(heap[p]) /\ heap'[p][i] = heap[p][i]
    BY <1>2, <2>2 DEF Grew
  <2>4. Landed'
    <3> SUFFICES ASSUME NEW p \in Programs, NEW i \in 1 .. Len(heap'[p]), NEW j \in 1 .. Len(heap'[p]),
                        heap'[p][i].op \in Jumping, heap'[p][j].op = "THEN", Closes(p, i, j)'
                 PROVE  heap'[p][i].val = j - i
      BY <2>3 DEF Landed
    <3>1. "THEN" \in Bracket /\ Jumping \subseteq Bracket
      BY DEF Bracket, Jumping
    <3>2. /\ i \in 1 .. Len(heap[p]) /\ heap'[p][i] = heap[p][i]
          /\ j \in 1 .. Len(heap[p]) /\ heap'[p][j] = heap[p][j]
      BY <2>3, <3>1
    <3>3. Closes(p, i, j)
      BY <2>2, <3>2, OldBrackets
    <3> QED  BY <3>2, <3>3 DEF JumpInv, Landed
  <2>5. IfKeepsOffset'
    <3> SUFFICES ASSUME current_IF \notin Nowhere
                 PROVE  LastBracket(current_IF[1], current_IF[2])' /\ Deref(current_IF)'.val = current_IF[2] - 1
      BY DEF IfKeepsOffset
    <3>1. current_IF[1] \in Programs /\ current_IF[2] \in 1 .. Len(heap[current_IF[1]])
      BY <1>0 DEF OpenInv, JumpIn, PointerIn, Programs
    <3>2. LastBracket(current_IF[1], current_IF[2]) /\ Deref(current_IF).val = current_IF[2] - 1
      BY DEF JumpInv, IfKeepsOffset
    <3>3. LastBracket(current_IF[1], current_IF[2])'
      BY <1>2, <2>2, <3>1, <3>2, OldBrackets
    <3> QED  BY <2>2, <3>1, <3>2, <3>3 DEF Deref
  <2>6. OpenEndIsIf'
    <3> SUFFICES ASSUME NEW i, LastBracket(current_PROG, i)', heap'[current_PROG][i].op \in Jumping
                 PROVE  current_IF \in Nowhere \/ <<current_IF[1], current_IF[2]>> = <<current_PROG, i>>
      BY DEF OpenEndIsIf
    <3>1. LastBracket(current_PROG, i)
      BY <1>2, <2>1, <2>2, OldBrackets
    <3>2. i \in 1 .. Len(heap[current_PROG]) /\ heap[current_PROG][i].op \in Jumping
      BY <2>1, <2>2, <3>1 DEF LastBracket
    <3> QED  BY <1>2, <3>1, <3>2 DEF JumpInv, OpenEndIsIf
  <2> QED  BY <2>4, <2>5, <2>6 DEF JumpInv
<1> QED  BY <1>1, <1>2

(* IF and ELSE become current_IF.                                          *)
LEMMA IfJumps ==
  ASSUME TypeInv, JumpInv, current_PROG \in Programs, NEW op \in Jumping,
         Emit(smtok(op, npcp_array)), current_IF' = Here, current_PROG' = current_PROG
  PROVE  JumpInv'
<1> DEFINE n == npcp_array
           tok == smtok(op, n)
<1>1. HeapInv /\ n \in Nat /\ n = Len(heap[current_PROG]) /\ tok.op = op /\ tok.val = n /\ op \in Bracket
  BY HeapFacts DEF TypeInv, npcp_array, smtok, Jumping, Bracket
<1>2. Grew(tok) /\ \A p \in Programs : \A i \in 1 .. Len(heap[p]) : heap'[p][i] = heap[p][i]
  BY <1>1, EmitGrows
<1>3. current_IF' = <<current_PROG, n + 1>>
  BY DEF Here
<1> HIDE DEF n, tok
<1>4. \A i : LastBracket(current_PROG, i)' <=> i = n + 1
  BY <1>1, <1>2, OldBrackets
<1>5. heap'[current_PROG][n + 1] = tok
  BY <1>1, <1>2 DEF Grew
<1>6. Landed'
  <2> SUFFICES ASSUME NEW p \in Programs, NEW i \in 1 .. Len(heap'[p]), NEW j \in 1 .. Len(heap'[p]),
                      heap'[p][i].op \in Jumping, heap'[p][j].op = "THEN", Closes(p, i, j)'
               PROVE  heap'[p][i].val = j - i
    BY <1>2 DEF Landed, Grew
  <2>1. j \in 1 .. Len(heap[p])
    BY <1>1, <1>2, <1>5 DEF Grew, Jumping
  <2>2. i < j
    BY DEF Closes
  <2>3. i \in 1 .. Len(heap[p]) /\ Len(heap[p]) \in Nat
    BY <1>2, <2>1, <2>2 DEF Grew
  <2>4. Closes(p, i, j)
    BY <1>2, <2>1, <2>3, OldBrackets
  <2> QED  BY <1>2, <2>1, <2>3, <2>4, SMTT(30) DEF JumpInv, Landed
<1>7. IfKeepsOffset'
  <2>1. current_IF'[1] = current_PROG /\ current_IF'[2] = n + 1
    BY <1>3
  <2> QED  BY <1>1, <1>4, <1>5, <2>1 DEF IfKeepsOffset, Deref
<1>8. OpenEndIsIf'
  BY <1>3, <1>4 DEF OpenEndIsIf
<1> QED  BY <1>6, <1>7, <1>8 DEF JumpInv

(* THEN appends itself and turns the offset that current_IF keeps into the *)
(* distance to itself.                                                     *)
LEMMA ThenGrows ==
  ASSUME TypeInv, then_create, Completable
  PROVE  LET q == current_IF[1]
             k == current_IF[2]
             v == npcp_array - heap[q][k].val
         IN  /\ Grew(smtok("THEN", npcp_array))
             /\ \A p \in Programs : \A i \in 1 .. Len(heap[p]) :
                  heap'[p][i] = IF <<p, i>> = <<q, k>> THEN [heap[p][i] EXCEPT !.val = v] ELSE heap[p][i]
<1> DEFINE n == npcp_array
           q == current_IF[1]
           k == current_IF[2]
           v == n - heap[q][k].val
           tok == smtok("THEN", n)
<1>0. HeapInv /\ OpenInv /\ current_PROG \in Programs
  BY CompilingIntoProgram DEF TypeInv, then_create
<1>1. /\ heap' = program_add_smtok(Patched(v), current_PROG, tok)
      /\ UNCHANGED <<base, strings>>
  BY DEF then_create, Patched, settled
<1>2. current_IF \notin Nowhere /\ n \in Nat /\ n = Len(heap[current_PROG])
  BY <1>0, HeapFacts DEF Completable, Nowhere, npcp_array
<1>3. v \in Int /\ q \in Programs /\ k \in 1 .. Len(heap[q])
  BY <1>0, <1>2, HeapFacts DEF OpenInv, JumpIn, PointerIn, Programs
<1>4. tok \in Tokens /\ tok.op = "THEN"
  BY <1>2, SmtokType DEF Ops
<1> HIDE DEF n, q, k, v, tok
<1>5. /\ HeapInv' /\ Len(heap') = Len(heap)
      /\ \A p \in Programs : p # current_PROG => Len(heap'[p]) = Len(heap[p])
      /\ Len(heap'[current_PROG]) = n + 1
      /\ heap'[current_PROG][n + 1] = tok
      /\ \A p \in Programs : \A i \in 1 .. Len(heap[p]) :
           heap'[p][i] = IF <<p, i>> = <<q, k>> THEN [heap[p][i] EXCEPT !.val = v] ELSE heap[p][i]
  BY <1>0, <1>1, <1>2, <1>3, <1>4, PatchStep DEF n, q, k
<1>6. \A p \in Programs : /\ Len(heap[p]) \in Nat
                          /\ \A i \in 1 .. Len(heap[p]) : heap[p][i] \in Tokens
  BY <1>0, HeapFacts
<1>7. \A p \in Programs : \A i \in 1 .. Len(heap[p]) : heap'[p][i].op = heap[p][i].op
  BY <1>5, <1>6 DEF Tokens
<1>8. Grew(tok)
  BY <1>0, <1>2, <1>5, <1>6, <1>7 DEF Grew, Programs
<1> QED  BY <1>5, <1>8 DEF n, q, k, v, tok

LEMMA ThenJumps ==
  ASSUME TypeInv, JumpInv, then_create, Completable
  PROVE  JumpInv'
<1> DEFINE n == npcp_array
           q == current_IF[1]
           k == current_IF[2]
           v == n - heap[q][k].val
           tok == smtok("THEN", n)
<1>0. HeapInv /\ current_PROG \in Programs /\ status = "parse" /\ current_PROG # NoProgram
  BY CompilingIntoProgram DEF TypeInv, then_create, Compiling
<1>1. current_IF' = Wild /\ UNCHANGED current_PROG
  BY DEF then_create, settled, ct_pop
<1>2. current_IF \notin Nowhere /\ n \in Nat /\ n = Len(heap[current_PROG])
  BY <1>0, HeapFacts DEF Completable, Nowhere, npcp_array
<1>5. LastBracket(q, k) /\ v = n - (k - 1)
  BY <1>2 DEF JumpInv, IfKeepsOffset, Deref
<1>6. /\ Grew(tok)
      /\ \A p \in Programs : \A i \in 1 .. Len(heap[p]) :
           heap'[p][i] = IF <<p, i>> = <<q, k>> THEN [heap[p][i] EXCEPT !.val = v] ELSE heap[p][i]
  BY ThenGrows
<1> HIDE DEF n, q, k, v, tok
<1>7. \A p \in Programs : \A i \in 1 .. Len(heap[p]) : heap[p][i] \in Tokens
  BY <1>0, HeapFacts
<1>8. Grew(tok)
  BY <1>6
<1>9. Landed'
  <2> SUFFICES ASSUME NEW p \in Programs, NEW i \in 1 .. Len(heap'[p]), NEW j \in 1 .. Len(heap'[p]),
                      heap'[p][i].op \in Jumping, heap'[p][j].op = "THEN", Closes(p, i, j)'
               PROVE  heap'[p][i].val = j - i
    BY <1>8 DEF Landed, Grew
  <2>1. i < j
    BY DEF Closes
  <2>2. i \in 1 .. Len(heap[p]) /\ Len(heap[p]) \in Nat /\ heap[p][i].op \in Jumping
    BY <1>8, <2>1 DEF Grew
  <2>3. CASE j \in 1 .. Len(heap[p])
    <3>1. Closes(p, i, j) /\ heap[p][j].op = "THEN"
      BY <1>8, <2>2, <2>3, OldBrackets DEF Grew
    <3>2. heap[p][i].val = j - i
      BY <2>2, <2>3, <3>1 DEF JumpInv, Landed
    <3>3. <<p, i>> # <<q, k>>
      BY <1>5, <2>1, <2>3, <3>1 DEF LastBracket, Bracket
    <3> QED  BY <1>6, <2>2, <3>2, <3>3
  <2>4. CASE j \notin 1 .. Len(heap[p])
    <3>1. p = current_PROG /\ j = n + 1 /\ j = Len(heap[p]) + 1
      BY <1>2, <1>8, <2>4 DEF Grew
    <3>2. LastBracket(current_PROG, i)
      BY <1>8, <2>2, <3>1, OldBrackets
    <3>3. <<q, k>> = <<current_PROG, i>>
      BY <1>0, <1>2, <2>2, <3>1, <3>2 DEF JumpInv, OpenEndIsIf, q, k
    <3>4. heap'[p][i] = [heap[p][i] EXCEPT !.val = v] /\ heap[p][i] \in Tokens
      BY <1>6, <1>7, <2>2, <3>1, <3>3
    <3>5. heap'[p][i].val = v
      BY <3>4 DEF Tokens
    <3>6. k = i
      BY <3>3
    <3> QED  BY <1>2, <1>5, <2>2, <3>1, <3>5, <3>6
  <2> QED  BY <2>3, <2>4
<1>10. IfKeepsOffset' /\ OpenEndIsIf'
  BY <1>1 DEF IfKeepsOffset, OpenEndIsIf, Nowhere
<1> QED  BY <1>9, <1>10 DEF JumpInv

(* A new program is empty.                                                 *)
LEMMA CreateJumps ==
  ASSUME TypeInv, JumpInv, NEW place, program_create(place), current_IF' = current_IF,
         current_PROG' = Len(heap) + 1
  PROVE  JumpInv'
<1>1. HeapInv /\ OpenInv /\ Len(heap) \in Nat
  BY HeapFacts DEF TypeInv
<1>2. /\ Len(heap') = Len(heap) + 1
      /\ \A p \in Programs : heap'[p] = heap[p]
      /\ heap'[Len(heap) + 1] = << >>
  BY <1>1, CreateStep
<1>3. Programs' = Programs \cup {Len(heap) + 1} /\ Len(heap'[Len(heap) + 1]) = 0
  BY <1>1, <1>2 DEF Programs
<1>4. \A p \in Programs : /\ \A i, j : Closes(p, i, j)' <=> Closes(p, i, j)
                          /\ \A i : LastBracket(p, i)' <=> LastBracket(p, i)
  BY <1>2 DEF Closes, LastBracket
<1>5. Landed'
  BY <1>2, <1>3, <1>4 DEF JumpInv, Landed
<1>6. IfKeepsOffset'
  <2>1. current_IF \notin Nowhere => current_IF[1] \in Programs
    BY <1>1 DEF OpenInv, JumpIn, PointerIn, Programs
  <2> QED  BY <1>2, <1>4, <2>1 DEF JumpInv, IfKeepsOffset, Deref
<1>7. OpenEndIsIf'
  BY <1>2, <1>3 DEF OpenEndIsIf
<1> QED  BY <1>5, <1>6, <1>7 DEF JumpInv

LEMMA JumpSteps ==
  ASSUME TypeInv, JumpInv, DefinesOutsideIf, [Next]_vars
  PROVE  JumpInv'
<1>1. ASSUME UNCHANGED <<heap, current_IF, current_PROG>>, status = "parse" \/ status' # "parse"
      PROVE  JumpInv'
  BY <1>1, JumpsKept
<1>2. CASE UNCHANGED vars
  BY <1>1, <1>2 DEF vars, heapVars, compilerVars, openVars
<1>3. CASE parse
  BY <1>3, CreateJumps DEF parse, openVars
<1>4. CASE Start
  BY <1>1, <1>4 DEF Start, run_task, heapVars, compilerVars, openVars
<1>5. CASE Run
  <2>1. UNCHANGED <<current_IF, current_PROG>> /\ status = "run"
    BY <1>5 DEF Run, compilerVars, openVars, Execute, cb_ef_number, ef_primitive, d_variable_store,
       d_string_exec, ef_do, ef_i_cb, ef_loop_end, ef_begin, ef_again, ef_until, ef_if, ef_else,
       ef_then, ef_exit, ef_dict_entry, ef_defer, ef_exec, Return, Finish, Fetch, Overrun, Executes,
       Running
  <2>2. heap' = heap
    BY <1>5 DEF Run, Execute, cb_ef_number, ef_primitive, d_variable_store, d_string_exec, ef_do,
       ef_i_cb, ef_loop_end, ef_begin, ef_again, ef_until, ef_if, ef_else, ef_then, ef_exit,
       ef_dict_entry, ef_defer, ef_exec, Return, Finish, Fetch, Overrun, Jump, Goto, heapVars
  <2>3. status' # "parse"
    BY <1>5, <2>1 DEF Run, Execute, cb_ef_number, ef_primitive, d_variable_store, d_string_exec, ef_do,
       ef_i_cb, ef_loop_end, ef_begin, ef_again, ef_until, ef_if, ef_else, ef_then, ef_exit,
       ef_dict_entry, ef_defer, ef_exec, Return, Finish, Fetch, Overrun, LoopsBecome
  <2> QED  BY <1>1, <2>1, <2>2, <2>3
<1>6. CASE Compile
  <2>0. status = "parse"
    BY <1>6 DEF Compile, ParseWord, if_create, else_create, then_create, do_create,
       loop_create, begin_create, again_create, until_create, BackTo, exit_create, parse_colon,
       parse_colon_name, semicolon, parse_variable, parse_variable_name, parse_string,
       parse_string_expecting_quote, comment, parse_mark, skip_word, program_add, null_PROG,
       Compiling, Parsing, Given
  <2>1. ASSUME NEW tok, Emit(tok), tok.op \notin Bracket, UNCHANGED <<current_IF, current_PROG>>,
               current_PROG # NoProgram
        PROVE  JumpInv'
    BY <2>0, <2>1, JumpsKept
  <2>2. CASE if_create \/ else_create
    <3>1. /\ current_IF' = Here /\ current_PROG' = current_PROG /\ current_PROG \in Programs
          /\ Emit(smtok("IF", npcp_array)) \/ Emit(smtok("ELSE", npcp_array))
      BY <2>2, CompilingIntoProgram DEF if_create, else_create, settled
    <3> QED  BY <3>1, IfJumps DEF Jumping
  <2>3. CASE then_create
    <3>1. CASE Completable
      BY <2>3, <3>1, ThenJumps
    <3>2. CASE ~Completable
      BY <1>1, <2>0, <2>3, <3>2 DEF then_create, Crash, heapVars, compilerVars, openVars
    <3> QED  BY <3>1, <3>2
  <2>4. CASE parse_colon_name
    BY <1>1, <2>0, <2>4, CreateJumps DEF parse_colon_name, Crash, heapVars, compilerVars, openVars
  <2>5. CASE semicolon
    <3>1. CASE program_stack # << >> /\ current_PROG' = Top(program_stack)
      <4>1. /\ heap' = heap /\ current_IF' = current_IF
        BY <2>5 DEF semicolon, Crash, heapVars, compilerVars, openVars
      <4>2. Landed' /\ IfKeepsOffset'
        BY <4>1 DEF JumpInv, Landed, IfKeepsOffset, LastBracket, Closes, Deref, Programs
      <4>3. Top(program_stack) # NoProgram => ~EndsOpen(Top(program_stack))
        <5>1. program_stack \in Seq(Interruptible)
          BY DEF TypeInv, ReaderInv
        <5>2. Len(program_stack) \in DOMAIN program_stack
          BY <3>1, <5>1, TopType, LenProperties
        <5> QED  BY <5>2 DEF DefinesOutsideIf, Top
      <4>4. OpenEndIsIf'
        BY <3>1, <4>1, <4>3 DEF OpenEndIsIf, EndsOpen, LastBracket
      <4> QED  BY <4>2, <4>4 DEF JumpInv
    <3>2. CASE current_PROG' = NoProgram
      <4>1. heap' = heap /\ current_IF' = current_IF
        BY <2>5 DEF semicolon, Crash, heapVars, compilerVars, openVars
      <4>2. Landed' /\ IfKeepsOffset'
        BY <4>1 DEF JumpInv, Landed, IfKeepsOffset, LastBracket, Closes, Deref, Programs
      <4> QED  BY <3>2, <4>2 DEF JumpInv, OpenEndIsIf
    <3>3. CASE UNCHANGED <<heap, current_IF, current_PROG>>
      BY <1>1, <2>0, <3>3
    <3>4. \/ program_stack # << >> /\ current_PROG' = Top(program_stack)
          \/ current_PROG' = NoProgram
          \/ UNCHANGED <<heap, current_IF, current_PROG>>
      BY <2>5 DEF semicolon, Crash, heapVars, compilerVars, openVars, Top
    <3> QED  BY <3>1, <3>2, <3>3, <3>4
  <2>6. CASE do_create \/ loop_create \/ begin_create \/ again_create \/ until_create \/ exit_create
    <3>1. CASE Crash
      BY <1>1, <2>0, <3>1 DEF Crash, heapVars, compilerVars, openVars
    <3>2. CASE ~Crash
      <4>1. /\ UNCHANGED <<current_IF, current_PROG>> /\ current_PROG # NoProgram
            /\ \E v : \/ Emit(smtok("DO", v)) \/ Emit(smtok("LOOP", v)) \/ Emit(smtok("BEGIN", v))
                      \/ Emit(smtok("AGAIN", v)) \/ Emit(smtok("UNTIL", v)) \/ Emit(smtok("EXIT", v))
        BY <2>6, <3>2 DEF do_create, loop_create, begin_create, again_create, until_create, BackTo,
           exit_create, Compiling, settled, openVars
      <4> QED  BY <2>1, <4>1 DEF smtok, Bracket
    <3> QED  BY <3>1, <3>2
  <2>7. CASE parse_colon \/ parse_variable \/ parse_variable_name \/ parse_string \/ comment
             \/ parse_mark \/ skip_word
    BY <1>1, <2>0, <2>7 DEF parse_colon, parse_variable, parse_variable_name, parse_string, comment,
       parse_mark, skip_word, settled, heapVars, openVars
  <2>8. CASE parse_string_expecting_quote
    <3>1. /\ UNCHANGED <<current_IF, current_PROG>>
          /\ \/ heap' = heap
             \/ current_PROG # NoProgram /\ Emit(smtok("STR", char_p(Len(strings) + 1)))
      BY <2>8 DEF parse_string_expecting_quote, openVars
    <3>2. smtok("STR", char_p(Len(strings) + 1)).op \notin Bracket
      BY DEF smtok, Bracket
    <3> QED  BY <1>1, <2>0, <2>1, <3>1, <3>2
  <2>9. ASSUME NEW w \in Words \ ControlWords, program_add(w)
        PROVE  JumpInv'
    <3>1. /\ UNCHANGED <<current_IF, current_PROG>>
          /\ heap' = heap \/ (Known(w) /\ current_PROG # NoProgram /\ Emit(smtok_compile_word(w)))
      BY <2>9 DEF program_add, settled, openVars
    <3>2. Known(w) => smtok_compile_word(w).op \notin Bracket
      <4>1. TableInv /\ Len(heap) \in Nat
        BY HeapFacts DEF TypeInv
      <4> QED  BY <2>9, <4>1, CompiledToken DEF Bracket
    <3> QED  BY <1>1, <2>0, <2>1, <3>1, <3>2
  <2>10. CASE null_PROG
    BY <1>1, <2>0, <2>10 DEF null_PROG, Crash, heapVars, compilerVars, openVars
  <2> QED  BY <1>6, <2>2, <2>3, <2>4, <2>5, <2>6, <2>7, <2>8, <2>9, <2>10 DEF Compile, ParseWord
<1> QED  BY <1>2, <1>3, <1>4, <1>5, <1>6 DEF Next

(* THEN completes the jump of its IF or ELSE: for every script in which    *)
(* definitions are begun outside conditionals, every IF without ELSE and   *)
(* every ELSE of every program that runs jumps to the THEN that closes it. *)
THEOREM ConditionalsLand == Spec /\ []DefinesOutsideIf => []JumpsLand
<1>1. Init => JumpInv
  BY DEF Init, CompilerInit, JumpInv, Landed, IfKeepsOffset, OpenEndIsIf, Nowhere, Programs
<1>2. TypeInv /\ JumpInv /\ DefinesOutsideIf /\ [Next]_vars => JumpInv'
  BY JumpSteps
<1>3. TypeInv /\ JumpInv => JumpsLand
  <2> SUFFICES ASSUME TypeInv, Landed PROVE JumpsLand
    BY DEF JumpInv
  <2>1. \A p \in Programs : DOMAIN heap[p] = 1 .. Len(heap[p])
    BY HeapFacts, LenProperties DEF TypeInv
  <2> QED  BY <2>1 DEF Landed, JumpsLand, Jumping
<1> QED  BY <1>1, <1>2, <1>3, Inductive, PTL DEF Spec
=============================================================================
