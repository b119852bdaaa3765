---------------------------- MODULE ForthProofs ----------------------------
(***************************************************************************)
(* Proofs about Forth, for every vocabulary, script, heap layout and size  *)
(* of the stacks: the types, and that task->program is saved exactly once  *)
(* per colon word in progress.                                             *)
(*                                                                         *)
(* The two need each other: prog_pop returns a program because a saved one *)
(* is there, and a count is a count of frames because the tokens that make *)
(* frames carry programs.                                                  *)
(***************************************************************************)
EXTENDS Forth, TLAPS, SequenceTheorems, FiniteSetTheorems, WellFoundedInduction

(* The tokens the compiler makes.                                          *)
Jumping == {"IF", "ELSE"}
Ops == {"IF", "ELSE", "THEN", "DO", "LOOP", "BEGIN", "AGAIN", "UNTIL", "EXIT", "STR", "I",
        "NUM", "DEFER", "EXEC", "VAR", "DICT"} \cup Builtins
Tokens == [op : Ops, val : Int]
Texts == Words \cup {EndQuote[w] : w \in DOMAIN EndQuote}
Blocks == UNION {[S -> Int] : S \in SUBSET Int}
Entries == [name : Words, l : Int, sz : Nat, lp : Blocks]
FrameKinds == {"MAIN", "DICT", "EXEC", "SEXEC"}
Loops == [LoopCells -> Int]
Nowhere == {Null, Wild}

-----------------------------------------------------------------------------
(***************************************************************************)
(* Sequences as stacks.                                                    *)
(***************************************************************************)
LEMMA PoppedProperties ==
  ASSUME NEW S, NEW s \in Seq(S), NEW n \in Nat, n <= Len(s)
  PROVE  /\ Popped(s, n) \in Seq(S)
         /\ Len(Popped(s, n)) = Len(s) - n
         /\ \A i \in 1 .. (Len(s) - n) : Popped(s, n)[i] = s[i]
<1>1. Len(s) \in Nat /\ \A i \in 1 .. (Len(s) - n) : s[i] \in S
  BY LenProperties, ElementOfSeq
<1> QED  BY <1>1, SubSeqProperties DEF Popped

LEMMA TopType ==
  ASSUME NEW S, NEW s \in Seq(S), s # << >>
  PROVE  Len(s) \in Nat \ {0} /\ Top(s) \in S
<1>1. Len(s) \in Nat \ {0}
  BY EmptySeq
<1> QED  BY <1>1, ElementOfSeq DEF Top

(* Replacing the top element of a stack, as a call in progress does.       *)
LEMMA TopReplaced ==
  ASSUME NEW S, NEW s \in Seq(S), s # << >>, NEW e \in S
  PROVE  /\ [s EXCEPT ![Len(s)] = e] \in Seq(S)
         /\ Len([s EXCEPT ![Len(s)] = e]) = Len(s)
         /\ \A i \in 1 .. Len(s) : [s EXCEPT ![Len(s)] = e][i] = IF i = Len(s) THEN e ELSE s[i]
<1>1. Len(s) \in Nat \ {0}
  BY EmptySeq
<1> QED  BY <1>1, ExceptSeq

(***************************************************************************)
(* Words.                                                                  *)
(***************************************************************************)
Source == Seq(Words \cup {NL})

LEMMA LeastOfNaturals ==
  ASSUME NEW T \in SUBSET Nat, T # {}
  PROVE  \E k \in T : \A j \in T : k <= j
<1>1. PICK k \in T : \A j \in T : <<j, k>> \notin OpToRel(<, Nat)
  BY NatLessThanWellFounded, WFMin
<1>2. \A j \in T : ~(j < k)
  BY <1>1 DEF OpToRel
<1> QED  BY <1>2

LEMMA FirstInRange ==
  ASSUME NEW S, NEW source, Len(source) \in Nat, NEW from \in Nat
  PROVE  LET k == FirstIn(S, source, from)
         IN  \/ k = 0 /\ \A i \in from .. Len(source) : source[i] \notin S
             \/ /\ k \in from .. Len(source)
                /\ source[k] \in S
                /\ \A i \in from .. (k - 1) : source[i] \notin S
<1> DEFINE found == {k \in from .. Len(source) : source[k] \in S}
<1>1. CASE found = {}
  BY <1>1 DEF FirstIn
<1>2. CASE found # {}
  <2>0. found \in SUBSET Nat
    OBVIOUS
  <2>1. \E k \in found : \A j \in found : k <= j
    BY <1>2, <2>0, LeastOfNaturals
  <2>2. PICK k : k = FirstIn(S, source, from)
    OBVIOUS
  <2>3. k \in found /\ \A j \in found : k <= j
    BY <1>2, <2>1, <2>2 DEF FirstIn
  <2> QED  BY <2>2, <2>3
<1> QED  BY <1>1, <1>2

(* strtok hands out the source from its first word on.                     *)
LEMMA StrtokType ==
  ASSUME NEW source \in Source
  PROVE  /\ strtok(source) \in Source
         /\ strtok(source) # << >> => Head(strtok(source)) \in Words
<1> DEFINE k == FirstIn(Words, source, 1)
<1>1. Len(source) \in Nat /\ \A i \in 1 .. Len(source) : source[i] \in Words \cup {NL}
  BY LenProperties, ElementOfSeq DEF Source
<1>2. CASE k = 0
  BY <1>2, EmptySeq DEF strtok, Source
<1>3. CASE k # 0
  <2>1. k \in 1 .. Len(source) /\ source[k] \in Words
    BY <1>1, <1>3, FirstInRange
  <2>2. strtok(source) = SubSeq(source, k, Len(source))
    BY <1>3 DEF strtok
  <2> HIDE DEF k
  <2>3. /\ SubSeq(source, k, Len(source)) \in Seq(Words \cup {NL})
        /\ Len(SubSeq(source, k, Len(source))) > 0
        /\ SubSeq(source, k, Len(source))[1] = source[k]
    BY <1>1, <2>1, SubSeqProperties
  <2> QED  BY <2>1, <2>2, <2>3 DEF Source
<1> QED  BY <1>2, <1>3

LEMMA TailStrtokType ==
  ASSUME NEW source \in Source, source # << >>
  PROVE  /\ strtok(Tail(source)) \in Source
         /\ strtok(Tail(source)) # << >> => Head(strtok(Tail(source))) \in Words
<1>1. Tail(source) \in Source
  BY HeadTailProperties DEF Source
<1> QED  BY <1>1, StrtokType

(***************************************************************************)
(* The loop stacks: whatever cell an access reaches, the row of ints stays *)
(* one.                                                                    *)
(***************************************************************************)
LEMMA CellNames ==
  /\ lu_top \in Ints /\ ll_top \in Ints /\ ld_top \in Ints
  /\ Ints \subseteq Int /\ Ints \subseteq LoopCells /\ Stray \in LoopCells
  /\ \A i \in Int : loop_upper(i) \in Int /\ loop_lower(i) \in Int /\ ld(i) \in Int
BY TaskMemoryAssumption
   DEF lu_top, ll_top, ld_top, Ints, LoopCells, Stray, loop_upper, loop_lower, ld

LEMMA GetType == \A m \in Loops, i \in Int : Get(m, i) \in Int
BY DEF Get, InTask, Loops

LEMMA SetType == \A m \in Loops, i \in Int, v \in Int : Set(m, i, v) \in Loops
<1> SUFFICES ASSUME NEW m \in Loops, NEW i \in Int, NEW v \in Int
             PROVE  Set(m, i, v) \in Loops
  OBVIOUS
<1>1. CASE i \in Ints
  BY <1>1, CellNames DEF Set, Loops
<1>2. CASE i \notin Ints
  BY <1>2, CellNames DEF Set, Loops
<1> QED  BY <1>1, <1>2

LEMMA AddType == \A m \in Loops, i \in Int, n \in Int : Add(m, i, n) \in Loops
BY GetType, SetType DEF Add

LEMMA TosType == \A m \in Loops : lu_tos(m) \in Int /\ ll_tos(m) \in Int
BY CellNames DEF lu_tos, ll_tos, Loops

LEMMA PopType == \A m \in Loops, top \in {lu_top, ll_top, ld_top} : Pop(m, top) \in Loops
BY AddType, CellNames DEF Pop

LEMMA PushType ==
  \A m \in Loops, v \in Int :
    lu_push(m, v) \in Loops /\ ll_push(m, v) \in Loops /\ ld_push(m, v) \in Loops
<1> SUFFICES ASSUME NEW m \in Loops, NEW v \in Int
             PROVE  lu_push(m, v) \in Loops /\ ll_push(m, v) \in Loops /\ ld_push(m, v) \in Loops
  OBVIOUS
<1>1. loop_upper(m[lu_top]) \in Int /\ loop_lower(m[ll_top]) \in Int /\ ld(m[lu_top]) \in Int
  BY CellNames DEF Loops
<1>2. lu_push(m, v) \in Loops
  BY <1>1, SetType, AddType, CellNames DEF lu_push
<1>3. ll_push(m, v) \in Loops
  BY <1>1, SetType, AddType, CellNames DEF ll_push
<1>4. ld_push(m, v) \in Loops
  BY <1>1, SetType, AddType, CellNames DEF ld_push
<1> QED  BY <1>2, <1>3, <1>4

LEMMA EnterLoopType ==
  \A m \in Loops, lower \in Int, upper \in Int : EnterLoop(m, lower, upper) \in Loops
BY PushType DEF EnterLoop

LEMMA LeaveLoopType == \A m \in Loops : LeaveLoop(m) \in Loops
<1> SUFFICES ASSUME NEW m \in Loops PROVE LeaveLoop(m) \in Loops
  OBVIOUS
<1> DEFINE m1 == Set(m, ll_tos(m), 0)
           m2 == Set(m1, lu_tos(m1), 0)
<1>1. m1 \in Loops
  BY TosType, SetType
<1>2. m2 \in Loops
  BY <1>1, TosType, SetType
<1>3. ld_pop(lu_pop(ll_pop(m2))) \in Loops
  BY <1>2, PopType DEF ld_pop, lu_pop, ll_pop
<1> QED  BY <1>3 DEF LeaveLoop, Cleared

(***************************************************************************)
(* Colon words in progress.                                                *)
(***************************************************************************)
Frames(P) == [kind : FrameKinds, prog : P, done : BOOLEAN]
DictFrames(f) == {k \in 1 .. Len(f) : f[k].kind = "DICT"}

LEMMA DictFramesFinite ==
  ASSUME NEW P, NEW f \in Seq(Frames(P))
  PROVE  IsFiniteSet(DictFrames(f)) /\ Cardinality(DictFrames(f)) \in Nat
<1>1. Len(f) \in Nat
  BY LenProperties
<1>2. IsFiniteSet(1 .. Len(f))
  BY <1>1, FS_Interval
<1>3. DictFrames(f) \in SUBSET (1 .. Len(f))
  BY DEF DictFrames
<1>4. IsFiniteSet(DictFrames(f))
  BY <1>2, <1>3, FS_Subset
<1> QED  BY <1>4, FS_CardinalityType

(* A call adds one if it is a colon word's.                                *)
LEMMA DictFramesPushed ==
  ASSUME NEW P, NEW f \in Seq(Frames(P)), NEW fr \in Frames(P)
  PROVE  Cardinality(DictFrames(Append(f, fr))) =
           Cardinality(DictFrames(f)) + IF fr.kind = "DICT" THEN 1 ELSE 0
<1> DEFINE g == Append(f, fr)
<1>1. /\ Len(f) \in Nat /\ Len(g) = Len(f) + 1
      /\ \A k \in 1 .. Len(f) : g[k] = f[k]
      /\ g[Len(f) + 1] = fr
  BY AppendProperties, LenProperties
<1>2. CASE fr.kind = "DICT"
  <2>1. DictFrames(g) = DictFrames(f) \cup {Len(f) + 1} /\ Len(f) + 1 \notin DictFrames(f)
    BY <1>1, <1>2 DEF DictFrames
  <2> QED  BY <1>2, <2>1, DictFramesFinite, FS_AddElement
<1>3. CASE fr.kind # "DICT"
  <2>1. DictFrames(g) = DictFrames(f)
    BY <1>1, <1>3 DEF DictFrames
  <2> QED  BY <1>3, <2>1, DictFramesFinite
<1> QED  BY <1>2, <1>3

(* A return takes one away if it is from a colon word.                     *)
LEMMA DictFramesPopped ==
  ASSUME NEW P, NEW f \in Seq(Frames(P)), f # << >>
  PROVE  Cardinality(DictFrames(Popped(f, 1))) =
           Cardinality(DictFrames(f)) - IF Top(f).kind = "DICT" THEN 1 ELSE 0
<1> DEFINE g == Popped(f, 1)
<1>1. Len(f) \in Nat \ {0}
  BY EmptySeq
<1>2. Len(g) = Len(f) - 1 /\ \A k \in 1 .. (Len(f) - 1) : g[k] = f[k]
  BY <1>1, PoppedProperties
<1>3. CASE Top(f).kind = "DICT"
  <2>1. DictFrames(g) = DictFrames(f) \ {Len(f)} /\ Len(f) \in DictFrames(f)
    BY <1>1, <1>2, <1>3 DEF DictFrames, Top
  <2> QED  BY <1>3, <2>1, DictFramesFinite, FS_RemoveElement
<1>4. CASE Top(f).kind # "DICT"
  <2>1. DictFrames(g) = DictFrames(f)
    BY <1>1, <1>2, <1>4 DEF DictFrames, Top
  <2> QED  BY <1>4, <2>1, DictFramesFinite
<1> QED  BY <1>3, <1>4

(* A frame that notes that it has called keeps its kind.                   *)
LEMMA CalledFrames ==
  ASSUME NEW P, frames \in Seq(Frames(P)), frames # << >>
  PROVE  /\ Called \in Seq(Frames(P))
         /\ Len(Called) = Len(frames)
         /\ Called # << >>
         /\ Called[1].kind = frames[1].kind
         /\ DictFrames(Called) = DictFrames(frames)
<1>1. Len(frames) \in Nat \ {0}
  BY EmptySeq
<1>2. frames[Len(frames)] \in Frames(P)
  BY <1>1, ElementOfSeq
<1> DEFINE e == [frames[Len(frames)] EXCEPT !.done = TRUE]
<1>3. e \in Frames(P) /\ e.kind = frames[Len(frames)].kind
  BY <1>2 DEF Frames
<1>4. Called = [frames EXCEPT ![Len(frames)] = e]
  BY DEF Called
<1> HIDE DEF e
<1>5. /\ Called \in Seq(Frames(P))
      /\ Len(Called) = Len(frames)
      /\ \A i \in 1 .. Len(frames) : Called[i] = IF i = Len(frames) THEN e ELSE frames[i]
  BY <1>3, <1>4, TopReplaced
<1>6. \A i \in 1 .. Len(frames) : Called[i].kind = frames[i].kind
  BY <1>3, <1>5
<1>7. Called # << >>
  BY <1>1, <1>5, EmptySeq
<1> QED  BY <1>1, <1>5, <1>6, <1>7 DEF DictFrames
-----------------------------------------------------------------------------
(***************************************************************************)
(* The inductive invariant.                                                *)
(***************************************************************************)
HeapInv ==
  /\ heap \in Seq(Seq(Tokens))
  /\ base \in Seq(Int) /\ Len(base) = Len(heap)
  /\ strings \in Seq(Seq(Texts))
  /\ \A p \in Programs : \A i \in 1 .. Len(heap[p]) :
       heap[p][i].op = "DICT" => heap[p][i].val \in Programs

(* THEN writes through current_IF only: it must not hit a DICT token.      *)
PointerIn(ptr, h) == ptr \in Nowhere \/ (ptr[1] \in 1 .. Len(h) /\ ptr[2] \in 1 .. Len(h[ptr[1]]))
JumpIn(ptr, h) == PointerIn(ptr, h) /\ (ptr \notin Nowhere => h[ptr[1]][ptr[2]].op \in Jumping)
OpenInv == JumpIn(current_IF, heap) /\ PointerIn(current_DO, heap) /\ PointerIn(current_BEGIN, heap)

States == {"EXPECTING_ANY", "COLON_EXPECTING_NAME", "STRING_EXPECTING_QUOTE"}
            \cup {Naming[w] : w \in DOMAIN Naming} \cup {Skipping[m] : m \in DOMAIN Closing}

Interruptible == Programs \cup {NoProgram}

ReaderInv ==
  /\ line \in Source
  /\ line # << >> => Head(line) \in Words
  /\ checks \subseteq AllChecks
  /\ state \in States
  /\ string_buffer \in Seq(Words)
  /\ program_stack \in Seq(Interruptible)
  /\ program_Stack_top \in (-NullsBelow) .. (ProgStack + 1)
  /\ program_Stack_top - Len(program_stack) \in (-NullsBelow) .. 0
  /\ status = "parse" => current_PROG \in Interruptible

TableInv ==
  /\ vartable \in Seq(Entries)
  /\ \A n \in DOMAIN dict : n \in Words /\ dict[n] \in Programs

TaskInv ==
  /\ pcp \in Int
  /\ d_stack \in Seq(Int) /\ Len(d_stack) <= DStack
  /\ r_stack \in Seq(Int) /\ Len(r_stack) <= RStack
  /\ loops \in Loops

(* Nothing is called before run_task and after it; the outermost call is   *)
(* run_task's.                                                             *)
CallInv ==
  /\ status \in {"prompt", "parse", "run"} \cup Dead
  /\ status \in {"prompt", "parse"} => frames = << >>
  /\ status = "run" => frames # << >>
  /\ frames # << >> => frames[1].kind = "MAIN"
  /\ frames \in Seq(Frames(Programs))
  /\ prog_stack \in Seq(Programs) /\ Len(prog_stack) <= PStack
  /\ status \in {"parse", "run"} => program \in Programs
  /\ ProgramsSaved

SessionInv == session \in Seq(Source)

TypeInv ==
  HeapInv /\ OpenInv /\ ReaderInv /\ TableInv /\ TaskInv /\ CallInv /\ SessionInv

LEMMA InvImpliesTypeOK == TypeInv => TypeOK
<1> SUFFICES ASSUME TypeInv PROVE TypeOK
  OBVIOUS
<1>1. \A p \in Programs : heap[p] \in Seq(Tokens)
  BY ElementOfSeq DEF TypeInv, HeapInv, Programs
<1>2. \A p \in Programs : \A i \in 1 .. Len(heap[p]) : heap[p][i].val \in Int
  <2>1. \A p \in Programs : \A i \in 1 .. Len(heap[p]) : heap[p][i] \in Tokens
    BY <1>1, ElementOfSeq
  <2> QED  BY <2>1 DEF Tokens
<1>3. DOMAIN base = Programs
  BY LenProperties DEF TypeInv, HeapInv, Programs
<1>4. line \in Seq(Words \cup {NL}) /\ checks \subseteq AllChecks /\ string_buffer \in Seq(Words)
  BY DEF TypeInv, ReaderInv, Source
<1>5. state \in States
  BY DEF TypeInv, ReaderInv
<1>6. \A k \in DOMAIN vartable : vartable[k].l \in Int
  <2>1. \A k \in DOMAIN vartable : vartable[k] \in Entries
    BY LenProperties, ElementOfSeq DEF TypeInv, TableInv
  <2> QED  BY <2>1 DEF Entries
<1>7. \A n \in DOMAIN dict : n \in Words /\ dict[n] \in Programs
  BY DEF TypeInv, TableInv
<1>8. \A ptr \in {current_IF, current_DO, current_BEGIN} :
        ptr \in {Null, Wild} \/ (ptr[1] \in Programs /\ ptr[2] \in DOMAIN heap[ptr[1]])
  BY <1>1, LenProperties DEF TypeInv, OpenInv, JumpIn, PointerIn, Nowhere, Programs
<1>9. \A k \in 1 .. Len(frames) : frames[k].prog \in Programs
  <2>1. \A k \in 1 .. Len(frames) : frames[k] \in Frames(Programs)
    BY ElementOfSeq DEF TypeInv, CallInv
  <2> QED  BY <2>1 DEF Frames
<1>10. /\ d_stack \in Seq(Int) /\ Len(d_stack) <= DStack
       /\ r_stack \in Seq(Int) /\ Len(r_stack) <= RStack
       /\ loops \in [LoopCells -> Int]
  BY DEF TypeInv, TaskInv, Loops
<1>11. /\ status \in {"prompt", "parse", "run"} \cup Dead
       /\ prog_stack \in Seq(Programs) /\ Len(prog_stack) <= PStack
  BY DEF TypeInv, CallInv
<1>12. /\ program_stack \in Seq(Programs \cup {NoProgram})
       /\ program_Stack_top \in (-NullsBelow) .. (ProgStack + 1)
  BY DEF TypeInv, ReaderInv, Interruptible
<1> QED
  BY <1>2, <1>3, <1>4, <1>5, <1>6, <1>7, <1>8, <1>9, <1>10, <1>11, <1>12 DEF TypeOK, States

LEMMA InitTypes == Init => TypeInv
<1> SUFFICES ASSUME Init PROVE TypeInv
  OBVIOUS
<1> USE DEF Init, CompilerInit, RuntimeInit
<1>1. HeapInv
  BY EmptySeq DEF HeapInv, Programs
<1>2. OpenInv
  BY DEF OpenInv, JumpIn, PointerIn, Nowhere
<1>3. ReaderInv
  BY EmptySeq, CompilerAssumption DEF ReaderInv, Interruptible, Source, States, AllChecks
<1>4. TableInv
  BY EmptySeq DEF TableInv
<1>5. TaskInv
  BY EmptySeq, RuntimeAssumption DEF TaskInv, Loops, ftask_create
<1>6. CallInv
  BY EmptySeq, FS_EmptySet, RuntimeAssumption DEF CallInv, ProgramsSaved, Dead
<1>7. SessionInv
  BY EmptySeq DEF SessionInv
<1> QED  BY <1>1, <1>2, <1>3, <1>4, <1>5, <1>6, <1>7 DEF TypeInv
-----------------------------------------------------------------------------
(***************************************************************************)
(* What the compiler does to the heap.  Programs are only added to, and a  *)
(* token never changes its kind; so pointers remain pointers.              *)
(***************************************************************************)
HeapGrows ==
  /\ Len(heap) <= Len(heap')
  /\ \A p \in Programs :
       /\ Len(heap[p]) <= Len(heap'[p])
       /\ \A i \in 1 .. Len(heap[p]) : heap'[p][i].op = heap[p][i].op

LEMMA HeapFacts ==
  ASSUME HeapInv
  PROVE  /\ Len(heap) \in Nat /\ DOMAIN heap = 1 .. Len(heap)
         /\ \A p \in Programs :
              /\ heap[p] \in Seq(Tokens)
              /\ Len(heap[p]) \in Nat
              /\ base[p] \in Int
              /\ \A i \in 1 .. Len(heap[p]) :
                   /\ heap[p][i] \in Tokens
                   /\ heap[p][i].val \in Int
                   /\ heap[p][i].op = "DICT" => heap[p][i].val \in Programs
<1>1. Len(heap) \in Nat /\ DOMAIN heap = 1 .. Len(heap)
  BY LenProperties DEF HeapInv
<1>2. ASSUME NEW p \in Programs
      PROVE  heap[p] \in Seq(Tokens) /\ Len(heap[p]) \in Nat /\ base[p] \in Int
  BY ElementOfSeq, LenProperties DEF HeapInv, Programs
<1>3. ASSUME NEW p \in Programs, NEW i \in 1 .. Len(heap[p])
      PROVE  heap[p][i] \in Tokens /\ heap[p][i].val \in Int
  <2>1. heap[p][i] \in Tokens
    BY <1>2, ElementOfSeq
  <2> QED  BY <2>1 DEF Tokens
<1> QED  BY <1>1, <1>2, <1>3 DEF HeapInv

LEMMA ProgramReplaced ==
  ASSUME NEW h \in Seq(Seq(Tokens)), NEW p \in 1 .. Len(h), NEW new \in Seq(Tokens)
  PROVE  /\ [h EXCEPT ![p] = new] \in Seq(Seq(Tokens))
         /\ Len([h EXCEPT ![p] = new]) = Len(h)
         /\ \A r \in 1 .. Len(h) : [h EXCEPT ![p] = new][r] = IF r = p THEN new ELSE h[r]
BY ExceptSeq

LEMMA EmitHeap ==
  ASSUME HeapInv, current_PROG \in Programs,
         NEW tok \in Tokens, tok.op = "DICT" => tok.val \in Programs,
         Emit(tok)
  PROVE  /\ heap' \in Seq(Seq(Tokens)) /\ HeapGrows
         /\ Len(heap') = Len(heap)
         /\ \A p \in Programs : p # current_PROG => heap'[p] = heap[p]
         /\ Len(heap'[current_PROG]) = npcp_array + 1
         /\ heap'[current_PROG][npcp_array + 1] = tok
         /\ \A i \in 1 .. npcp_array : heap'[current_PROG][i] = heap[current_PROG][i]
         /\ \A p \in Programs : \A i \in 1 .. Len(heap'[p]) :
              heap'[p][i].op = "DICT" => heap'[p][i].val \in Programs
<1> DEFINE new == Append(heap[current_PROG], tok)
<1>1. /\ new \in Seq(Tokens)
      /\ Len(new) = npcp_array + 1
      /\ \A i \in 1 .. npcp_array : new[i] = heap[current_PROG][i]
      /\ new[npcp_array + 1] = tok
  BY HeapFacts, AppendProperties DEF npcp_array
<1>2. heap' = [heap EXCEPT ![current_PROG] = new]
  BY DEF Emit, program_add_smtok
<1> HIDE DEF new
<1>3. /\ heap' \in Seq(Seq(Tokens)) /\ Len(heap') = Len(heap)
      /\ \A p \in Programs : heap'[p] = IF p = current_PROG THEN new ELSE heap[p]
  <2>1. heap \in Seq(Seq(Tokens)) /\ new \in Seq(Tokens) /\ current_PROG \in 1 .. Len(heap)
    BY <1>1 DEF HeapInv, Programs
  <2> QED  BY <1>2, <2>1, ProgramReplaced DEF Programs
<1>4. npcp_array = Len(heap[current_PROG]) /\ npcp_array \in Nat
  BY HeapFacts DEF npcp_array
<1>5. \A p \in Programs : \A i \in 1 .. Len(heap'[p]) :
        heap'[p][i].op = "DICT" => heap'[p][i].val \in Programs
  <2>1. \A i \in 1 .. Len(new) : new[i].op = "DICT" => new[i].val \in Programs
    BY <1>1, <1>4, HeapFacts, SMTT(30)
  <2> QED  BY <1>3, <2>1, HeapFacts
<1>6. HeapGrows
  <2>1. Len(heap) <= Len(heap')
    BY <1>3, HeapFacts
  <2>2. \A p \in Programs : Len(heap[p]) <= Len(heap'[p])
    BY <1>1, <1>3, <1>4, HeapFacts
  <2>3. \A p \in Programs : \A i \in 1 .. Len(heap[p]) : heap'[p][i] = heap[p][i]
    BY <1>1, <1>3, <1>4
  <2> QED  BY <2>1, <2>2, <2>3 DEF HeapGrows
<1> QED  BY <1>1, <1>3, <1>5, <1>6

LEMMA EmitStep ==
  ASSUME HeapInv, current_PROG \in Programs,
         NEW tok \in Tokens, tok.op = "DICT" => tok.val \in Programs,
         Emit(tok), UNCHANGED <<base, strings>>
  PROVE  /\ HeapInv' /\ HeapGrows
         /\ Len(heap') = Len(heap)
         /\ Len(heap'[current_PROG]) = npcp_array + 1
         /\ heap'[current_PROG][npcp_array + 1] = tok
<1>1. /\ heap' \in Seq(Seq(Tokens)) /\ HeapGrows
      /\ Len(heap') = Len(heap)
      /\ Len(heap'[current_PROG]) = npcp_array + 1
      /\ heap'[current_PROG][npcp_array + 1] = tok
      /\ \A p \in Programs : \A i \in 1 .. Len(heap'[p]) :
           heap'[p][i].op = "DICT" => heap'[p][i].val \in Programs
  BY EmitHeap
<1>2. Programs' = Programs
  BY <1>1 DEF Programs
<1>3. HeapInv'
  BY <1>1, <1>2 DEF HeapInv
<1> QED  BY <1>1, <1>3

LEMMA CreateStep ==
  ASSUME HeapInv, NEW place, program_create(place)
  PROVE  /\ HeapInv' /\ HeapGrows
         /\ Len(heap') = Len(heap) + 1
         /\ \A p \in Programs : heap'[p] = heap[p]
         /\ heap'[Len(heap) + 1] = << >>
         /\ Len(heap) + 1 \in Programs'
<1>1. heap' = Append(heap, << >>) /\ strings' = strings
  BY DEF program_create
<1>2. PICK b \in Int : base' = Append(base, b)
  BY ProgramAssumption, HeapFacts DEF program_create
<1>3. << >> \in Seq(Tokens) /\ Len(heap) \in Nat
  BY HeapFacts, EmptySeq
<1>4. /\ heap' \in Seq(Seq(Tokens)) /\ Len(heap') = Len(heap) + 1
      /\ \A p \in Programs : heap'[p] = heap[p]
      /\ heap'[Len(heap) + 1] = << >>
  BY <1>1, <1>3, AppendProperties DEF HeapInv, Programs
<1>5. base' \in Seq(Int) /\ Len(base') = Len(base) + 1
  BY <1>2, AppendProperties DEF HeapInv
<1>6. Programs' = Programs \cup {Len(heap) + 1}
  BY <1>3, <1>4 DEF Programs
<1>7. Len(<< >>) = 0
  OBVIOUS
<1>8. \A p \in Programs' : \A i \in 1 .. Len(heap'[p]) :
        heap'[p][i].op = "DICT" => heap'[p][i].val \in Programs'
  <2> SUFFICES ASSUME NEW p \in Programs', NEW i \in 1 .. Len(heap'[p]),
                      heap'[p][i].op = "DICT"
               PROVE  heap'[p][i].val \in Programs'
    OBVIOUS
  <2>1. CASE p \in Programs
    <3>1. heap'[p] = heap[p]
      BY <1>4, <2>1
    <3>2. heap[p][i].val \in Programs
      BY <2>1, <3>1, HeapFacts
    <3> QED  BY <1>6, <3>1, <3>2
  <2>2. CASE p = Len(heap) + 1
    BY <1>4, <1>7, <2>2
  <2> QED  BY <1>6, <2>1, <2>2
<1>9. HeapInv'
  BY <1>1, <1>4, <1>5, <1>8 DEF HeapInv
<1>10. HeapGrows
  BY <1>3, <1>4, HeapFacts DEF HeapGrows
<1> QED  BY <1>4, <1>6, <1>9, <1>10

(* THEN writes the jump and appends itself.                                *)
Patched(v) == [heap EXCEPT ![current_IF[1]][current_IF[2]].val = v]

LEMMA PatchStep ==
  ASSUME HeapInv, OpenInv, current_PROG \in Programs, current_IF \notin Nowhere,
         NEW v \in Int, NEW tok \in Tokens, tok.op = "THEN",
         heap' = program_add_smtok(Patched(v), current_PROG, tok),
         UNCHANGED <<base, strings>>
  PROVE  /\ HeapInv' /\ HeapGrows
         /\ Len(heap') = Len(heap)
         /\ \A p \in Programs : p # current_PROG => Len(heap'[p]) = Len(heap[p])
         /\ Len(heap'[current_PROG]) = npcp_array + 1
         /\ heap'[current_PROG][npcp_array + 1] = tok
         /\ \A p \in Programs : \A i \in 1 .. Len(heap[p]) :
              heap'[p][i] = IF <<p, i>> = <<current_IF[1], current_IF[2]>>
                            THEN [heap[p][i] EXCEPT !.val = v] ELSE heap[p][i]
<1> DEFINE q == current_IF[1]
           k == current_IF[2]
           old == [heap[q] EXCEPT ![k] = [heap[q][k] EXCEPT !.val = v]]
           mid == [heap EXCEPT ![q] = old]
<1>1. q \in Programs /\ k \in 1 .. Len(heap[q]) /\ heap[q][k].op \in Jumping
  BY DEF OpenInv, JumpIn, PointerIn, Programs
<1>2. [heap[q][k] EXCEPT !.val = v] \in Tokens /\ [heap[q][k] EXCEPT !.val = v].op = heap[q][k].op
  BY <1>1, HeapFacts DEF Tokens
<1>3. /\ old \in Seq(Tokens) /\ Len(old) = Len(heap[q])
      /\ \A i \in 1 .. Len(heap[q]) :
           old[i] = IF i = k THEN [heap[q][k] EXCEPT !.val = v] ELSE heap[q][i]
  BY <1>1, <1>2, HeapFacts, ExceptSeq
<1>4. Patched(v) = mid
  BY DEF Patched
<1>5. /\ mid \in Seq(Seq(Tokens)) /\ Len(mid) = Len(heap)
      /\ \A p \in Programs : mid[p] = IF p = q THEN old ELSE heap[p]
  BY <1>1, <1>3, ExceptSeq, SMTT(30) DEF HeapInv, Programs
<1>6. heap' = [mid EXCEPT ![current_PROG] = Append(mid[current_PROG], tok)]
  BY <1>4 DEF program_add_smtok
<1> HIDE DEF mid, old
<1> DEFINE new == Append(mid[current_PROG], tok)
<1>7. mid[current_PROG] \in Seq(Tokens) /\ Len(mid[current_PROG]) = npcp_array
  BY <1>3, <1>5, HeapFacts DEF npcp_array
<1>8. /\ new \in Seq(Tokens)
      /\ Len(new) = npcp_array + 1
      /\ \A i \in 1 .. npcp_array : new[i] = mid[current_PROG][i]
      /\ new[npcp_array + 1] = tok
  BY <1>7, AppendProperties
<1>9. heap' = [mid EXCEPT ![current_PROG] = new]
  BY <1>6
<1> HIDE DEF new
<1>10. /\ heap' \in Seq(Seq(Tokens)) /\ Len(heap') = Len(heap)
       /\ \A p \in Programs : heap'[p] = IF p = current_PROG THEN new ELSE mid[p]
  BY <1>5, <1>8, <1>9, ProgramReplaced, SMTT(30) DEF Programs
<1>11. Programs' = Programs /\ npcp_array = Len(heap[current_PROG]) /\ npcp_array \in Nat
  BY <1>10, HeapFacts DEF Programs, npcp_array
<1>12. \A p \in Programs : \A i \in 1 .. Len(heap[p]) :
         heap'[p][i] = IF <<p, i>> = <<q, k>> THEN [heap[p][i] EXCEPT !.val = v] ELSE heap[p][i]
  <2> SUFFICES ASSUME NEW p \in Programs, NEW i \in 1 .. Len(heap[p])
               PROVE  heap'[p][i] = IF p = q /\ i = k THEN [heap[p][i] EXCEPT !.val = v]
                                                     ELSE heap[p][i]
    OBVIOUS
  <2>1. mid[p][i] = IF p = q /\ i = k THEN [heap[p][i] EXCEPT !.val = v] ELSE heap[p][i]
    BY <1>3, <1>5
  <2>2. heap'[p][i] = mid[p][i]
    BY <1>8, <1>10, <1>11
  <2> QED  BY <2>1, <2>2
<1>13. \A p \in Programs : Len(heap'[p]) = IF p = current_PROG THEN Len(heap[p]) + 1 ELSE Len(heap[p])
  BY <1>3, <1>5, <1>8, <1>10, <1>11, SMTT(30)
<1>14. heap'[current_PROG][npcp_array + 1] = tok
  BY <1>8, <1>10
<1>15. \A p \in Programs : \A i \in 1 .. Len(heap[p]) : heap'[p][i].op = heap[p][i].op
  <2> SUFFICES ASSUME NEW p \in Programs, NEW i \in 1 .. Len(heap[p])
               PROVE  heap'[p][i].op = heap[p][i].op
    OBVIOUS
  <2>1. CASE <<p, i>> = <<q, k>>
    <3>1. p = q /\ i = k
      BY <2>1
    <3>2. heap'[p][i] = [heap[q][k] EXCEPT !.val = v]
      BY <1>12, <2>1, <3>1
    <3> QED  BY <1>2, <3>1, <3>2
  <2>2. CASE <<p, i>> # <<q, k>>
    BY <1>12, <2>2
  <2> QED  BY <2>1, <2>2
<1>16. \A p \in Programs : \A i \in 1 .. Len(heap'[p]) :
         heap'[p][i].op = "DICT" => heap'[p][i].val \in Programs
  <2> SUFFICES ASSUME NEW p \in Programs, NEW i \in 1 .. Len(heap'[p]), heap'[p][i].op = "DICT"
               PROVE  heap'[p][i].val \in Programs
    OBVIOUS
  <2>1. i \in 1 .. Len(heap[p])
    BY <1>11, <1>13, <1>14, HeapFacts
  <2>2. heap[p][i].op = "DICT"
    BY <1>15, <2>1
  <2>3. <<p, i>> # <<q, k>>
    BY <1>1, <2>2 DEF Jumping
  <2> QED  BY <1>12, <2>1, <2>2, <2>3, HeapFacts
<1>17. HeapInv'
  BY <1>10, <1>11, <1>16 DEF HeapInv
<1>18. HeapGrows
  <2>1. Len(heap) <= Len(heap')
    BY <1>10, HeapFacts
  <2>2. \A p \in Programs : Len(heap[p]) <= Len(heap'[p])
    BY <1>13, HeapFacts
  <2> QED  BY <1>15, <2>1, <2>2 DEF HeapGrows
<1> QED  BY <1>10, <1>11, <1>12, <1>13, <1>14, <1>17, <1>18

LEMMA PointersKept ==
  ASSUME HeapInv, HeapGrows, NEW ptr
  PROVE  /\ PointerIn(ptr, heap) => PointerIn(ptr, heap')
         /\ JumpIn(ptr, heap) => JumpIn(ptr, heap')
<1> SUFFICES ASSUME PointerIn(ptr, heap), ptr \notin Nowhere
             PROVE  /\ ptr[1] \in 1 .. Len(heap')
                    /\ ptr[2] \in 1 .. Len(heap'[ptr[1]])
                    /\ heap'[ptr[1]][ptr[2]].op = heap[ptr[1]][ptr[2]].op
  BY DEF PointerIn, JumpIn
<1> DEFINE q == ptr[1]
           k == ptr[2]
<1>1. q \in 1 .. Len(heap) /\ k \in 1 .. Len(heap[q])
  BY DEF PointerIn
<1> HIDE DEF q, k
<1>2. /\ Len(heap) \in Nat /\ Len(heap[q]) \in Nat
      /\ Len(heap) <= Len(heap') /\ Len(heap[q]) <= Len(heap'[q])
      /\ heap'[q][k].op = heap[q][k].op
  BY <1>1, HeapFacts DEF HeapGrows, Programs
<1>3. q \in 1 .. Len(heap') /\ k \in 1 .. Len(heap'[q])
  BY <1>1, <1>2
<1> QED  BY <1>2, <1>3 DEF q, k

(* The task waits while the compiler works: no call is in progress.        *)
LEMMA NothingSaved ==
  ASSUME TypeInv, status \in {"prompt", "parse"}
  PROVE  frames = << >> /\ prog_stack = << >>
<1>1. frames = << >>
  BY DEF TypeInv, CallInv
<1>2. {k \in 1 .. Len(frames) : frames[k].kind = "DICT"} = {}
  BY <1>1
<1>3. Len(prog_stack) = 0
  BY <1>2, FS_EmptySet DEF TypeInv, CallInv, ProgramsSaved
<1> QED  BY <1>1, <1>3, EmptySeq DEF TypeInv, CallInv

(* What is left to show of a step of the compiler.                         *)
LEMMA CompilerStep ==
  ASSUME TypeInv, status = "parse", status' \in {"parse"} \cup Dead,
         UNCHANGED <<taskVars, session>>,
         HeapInv', Len(heap) <= Len(heap'), OpenInv', ReaderInv', TableInv'
  PROVE  TypeInv'
<1>1. TaskInv'
  BY DEF TypeInv, TaskInv, taskVars
<1>2. SessionInv'
  BY DEF TypeInv, SessionInv
<1>3. frames' = << >> /\ prog_stack' = << >>
  BY NothingSaved DEF taskVars
<1>4. program' \in Programs'
  <2>1. Len(heap) \in Nat
    BY HeapFacts DEF TypeInv
  <2> QED  BY <2>1 DEF TypeInv, CallInv, taskVars, Programs
<1>5. CallInv'
  <2>1. frames' \in Seq(Frames(Programs')) /\ prog_stack' \in Seq(Programs')
    BY <1>3, EmptySeq
  <2>2. ProgramsSaved'
    BY DEF TypeInv, CallInv, ProgramsSaved, taskVars
  <2>3. Len(prog_stack') <= PStack
    BY <1>3, EmptySeq, RuntimeAssumption
  <2> QED  BY <1>3, <1>4, <2>1, <2>2, <2>3 DEF CallInv, Dead
<1> QED  BY <1>1, <1>2, <1>5 DEF TypeInv

LEMMA NextWordReads ==
  ASSUME ReaderInv, line # << >>, NextWord
  PROVE  /\ line' \in Source /\ (line' # << >> => Head(line') \in Words)
         /\ checks' \subseteq AllChecks
         /\ status' = status
BY TailStrtokType DEF ReaderInv, NextWord

LEMMA ProgramsKept ==
  ASSUME HeapInv, Len(heap) <= Len(heap')
  PROVE  /\ \A p \in Programs : p \in Programs'
         /\ \A s \in Seq(Programs) : s \in Seq(Programs')
         /\ \A p \in Interruptible : p \in Interruptible'
         /\ \A s \in Seq(Interruptible) : s \in Seq(Interruptible')
<1>1. Programs \subseteq Programs'
  BY HeapFacts DEF Programs
<1>2. Interruptible \subseteq Interruptible'
  BY <1>1 DEF Interruptible
<1> QED  BY <1>1, <1>2, SeqMonotonic

(* A control word changes the heap and the open structures, no more.       *)
LEMMA SettledStep ==
  ASSUME TypeInv, status = "parse", line # << >>, NextWord,
         UNCHANGED <<settled, taskVars, session>>,
         HeapInv', Len(heap) <= Len(heap'), OpenInv'
  PROVE  TypeInv'
<1>1. status' = "parse" /\ UNCHANGED <<state, string_buffer, dict, vartable, current_PROG, program_stack, program_Stack_top>>
  BY DEF NextWord, settled, names
<1>2. HeapInv /\ ReaderInv /\ TableInv
  BY DEF TypeInv
<1>3. ReaderInv'
  BY <1>1, <1>2, NextWordReads, ProgramsKept DEF ReaderInv
<1>4. TableInv'
  BY <1>1, <1>2, ProgramsKept DEF TableInv
<1> QED  BY <1>1, <1>3, <1>4, CompilerStep

LEMMA CrashStep ==
  ASSUME TypeInv, status = "parse", status' \in Dead,
         UNCHANGED <<heapVars, vartable, compilerVars, taskVars, session>>
  PROVE  TypeInv'
<1>1. UNCHANGED <<heap, base, strings, vartable, line, checks, state, string_buffer, dict,
                  current_IF, current_DO, current_BEGIN, current_PROG, program_stack, program_Stack_top>>
  BY DEF heapVars, compilerVars, openVars
<1>2. Programs' = Programs
  BY <1>1 DEF Programs
<1>3. HeapInv' /\ OpenInv'
  BY <1>1, <1>2 DEF TypeInv, HeapInv, OpenInv, JumpIn, PointerIn
<1>4. ReaderInv' /\ TableInv'
  BY <1>1, <1>2 DEF TypeInv, ReaderInv, TableInv, Interruptible
<1>5. Len(heap) <= Len(heap')
  BY <1>1, HeapFacts DEF TypeInv
<1> QED  BY <1>3, <1>4, <1>5, CompilerStep

(* A control word that appends its token.                                  *)
LEMMA ControlWordStep ==
  ASSUME TypeInv, NEW w, Compiling(w), NextWord, UNCHANGED <<settled, taskVars, session>>,
         NEW tok \in Tokens, tok.op # "DICT", Emit(tok),
         \/ UNCHANGED openVars
         \/ /\ tok.op \in Jumping /\ current_IF' = Here
            /\ UNCHANGED <<current_DO, current_BEGIN>>
         \/ current_DO' \in {Here, Wild} /\ UNCHANGED <<current_IF, current_BEGIN>>
         \/ current_BEGIN' \in {Here, Wild} /\ UNCHANGED <<current_IF, current_DO>>
  PROVE  TypeInv'
<1>1. status = "parse" /\ line # << >> /\ HeapInv /\ OpenInv /\ current_PROG \in Programs
  BY DEF TypeInv, Compiling, Parsing, Given, ReaderInv, Interruptible
<1>2. UNCHANGED <<base, strings>>
  BY DEF settled
<1>3. /\ HeapInv' /\ HeapGrows
      /\ Len(heap') = Len(heap)
      /\ Len(heap'[current_PROG]) = npcp_array + 1
      /\ heap'[current_PROG][npcp_array + 1] = tok
  BY <1>1, <1>2, EmitStep
<1>4. npcp_array \in Nat
  BY <1>1, HeapFacts DEF npcp_array
<1>5. PointerIn(Here, heap') /\ (tok.op \in Jumping => JumpIn(Here, heap'))
  BY <1>1, <1>3, <1>4 DEF PointerIn, JumpIn, Here, Programs
<1>6. PointerIn(Wild, heap')
  BY DEF PointerIn, Nowhere
<1>7. /\ JumpIn(current_IF, heap')
      /\ PointerIn(current_DO, heap') /\ PointerIn(current_BEGIN, heap')
  <2>1. JumpIn(current_IF, heap) /\ PointerIn(current_DO, heap) /\ PointerIn(current_BEGIN, heap)
    BY <1>1 DEF OpenInv
  <2> QED  BY <1>1, <1>3, <2>1, PointersKept
<1>8. OpenInv'
  BY <1>5, <1>6, <1>7 DEF OpenInv, openVars
<1>9. Len(heap) <= Len(heap')
  BY <1>1, <1>3, HeapFacts
<1> QED  BY <1>1, <1>3, <1>8, <1>9, SettledStep

(* A word that neither appends a token nor creates a program.              *)
LEMMA ReadingStep ==
  ASSUME TypeInv, status = "parse", UNCHANGED <<heapVars, dict, openVars, current_PROG, program_stack, program_Stack_top>>,
         UNCHANGED <<taskVars, session>>, NextWord, line # << >>,
         state' \in States, string_buffer' \in Seq(Words), vartable' \in Seq(Entries)
  PROVE  TypeInv'
<1>1. UNCHANGED <<heap, base, strings, dict, current_IF, current_DO, current_BEGIN, current_PROG, program_stack, program_Stack_top>>
  BY DEF heapVars, openVars
<1>2. Programs' = Programs /\ Len(heap) <= Len(heap')
  BY <1>1, HeapFacts DEF Programs, TypeInv
<1>3. HeapInv' /\ OpenInv'
  BY <1>1, <1>2 DEF TypeInv, HeapInv, OpenInv, JumpIn, PointerIn
<1>4. TableInv'
  BY <1>1, <1>2 DEF TypeInv, TableInv
<1>5. ReaderInv'
  BY <1>1, <1>2, NextWordReads DEF TypeInv, ReaderInv, Interruptible
<1>6. status' = status
  BY DEF NextWord
<1> QED  BY <1>2, <1>3, <1>4, <1>5, <1>6, CompilerStep

LEMMA VariableAdded ==
  ASSUME TableInv, NEW name \in Words, variable_add(name)
  PROVE  vartable' \in Seq(Entries)
<1>1. CASE IsVariable(name)
  BY <1>1 DEF variable_add, TableInv
<1>2. CASE ~IsVariable(name)
  <2>1. PICK sz \in ElemSizes :
          vartable' = Append(vartable, [name |-> name, l |-> 0, sz |-> sz, lp |-> << >>])
    BY <1>2 DEF variable_add
  <2>2. << >> \in Blocks
    <3>1. << >> \in [1 .. 0 -> Int]
      BY EmptySeq, LenProperties
    <3>2. 1 .. 0 \in SUBSET Int
      OBVIOUS
    <3> QED  BY <3>1, <3>2 DEF Blocks
  <2>3. [name |-> name, l |-> 0, sz |-> sz, lp |-> << >>] \in Entries
    BY <2>2, VariablesAssumption DEF Entries
  <2> QED  BY <2>1, <2>3, AppendProperties DEF TableInv
<1> QED  BY <1>1, <1>2

LEMMA WordReadyIsWord ==
  ASSUME TypeInv, NEW S, Given(S)
  PROVE  status = "parse" /\ line # << >> /\ Head(line) \in Words /\ current_PROG \in Interruptible
BY DEF TypeInv, ReaderInv, Given

LEMMA CompilingIntoProgram ==
  ASSUME TypeInv, NEW w, Compiling(w)
  PROVE  /\ Parsing(w) /\ status = "parse" /\ line # << >> /\ Head(line) \in Words
         /\ current_PROG \in Programs /\ npcp_array \in Int
<1>1. /\ Parsing(w) /\ status = "parse" /\ line # << >> /\ Head(line) \in Words
      /\ current_PROG \in Interruptible /\ current_PROG # NoProgram
  BY WordReadyIsWord DEF Compiling, Parsing
<1> QED  BY <1>1, HeapFacts DEF Interruptible, npcp_array, TypeInv

(* The tokens of the vocabulary: only a word of the dictionary is a DICT.  *)
LEMMA SmtokType ==
  ASSUME NEW op \in Ops, NEW v \in Int
  PROVE  smtok(op, v) \in Tokens /\ smtok(op, v).op = op /\ smtok(op, v).val = v
BY DEF smtok, Tokens

LEMMA BuiltinsAreNoKinds == Builtins \cap {"IF", "ELSE", "THEN", "DICT"} = {}
BY ForthAssumption DEF Pure, VarDepth

LEMMA CompiledToken ==
  ASSUME TableInv, Len(heap) \in Nat, NEW w \in Words, Known(w)
  PROVE  /\ smtok_compile_word(w) \in Tokens
         /\ smtok_compile_word(w).op = "DICT" => smtok_compile_word(w).val \in Programs
         /\ smtok_compile_word(w).op \notin {"IF", "ELSE", "THEN"}
<1> DEFINE Good(tok) == /\ tok \in Tokens
                        /\ tok.op = "DICT" => tok.val \in Programs
                        /\ tok.op \notin {"IF", "ELSE", "THEN"}
<1> SUFFICES Good(smtok_compile_word(w))
  OBVIOUS
<1>1. ASSUME NEW op \in Ops, NEW v \in Int, op \notin {"IF", "ELSE", "THEN"},
             op = "DICT" => v \in Programs
      PROVE  Good(smtok(op, v))
  BY <1>1, SmtokType
<1> HIDE DEF Good
<1>2. Good(smtok("I", 0)) /\ Good(smtok("DEFER", 0)) /\ Good(smtok("EXEC", 0))
  BY <1>1 DEF Ops
<1>3. w \in Numbers => Good(smtok("NUM", NumVal[w]))
  BY <1>1, CompilerAssumption DEF Ops
<1>4. IsVariable(w) => Good(smtok("VAR", var_p(variable_lookup(w))))
  <2> SUFFICES ASSUME IsVariable(w) PROVE Good(smtok("VAR", var_p(variable_lookup(w))))
    OBVIOUS
  <2>1. variable_lookup(w) \in DOMAIN vartable
    BY DEF IsVariable, variable_lookup
  <2>2. var_p(variable_lookup(w)) \in Int
    BY <2>1, LenProperties DEF var_p, VarArea, TableInv
  <2> QED  BY <1>1, <2>2 DEF Ops
<1>5. w \in Builtins => Good(smtok(w, 0))
  <2> SUFFICES ASSUME w \in Builtins PROVE Good(smtok(w, 0))
    OBVIOUS
  <2>1. w \in Ops /\ w \notin {"IF", "ELSE", "THEN", "DICT"}
    BY BuiltinsAreNoKinds DEF Ops
  <2> QED  BY <1>1, <2>1
<1>6. w \in DOMAIN dict => Good(smtok("DICT", dict[w]))
  <2> SUFFICES ASSUME w \in DOMAIN dict PROVE Good(smtok("DICT", dict[w]))
    OBVIOUS
  <2>1. dict[w] \in Programs /\ dict[w] \in Int
    BY DEF TableInv, Programs
  <2> QED  BY <1>1, <2>1 DEF Ops
<1> QED  BY <1>2, <1>3, <1>4, <1>5, <1>6 DEF smtok_compile_word, Known

LEMMA ColonNameTypes ==
  ASSUME TypeInv, parse_colon_name, UNCHANGED <<taskVars, session>>
  PROVE  TypeInv'
<1>1. status = "parse" /\ line # << >> /\ Head(line) \in Words /\ current_PROG \in Interruptible
  BY WordReadyIsWord DEF parse_colon_name
<1>2. CASE program_Stack_top <= ProgStack
  <2>1. PICK place \in Placements : program_create(place)
    BY <1>2 DEF parse_colon_name
  <2>2. /\ program_stack' = Append(program_stack, current_PROG)
        /\ program_Stack_top' = program_Stack_top + 1
        /\ current_PROG' = Len(heap) + 1
        /\ dict_add_entry(Head(line), Len(heap) + 1)
        /\ state' = "EXPECTING_ANY"
        /\ NextWord
        /\ UNCHANGED <<string_buffer, vartable, current_IF, current_DO, current_BEGIN>>
    BY <1>2 DEF parse_colon_name, openVars
  <2>3. HeapInv /\ OpenInv /\ ReaderInv /\ TableInv
    BY DEF TypeInv
  <2>4. /\ HeapInv' /\ HeapGrows
        /\ Len(heap') = Len(heap) + 1
        /\ Len(heap) + 1 \in Programs'
    BY <2>1, <2>3, CreateStep
  <2>5. Len(heap) <= Len(heap')
    BY <2>4 DEF HeapGrows
  <2>6. OpenInv'
    <3>1. JumpIn(current_IF, heap) /\ PointerIn(current_DO, heap) /\ PointerIn(current_BEGIN, heap)
      BY <2>3 DEF OpenInv
    <3>2. JumpIn(current_IF, heap') /\ PointerIn(current_DO, heap') /\ PointerIn(current_BEGIN, heap')
      BY <2>3, <2>4, <3>1, PointersKept
    <3> QED  BY <2>2, <3>2 DEF OpenInv
  <2>7. ReaderInv'
    <3>1. program_stack' \in Seq(Interruptible')
      <4>1. program_stack' \in Seq(Interruptible)
        BY <1>1, <2>2, <2>3, AppendProperties DEF ReaderInv
      <4> QED  BY <2>3, <2>5, <4>1, ProgramsKept
    <3>2. program_Stack_top' \in (-NullsBelow) .. (ProgStack + 1)
      BY <1>2, <2>2, <2>3, CompilerAssumption DEF ReaderInv
    <3>4. program_Stack_top' - Len(program_stack') \in (-NullsBelow) .. 0
      <4>1. Len(program_stack) \in Nat /\ Len(program_stack') = Len(program_stack) + 1
        BY <1>1, <2>2, <2>3, AppendProperties, LenProperties DEF ReaderInv
      <4> QED  BY <2>2, <2>3, <4>1, CompilerAssumption DEF ReaderInv
    <3>3. current_PROG' \in Interruptible'
      BY <2>2, <2>4 DEF Interruptible
    <3> QED  BY <1>1, <2>2, <2>3, <3>1, <3>2, <3>3, <3>4, NextWordReads DEF ReaderInv, States
  <2>8. TableInv'
    <3>1. \A p \in Programs : p \in Programs'
      BY <2>3, <2>5, ProgramsKept
    <3> QED  BY <1>1, <2>2, <2>3, <2>4, <3>1 DEF TableInv, dict_add_entry
  <2>9. status' = status
    BY <2>2 DEF NextWord
  <2> QED  BY <1>1, <2>4, <2>5, <2>6, <2>7, <2>8, <2>9, CompilerStep
<1>3. CASE ~(program_Stack_top <= ProgStack)
  BY <1>1, <1>3, CrashStep DEF parse_colon_name, Crash, Dead
<1> QED  BY <1>2, <1>3

LEMMA ThenTypes ==
  ASSUME TypeInv, then_create, UNCHANGED <<taskVars, session>>
  PROVE  TypeInv'
<1>1. status = "parse" /\ line # << >> /\ current_PROG \in Programs
  BY CompilingIntoProgram DEF then_create
<1>2. HeapInv /\ OpenInv /\ npcp_array \in Nat
  BY <1>1, HeapFacts DEF TypeInv, npcp_array
<1>3. CASE Completable
  <2> DEFINE v == npcp_array - heap[current_IF[1]][current_IF[2]].val
             tok == smtok("THEN", npcp_array)
  <2>1. /\ heap' = program_add_smtok(Patched(v), current_PROG, tok)
        /\ current_IF' = Wild /\ NextWord /\ UNCHANGED <<settled, current_DO, current_BEGIN>>
    BY <1>3 DEF then_create, Patched, ct_pop
  <2>2. current_IF \notin Nowhere
    BY <1>3 DEF Completable, Nowhere
  <2>3. v \in Int
    BY <1>2, <2>2, HeapFacts DEF OpenInv, JumpIn, PointerIn, Programs
  <2>4. tok \in Tokens /\ tok.op = "THEN"
    BY <1>2, SmtokType DEF Ops
  <2>5. UNCHANGED <<base, strings>>
    BY <2>1 DEF settled
  <2> HIDE DEF v, tok
  <2>6. HeapInv' /\ HeapGrows
    BY <1>1, <1>2, <2>1, <2>2, <2>3, <2>4, <2>5, PatchStep
  <2>7. PointerIn(current_DO, heap') /\ PointerIn(current_BEGIN, heap')
    BY <1>2, <2>6, PointersKept DEF OpenInv
  <2>8. OpenInv'
    BY <2>1, <2>7 DEF OpenInv, JumpIn, PointerIn, Nowhere
  <2>9. Len(heap) <= Len(heap')
    BY <2>6 DEF HeapGrows
  <2> QED  BY <1>1, <2>1, <2>6, <2>8, <2>9, SettledStep
<1>4. CASE ~Completable
  BY <1>1, <1>4, CrashStep DEF then_create, Crash, Dead
<1> QED  BY <1>3, <1>4

LEMMA StringTypes ==
  ASSUME TypeInv, parse_string_expecting_quote, UNCHANGED <<taskVars, session>>
  PROVE  TypeInv'
<1> USE DEF parse_string_expecting_quote
<1>1. /\ status = "parse" /\ line # << >> /\ Head(line) \in Words /\ current_PROG \in Interruptible
      /\ NextWord /\ UNCHANGED <<base, dict, vartable, current_PROG, openVars, program_stack, program_Stack_top>>
  BY WordReadyIsWord DEF names
<1>2. HeapInv /\ OpenInv /\ ReaderInv /\ TableInv
  BY DEF TypeInv
<1>3. CASE Head(line) \in DOMAIN EndQuote
  <2> DEFINE text == Append(string_buffer, EndQuote[Head(line)])
             tok == smtok("STR", char_p(Len(strings) + 1))
  <2>1. strings' = Append(strings, text) /\ Emit(tok) /\ state' = "EXPECTING_ANY" /\ UNCHANGED string_buffer
    BY <1>3
  <2>2. text \in Seq(Texts)
    <3>1. string_buffer \in Seq(Texts) /\ EndQuote[Head(line)] \in Texts
      BY <1>2, <1>3, SeqMonotonic DEF ReaderInv, Texts
    <3> QED  BY <3>1, AppendProperties
  <2>3. strings' \in Seq(Seq(Texts))
    BY <1>2, <2>1, <2>2, AppendProperties DEF HeapInv
  <2>4. tok \in Tokens /\ tok.op = "STR"
    <3>1. char_p(Len(strings) + 1) \in Int
      BY <1>2, LenProperties DEF HeapInv, char_p, StringArea
    <3> QED  BY <3>1, SmtokType DEF Ops
  <2> HIDE DEF tok, text
  <2>0. current_PROG \in Programs
    BY <1>1, <1>3 DEF Interruptible
  <2>5. /\ heap' \in Seq(Seq(Tokens)) /\ Len(heap') = Len(heap) /\ HeapGrows
        /\ \A p \in Programs : \A i \in 1 .. Len(heap'[p]) :
             heap'[p][i].op = "DICT" => heap'[p][i].val \in Programs
    BY <1>2, <2>0, <2>1, <2>4, EmitHeap
  <2>6. HeapInv'
    BY <1>1, <1>2, <2>3, <2>5 DEF HeapInv, Programs
  <2>7. OpenInv'
    <3>1. JumpIn(current_IF, heap) /\ PointerIn(current_DO, heap) /\ PointerIn(current_BEGIN, heap)
      BY <1>2 DEF OpenInv
    <3>2. JumpIn(current_IF, heap') /\ PointerIn(current_DO, heap') /\ PointerIn(current_BEGIN, heap')
      BY <1>2, <2>5, <3>1, PointersKept
    <3> QED  BY <1>1, <3>2 DEF OpenInv, openVars
  <2>8. Programs' = Programs /\ Len(heap) <= Len(heap')
    BY <1>2, <2>5, HeapFacts DEF Programs
  <2>9. ReaderInv' /\ TableInv'
    BY <1>1, <1>2, <2>1, <2>8, NextWordReads DEF ReaderInv, TableInv, States, Interruptible
  <2>10. status' = status
    BY <1>1 DEF NextWord
  <2> QED  BY <1>1, <2>6, <2>7, <2>8, <2>9, <2>10, CompilerStep
<1>4. CASE Head(line) \notin DOMAIN EndQuote
  <2>1. string_buffer' = Append(string_buffer, Head(line)) /\ UNCHANGED <<state, heap, strings>>
    BY <1>4
  <2>2. string_buffer' \in Seq(Words) /\ state' \in States /\ vartable' \in Seq(Entries)
    BY <1>1, <1>2, <2>1, AppendProperties DEF ReaderInv, TableInv
  <2> QED  BY <1>1, <2>1, <2>2, ReadingStep DEF heapVars
<1> QED  BY <1>3, <1>4

LEMMA CommentTypes ==
  ASSUME TypeInv, comment, UNCHANGED <<taskVars, session>>
  PROVE  TypeInv'
<1>1. /\ status = "parse" /\ line # << >> /\ line \in Source
      /\ UNCHANGED <<heap, base, strings, string_buffer, dict, vartable, current_PROG,
                      current_IF, current_DO, current_BEGIN, program_stack, program_Stack_top>>
  BY DEF comment, TypeInv, ReaderInv, heapVars, names, openVars
<1> DEFINE rest == strtok(SubSeq(line, CommentEnd + 1, Len(line)))
<1>2. rest \in Source /\ (rest # << >> => Head(rest) \in Words)
  <2>1. Len(line) \in Nat /\ \A i \in 1 .. Len(line) : line[i] \in Words \cup {NL}
    BY <1>1, LenProperties, ElementOfSeq DEF Source
  <2>2. CommentEnd \in Nat
    <3>1. PICK from \in {2, 3} : CommentEnd = FirstIn({Closing[Head(line)]}, line, from)
      BY DEF CommentEnd
    <3>2. from \in Nat /\ Len(line) \in Nat
      BY <2>1
    <3>3. FirstIn({Closing[Head(line)]}, line, from) \in {0} \cup (from .. Len(line))
      BY <3>2, FirstInRange
    <3> QED  BY <3>1, <3>2, <3>3
  <2>3. \A i \in (CommentEnd + 1) .. Len(line) : line[i] \in Words \cup {NL}
    BY <2>1, <2>2
  <2>4. SubSeq(line, CommentEnd + 1, Len(line)) \in Source
    BY <2>1, <2>2, <2>3, SubSeqProperties DEF Source
  <2> QED  BY <2>4, StrtokType
<1>3. \/ /\ line' = rest /\ rest # << >> /\ checks' \in {{}, {"("}}
         /\ state' = "EXPECTING_ANY" /\ status' = status
      \/ status' \in {"stray", "crashed"} /\ UNCHANGED <<line, checks, state>>
  BY DEF comment
<1> HIDE DEF rest
<1>4. Programs' = Programs /\ Len(heap) <= Len(heap')
  BY <1>1, HeapFacts DEF Programs, TypeInv
<1>5. HeapInv' /\ OpenInv' /\ TableInv'
  BY <1>1, <1>4 DEF TypeInv, HeapInv, OpenInv, JumpIn, PointerIn, TableInv
<1>6. {} \subseteq AllChecks /\ {"("} \subseteq AllChecks
  BY DEF AllChecks, Closing
<1>7. ReaderInv'
  BY <1>1, <1>2, <1>3, <1>4, <1>6 DEF TypeInv, ReaderInv, States, Interruptible
<1>8. status' \in {"parse"} \cup Dead
  BY <1>1, <1>3 DEF Dead
<1> QED  BY <1>1, <1>4, <1>5, <1>7, <1>8, CompilerStep

LEMMA KindsAreOps ==
  /\ {"IF", "ELSE", "THEN", "DO", "LOOP", "BEGIN", "AGAIN", "UNTIL", "EXIT"} \subseteq Ops
  /\ "DICT" \notin {"IF", "ELSE", "THEN", "DO", "LOOP", "BEGIN", "AGAIN", "UNTIL", "EXIT"}
BY DEF Ops

LEMMA IjumpType ==
  ASSUME HeapInv, NEW ptr, PointerIn(ptr, heap), Readable(ptr)
  PROVE  ijump(ptr) \in Int
<1>1. CASE ptr = Wild
  BY <1>1 DEF ijump
<1>2. CASE ptr # Wild
  <2>1. ptr \notin Nowhere
    BY <1>2 DEF Readable, Nowhere
  <2> QED  BY <1>2, <2>1, HeapFacts DEF ijump, Deref, PointerIn, Programs
<1> QED  BY <1>1, <1>2

(* ";" pops: a program that ":" interrupted, or a NULL below them.         *)
LEMMA SemicolonTypes ==
  ASSUME TypeInv, semicolon, UNCHANGED <<taskVars, session>>
  PROVE  TypeInv'
<1>1. /\ status = "parse" /\ line # << >>
      /\ HeapInv /\ OpenInv /\ ReaderInv /\ TableInv /\ program_stack \in Seq(Interruptible)
  BY WordReadyIsWord DEF semicolon, Parsing, TypeInv, ReaderInv
<1>2. CASE /\ program_Stack_top <= ProgStack
           /\ program_stack # << >> \/ program_Stack_top > -NullsBelow
           /\ \/ /\ program_stack # << >>
                 /\ current_PROG' = Top(program_stack) /\ program_stack' = Popped(program_stack, 1)
              \/ /\ program_stack = << >>
                 /\ current_PROG' = NoProgram /\ program_stack' = program_stack
           /\ program_Stack_top' = program_Stack_top - 1
           /\ NextWord
           /\ UNCHANGED <<heapVars, state, names, string_buffer, openVars>>
  <2>1. UNCHANGED <<heap, base, strings, state, dict, vartable, string_buffer,
                    current_IF, current_DO, current_BEGIN>>
    BY <1>2 DEF heapVars, names, openVars
  <2>2. Programs' = Programs /\ Len(heap) <= Len(heap')
    <3>1. Len(heap) \in Nat /\ heap' = heap
      BY <1>1, <2>1, HeapFacts
    <3> QED  BY <3>1 DEF Programs
  <2>3. current_PROG' \in Interruptible' /\ program_stack' \in Seq(Interruptible')
    <3>1. Interruptible' = Interruptible
      BY <2>2 DEF Interruptible
    <3>2. CASE /\ program_stack # << >>
               /\ current_PROG' = Top(program_stack) /\ program_stack' = Popped(program_stack, 1)
      <4>1. Len(program_stack) \in Nat \ {0} /\ Top(program_stack) \in Interruptible
        BY <1>1, <3>2, TopType
      <4>2. 1 \in Nat /\ 1 <= Len(program_stack)
        BY <4>1
      <4>3. Popped(program_stack, 1) \in Seq(Interruptible)
        BY <1>1, <4>2, PoppedProperties
      <4> QED  BY <3>1, <3>2, <4>1, <4>3
    <3>3. CASE current_PROG' = NoProgram /\ program_stack' = program_stack
      BY <1>1, <3>1, <3>3 DEF Interruptible
    <3> QED  BY <1>2, <3>2, <3>3
  <2>4. /\ program_Stack_top' \in (-NullsBelow) .. (ProgStack + 1)
        /\ program_Stack_top' - Len(program_stack') \in (-NullsBelow) .. 0
    <3> DEFINE n == Len(program_stack)
    <3>1. /\ program_Stack_top \in Int /\ program_Stack_top <= ProgStack /\ n \in Nat
          /\ program_Stack_top - n \in (-NullsBelow) .. 0
          /\ program_stack = << >> => n = 0
      BY <1>1, <1>2, CompilerAssumption, LenProperties DEF ReaderInv
    <3>2. CASE /\ program_stack # << >>
               /\ current_PROG' = Top(program_stack) /\ program_stack' = Popped(program_stack, 1)
      <4>1. n >= 1 /\ Len(program_stack') = n - 1
        BY <1>1, <3>1, <3>2, TopType, PoppedProperties
      <4> HIDE DEF n
      <4> QED  BY <1>2, <3>1, <4>1, CompilerAssumption
    <3>3. CASE program_stack = << >> /\ program_stack' = program_stack
      <4>1. n = 0 /\ Len(program_stack') = n /\ program_Stack_top > -NullsBelow
        BY <1>2, <3>1, <3>3
      <4> HIDE DEF n
      <4> QED  BY <1>2, <3>1, <4>1, CompilerAssumption
    <3> QED  BY <1>2, <3>2, <3>3
  <2>5. HeapInv' /\ OpenInv' /\ TableInv'
    BY <1>1, <2>1, <2>2 DEF HeapInv, OpenInv, JumpIn, PointerIn, TableInv
  <2>6. ReaderInv'
    BY <1>1, <1>2, <2>1, <2>3, <2>4, NextWordReads DEF ReaderInv
  <2>7. status' = "parse"
    BY <1>1, <1>2 DEF NextWord
  <2> QED  BY <1>1, <2>2, <2>5, <2>6, <2>7, CompilerStep
<1>3. CASE status' \in Dead /\ UNCHANGED <<heapVars, vartable, compilerVars>>
  BY <1>1, <1>3, CrashStep
<1> QED  BY <1>2, <1>3 DEF semicolon, Crash, Dead, Top, Popped

LEMMA CompileTypes ==
  ASSUME TypeInv, Compile
  PROVE  TypeInv'
<1>0. HeapInv /\ OpenInv /\ ReaderInv /\ TableInv /\ UNCHANGED <<taskVars, session>>
  BY DEF TypeInv, Compile
<1>a. \A w : Parsing(w) => /\ status = "parse" /\ line # << >> /\ Head(line) \in Words
                            /\ current_PROG \in Interruptible
  BY WordReadyIsWord DEF Parsing
<1>b. \A w : Compiling(w) => Parsing(w) /\ current_PROG \in Programs /\ npcp_array \in Int
  BY CompilingIntoProgram
<1>1. CASE if_create
  <2>1. smtok("IF", npcp_array) \in Tokens /\ smtok("IF", npcp_array).op = "IF"
    BY <1>1, <1>b, SmtokType, KindsAreOps DEF if_create
  <2> QED  BY <1>0, <1>1, <2>1, ControlWordStep DEF if_create, Jumping
<1>2. CASE else_create
  <2>1. smtok("ELSE", npcp_array) \in Tokens /\ smtok("ELSE", npcp_array).op = "ELSE"
    BY <1>2, <1>b, SmtokType, KindsAreOps DEF else_create
  <2> QED  BY <1>0, <1>2, <2>1, ControlWordStep DEF else_create, Jumping
<1>3. CASE then_create
  BY <1>0, <1>3, ThenTypes
<1>4. CASE do_create
  <2>1. smtok("DO", npcp_array + 1) \in Tokens /\ smtok("DO", npcp_array + 1).op = "DO"
    BY <1>4, <1>b, SmtokType, KindsAreOps DEF do_create
  <2> QED  BY <1>0, <1>4, <2>1, ControlWordStep DEF do_create
<1>5. CASE loop_create
  <2>1. CASE Crash
    BY <1>0, <1>5, <1>a, <1>b, <2>1, CrashStep DEF loop_create, Crash, Dead
  <2>2. CASE ~Crash
    <3>1. Readable(current_DO) /\ Emit(smtok("LOOP", ijump(current_DO))) /\ Compiling("LOOP")
      BY <1>5, <2>2 DEF loop_create
    <3>2. ijump(current_DO) \in Int
      BY <1>0, <3>1, IjumpType DEF OpenInv
    <3>3. smtok("LOOP", ijump(current_DO)) \in Tokens /\ smtok("LOOP", ijump(current_DO)).op = "LOOP"
      BY <3>2, SmtokType, KindsAreOps
    <3> QED  BY <1>0, <1>5, <2>2, <3>1, <3>3, ControlWordStep DEF loop_create, ct_pop
  <2> QED  BY <2>1, <2>2
<1>6. CASE begin_create
  <2>1. smtok("BEGIN", npcp_array + 1) \in Tokens /\ smtok("BEGIN", npcp_array + 1).op = "BEGIN"
    BY <1>6, <1>b, SmtokType, KindsAreOps DEF begin_create
  <2> QED  BY <1>0, <1>6, <2>1, ControlWordStep DEF begin_create
<1>7. ASSUME NEW w \in {"AGAIN", "UNTIL"}, BackTo(w)
      PROVE  TypeInv'
  <2>1. CASE Crash
    BY <1>0, <1>7, <1>a, <1>b, <2>1, CrashStep DEF BackTo, Crash, Dead
  <2>2. CASE ~Crash
    <3>1. Readable(current_BEGIN) /\ Emit(smtok(w, ijump(current_BEGIN))) /\ Compiling(w)
      BY <1>7, <2>2 DEF BackTo
    <3>2. ijump(current_BEGIN) \in Int
      BY <1>0, <3>1, IjumpType DEF OpenInv
    <3>3. smtok(w, ijump(current_BEGIN)) \in Tokens /\ smtok(w, ijump(current_BEGIN)).op = w
      BY <3>2, SmtokType, KindsAreOps
    <3> QED  BY <1>0, <1>7, <2>2, <3>1, <3>3, ControlWordStep DEF BackTo, ct_pop
  <2> QED  BY <2>1, <2>2
<1>8. CASE exit_create
  <2>1. smtok("EXIT", 0) \in Tokens /\ smtok("EXIT", 0).op = "EXIT"
    BY SmtokType, KindsAreOps
  <2> QED  BY <1>0, <1>8, <2>1, ControlWordStep DEF exit_create
<1>9. CASE parse_colon
  <2>1. state' \in States /\ string_buffer' \in Seq(Words) /\ vartable' \in Seq(Entries)
    BY <1>0, <1>9 DEF parse_colon, States, names, ReaderInv, TableInv
  <2> QED  BY <1>0, <1>9, <1>a, <2>1, ReadingStep DEF parse_colon, names
<1>10. CASE parse_colon_name
  BY <1>0, <1>10, ColonNameTypes
<1>11. CASE semicolon
  BY <1>0, <1>11, SemicolonTypes
<1>12. CASE parse_variable
  <2>1. state' \in States /\ string_buffer' \in Seq(Words) /\ vartable' \in Seq(Entries)
    BY <1>0, <1>12 DEF parse_variable, States, names, ReaderInv, TableInv
  <2> QED  BY <1>0, <1>12, <1>a, <2>1, ReadingStep DEF parse_variable, names
<1>13. CASE parse_variable_name
  <2>1. status = "parse" /\ line # << >> /\ Head(line) \in Words
    BY <1>13, WordReadyIsWord DEF parse_variable_name
  <2>2. state' \in States /\ string_buffer' \in Seq(Words) /\ vartable' \in Seq(Entries)
    <3>1. CASE Head(line) = "VARIABLE"
      <4>1. "VARIABLE" \in DOMAIN Naming /\ state' = Naming["VARIABLE"]
        BY <1>13, <3>1 DEF parse_variable_name, Naming
      <4> QED  BY <1>0, <1>13, <3>1, <4>1 DEF parse_variable_name, States, ReaderInv, TableInv
    <3>2. CASE Head(line) # "VARIABLE"
      BY <1>0, <1>13, <2>1, <3>2, VariableAdded DEF parse_variable_name, States, ReaderInv
    <3> QED  BY <3>1, <3>2
  <2> QED  BY <1>0, <1>13, <2>1, <2>2, ReadingStep DEF parse_variable_name
<1>14. CASE parse_string
  <2>1. state' \in States /\ string_buffer' \in Seq(Words) /\ vartable' \in Seq(Entries)
    BY <1>0, <1>14, EmptySeq DEF parse_string, States, names, TableInv
  <2> QED  BY <1>0, <1>14, <1>a, <2>1, ReadingStep DEF parse_string, names
<1>15. CASE parse_string_expecting_quote
  BY <1>0, <1>15, StringTypes
<1>16. CASE comment
  BY <1>0, <1>16, CommentTypes
<1>17. CASE parse_mark
  <2>1. state' \in States /\ string_buffer' \in Seq(Words) /\ vartable' \in Seq(Entries)
    BY <1>0, <1>17 DEF parse_mark, States, names, ReaderInv, TableInv
  <2> QED  BY <1>0, <1>17, <1>a, <2>1, ReadingStep DEF parse_mark, names
<1>18. CASE skip_word
  <2>1. status = "parse" /\ line # << >>
    BY <1>18, WordReadyIsWord DEF skip_word
  <2>2. state' \in States /\ string_buffer' \in Seq(Words) /\ vartable' \in Seq(Entries)
    BY <1>0, <1>18 DEF skip_word, settled, names, ReaderInv, TableInv
  <2> QED  BY <1>0, <1>18, <2>1, <2>2, ReadingStep DEF skip_word, settled, names, heapVars
<1>19. ASSUME NEW w \in Words \ ControlWords, program_add(w)
       PROVE  TypeInv'
  <2>1. /\ status = "parse" /\ line # << >> /\ current_PROG \in Interruptible
        /\ NextWord /\ UNCHANGED <<settled, openVars>>
    BY <1>19, <1>a DEF program_add
  <2>2. CASE Known(w)
    <3>0. current_PROG \in Programs
      BY <1>19, <2>1, <2>2 DEF program_add, Interruptible
    <3>1. Len(heap) \in Nat
      BY <1>0, HeapFacts
    <3>2. /\ smtok_compile_word(w) \in Tokens
          /\ smtok_compile_word(w).op = "DICT" => smtok_compile_word(w).val \in Programs
      BY <1>0, <1>19, <2>2, <3>1, CompiledToken
    <3>3. Emit(smtok_compile_word(w)) /\ UNCHANGED <<base, strings>>
      BY <1>19, <2>1, <2>2 DEF program_add, settled
    <3>4. HeapInv' /\ HeapGrows
      BY <1>0, <3>0, <3>2, <3>3, EmitStep
    <3>5. OpenInv'
      <4>1. JumpIn(current_IF, heap) /\ PointerIn(current_DO, heap) /\ PointerIn(current_BEGIN, heap)
        BY <1>0 DEF OpenInv
      <4>2. JumpIn(current_IF, heap') /\ PointerIn(current_DO, heap') /\ PointerIn(current_BEGIN, heap')
        BY <1>0, <3>4, <4>1, PointersKept
      <4> QED  BY <2>1, <4>2 DEF OpenInv, openVars
    <3>6. Len(heap) <= Len(heap')
      BY <3>4 DEF HeapGrows
    <3> QED  BY <1>0, <2>1, <3>4, <3>5, <3>6, SettledStep
  <2>3. CASE ~Known(w)
    <3>1. heap' = heap
      BY <1>19, <2>3 DEF program_add
    <3>2. UNCHANGED <<heapVars, dict, openVars, current_PROG, program_stack, program_Stack_top>>
      BY <2>1, <3>1 DEF settled, names, heapVars
    <3>3. state' \in States /\ string_buffer' \in Seq(Words) /\ vartable' \in Seq(Entries)
      BY <1>0, <2>1 DEF settled, names, ReaderInv, TableInv
    <3> QED  BY <1>0, <2>1, <3>2, <3>3, ReadingStep
  <2> QED  BY <2>2, <2>3
<1>20. CASE null_PROG
  <2>1. status = "parse" /\ Crash
    BY <1>20 DEF null_PROG, Parsing, Given
  <2> QED  BY <1>0, <2>1, CrashStep DEF Crash, Dead
<1> QED
  BY <1>1, <1>2, <1>3, <1>4, <1>5, <1>6, <1>7, <1>8, <1>9, <1>10, <1>11, <1>12, <1>13, <1>14,
     <1>15, <1>16, <1>17, <1>18, <1>19, <1>20 DEF Compile, ParseWord, again_create, until_create
-----------------------------------------------------------------------------
(***************************************************************************)
(* A new line, and what is left to show of a step of the runtime.          *)
(***************************************************************************)
LEMMA NextLine ==
  ASSUME SessionInv, NEW l \in NextLines
  PROVE  l \in Source /\ l \in Lines
<1>1. PICK script \in Scripts : Len(session) < Len(script) /\ l \in script[Len(session) + 1]
  BY DEF NextLines
<1>2. /\ script \in Seq(SUBSET Source)
      /\ Len(session) \in Nat /\ Len(script) \in Nat /\ DOMAIN script = 1 .. Len(script)
  BY ForthAssumption, LenProperties DEF SessionInv, Source
<1>3. Len(session) + 1 \in DOMAIN script
  BY <1>1, <1>2
<1>4. script[Len(session) + 1] \in SUBSET Source
  BY <1>2, <1>3, ElementOfSeq
<1> QED  BY <1>1, <1>3, <1>4 DEF Lines

LEMMA ParseTypes ==
  ASSUME TypeInv, parse
  PROVE  TypeInv'
<1>0. HeapInv /\ OpenInv /\ ReaderInv /\ TableInv /\ TaskInv /\ SessionInv /\ status = "prompt"
  BY DEF TypeInv, parse
<1>1. /\ UNCHANGED <<string_buffer, dict, vartable, current_IF, current_DO, current_BEGIN,
                      program_stack, program_Stack_top, pcp, frames>>
      /\ status' = "parse" /\ checks' = AllChecks /\ state' = "EXPECTING_ANY"
      /\ program' = Len(heap) + 1 /\ current_PROG' = Len(heap) + 1 /\ MainTask
  BY DEF parse, names, openVars
<1>2. PICK l \in NextLines :
        line' = strtok(Append(l, NL)) /\ session' = Append(session, l)
  BY DEF parse
<1>3. l \in Source
  BY <1>0, NextLine
<1>4. Append(l, NL) \in Source
  BY <1>3, AppendProperties DEF Source
<1>5. SessionInv'
  BY <1>0, <1>2, <1>3, AppendProperties DEF SessionInv
<1>6. PICK place \in Placements : program_create(place)
  BY DEF parse
<1>7. /\ HeapInv' /\ HeapGrows
      /\ Len(heap) + 1 \in Programs'
  BY <1>0, <1>6, CreateStep
<1>8. Len(heap) <= Len(heap')
  BY <1>7 DEF HeapGrows
<1>9. OpenInv'
  <2>1. JumpIn(current_IF, heap) /\ PointerIn(current_DO, heap) /\ PointerIn(current_BEGIN, heap)
    BY <1>0 DEF OpenInv
  <2>2. JumpIn(current_IF, heap') /\ PointerIn(current_DO, heap') /\ PointerIn(current_BEGIN, heap')
    BY <1>0, <1>7, <2>1, PointersKept
  <2> QED  BY <1>1, <2>2 DEF OpenInv
<1>10. ReaderInv'
  <2>1. line' \in Source /\ (line' # << >> => Head(line') \in Words)
    BY <1>2, <1>4, StrtokType
  <2>2. program_stack' \in Seq(Interruptible')
    BY <1>0, <1>1, <1>8, ProgramsKept DEF ReaderInv
  <2> QED  BY <1>0, <1>1, <1>7, <2>1, <2>2 DEF ReaderInv, States, Interruptible
<1>11. TableInv'
  BY <1>0, <1>1, <1>8, ProgramsKept DEF TableInv
<1>12. TaskInv'
  <2>1. \/ UNCHANGED <<d_stack, r_stack, loops>>
        \/ d_stack' = << >> /\ r_stack' = << >> /\ loops' = ftask_create
    BY <1>1 DEF MainTask
  <2>2. ftask_create \in Loops /\ << >> \in Seq(Int) /\ Len(<< >>) = 0
    BY EmptySeq DEF ftask_create, Loops
  <2>3. 0 <= DStack /\ 0 <= RStack
    BY RuntimeAssumption
  <2>4. /\ d_stack' \in Seq(Int) /\ Len(d_stack') <= DStack
        /\ r_stack' \in Seq(Int) /\ Len(r_stack') <= RStack
        /\ loops' \in Loops
    <3>1. CASE UNCHANGED <<d_stack, r_stack, loops>>
      BY <1>0, <3>1 DEF TaskInv
    <3>2. CASE d_stack' = << >> /\ r_stack' = << >> /\ loops' = ftask_create
      BY <2>2, <2>3, <3>2
    <3> QED  BY <2>1, <3>1, <3>2
  <2>5. pcp' \in Int
    BY <1>0, <1>1 DEF TaskInv
  <2> QED  BY <2>4, <2>5 DEF TaskInv
<1>13. CallInv'
  <2>1. frames = << >> /\ prog_stack = << >> /\ frames' = << >> /\ prog_stack' = << >>
    BY <1>0, <1>1, NothingSaved DEF MainTask
  <2>2. frames' \in Seq(Frames(Programs')) /\ prog_stack' \in Seq(Programs')
    BY <2>1, EmptySeq
  <2>3. ProgramsSaved'
    BY <2>1 DEF TypeInv, CallInv, ProgramsSaved
  <2>4. Len(prog_stack') <= PStack
    BY <2>1, EmptySeq, RuntimeAssumption
  <2> QED  BY <1>1, <1>7, <2>1, <2>2, <2>3, <2>4 DEF CallInv, Dead
<1> QED  BY <1>5, <1>7, <1>9, <1>10, <1>11, <1>12, <1>13 DEF TypeInv

LEMMA TaskStep ==
  ASSUME TypeInv, UNCHANGED <<heapVars, compilerVars>>, session' = session,
         status' # "parse" \/ status = "parse",
         vartable' \in Seq(Entries), TaskInv', CallInv'
  PROVE  TypeInv'
<1>1. UNCHANGED <<heap, base, strings, line, checks, state, string_buffer, dict,
                  current_IF, current_DO, current_BEGIN, current_PROG, program_stack, program_Stack_top>>
  BY DEF heapVars, compilerVars, openVars
<1>2. Programs' = Programs
  BY <1>1 DEF Programs
<1>3. HeapInv' /\ OpenInv'
  BY <1>1, <1>2 DEF TypeInv, HeapInv, OpenInv, JumpIn, PointerIn
<1>4. ReaderInv' /\ TableInv' /\ SessionInv'
  BY <1>1, <1>2 DEF TypeInv, ReaderInv, TableInv, SessionInv, Interruptible
<1> QED  BY <1>3, <1>4 DEF TypeInv

LEMMA StartTypes ==
  ASSUME TypeInv, Start
  PROVE  TypeInv'
<1>1. /\ status = "parse" /\ status' = "run" /\ pcp' = base[program]
      /\ frames' = <<Frame("MAIN", program)>>
      /\ UNCHANGED <<heap, heapVars, compilerVars, vartable, program, d_stack, r_stack, loops,
                      prog_stack, session>>
  BY DEF Start, run_task, heapVars
<1>2. program \in Programs /\ prog_stack = << >> /\ base[program] \in Int
  BY <1>1, NothingSaved, HeapFacts DEF TypeInv, CallInv
<1>3. TaskInv' /\ vartable' \in Seq(Entries)
  BY <1>1, <1>2 DEF TypeInv, TaskInv, TableInv
<1>4. Programs' = Programs
  BY <1>1 DEF Programs
<1>5. CallInv'
  <2> DEFINE fr == Frame("MAIN", program)
  <2>1. fr \in Frames(Programs) /\ fr.kind = "MAIN"
    BY <1>2 DEF Frame, Frames, FrameKinds
  <2>2. frames' = <<fr>>
    BY <1>1
  <2> HIDE DEF fr
  <2>3. frames' \in Seq(Frames(Programs)) /\ frames'[1].kind = "MAIN" /\ frames' # << >> /\ Len(frames') = 1
    BY <2>1, <2>2
  <2>4. {k \in 1 .. Len(frames') : frames'[k].kind = "DICT"} = {}
    BY <2>1, <2>2, <2>3
  <2>5. ProgramsSaved'
    BY <1>1, <1>2, <2>4, FS_EmptySet DEF ProgramsSaved
  <2>6. prog_stack' \in Seq(Programs) /\ Len(prog_stack') <= PStack
    BY <1>1 DEF TypeInv, CallInv
  <2> QED  BY <1>1, <1>2, <1>4, <2>3, <2>5, <2>6 DEF CallInv, Dead
<1> QED  BY <1>1, <1>3, <1>5, TaskStep

(* What pcp points to.                                                     *)
LEMMA TokenFacts ==
  ASSUME HeapInv, NEW a \in Int, Points(a)
  PROVE  /\ Token(a) \in Tokens /\ Token(a).val \in Int
         /\ Token(a).op = "DICT" => Token(a).val \in Programs
<1>1. PICK p : p \in Programs /\ a \in Array(p) /\ Token(a) = heap[p][a - base[p] + 1]
  BY DEF Points, Token
<1>2. base[p] \in Int /\ Len(heap[p]) \in Nat
  BY <1>1, HeapFacts
<1>3. a - base[p] + 1 \in 1 .. Len(heap[p])
  BY <1>1, <1>2 DEF Array, End
<1> QED  BY <1>1, <1>3, HeapFacts

LEMMA Executing ==
  ASSUME TypeInv, NEW op, Executes(op)
  PROVE  /\ status = "run" /\ frames # << >> /\ program \in Programs /\ WithinStacks(op)
         /\ pcp \in Int /\ Points(pcp) /\ Token(pcp).op = op /\ Token(pcp).val \in Int
         /\ op = "DICT" => Token(pcp).val \in Programs
         /\ Len(d_stack) \in Nat /\ Len(r_stack) \in Nat
<1>1. status = "run" /\ WithinStacks(op) /\ Points(pcp) /\ Token(pcp).op = op
  BY DEF Executes, Running
<1>2. pcp \in Int /\ Len(d_stack) \in Nat /\ Len(r_stack) \in Nat
  BY LenProperties DEF TypeInv, TaskInv
<1>3. HeapInv
  BY DEF TypeInv
<1>4. Token(pcp).val \in Int /\ (op = "DICT" => Token(pcp).val \in Programs)
  BY <1>1, <1>2, <1>3, TokenFacts
<1>5. frames # << >> /\ program \in Programs
  BY <1>1 DEF TypeInv, CallInv
<1> QED  BY <1>1, <1>2, <1>4, <1>5

(* A handler that stays in its loop: the calls in progress are the same.   *)
LEMMA GotoStep ==
  ASSUME TypeInv, status = "run", status' \in {"run", "stray"}, NEW to \in Int, Goto(to),
         UNCHANGED <<compilerVars, session>>, vartable' \in Seq(Entries),
         d_stack' \in Seq(Int), Len(d_stack') <= DStack,
         r_stack' \in Seq(Int), Len(r_stack') <= RStack,
         loops' \in Loops
  PROVE  TypeInv'
<1>1. pcp' = to /\ frames' = Called /\ UNCHANGED <<heap, heapVars, program, prog_stack>>
  BY DEF Goto, heapVars
<1>2. /\ frames \in Seq(Frames(Programs)) /\ frames # << >>
      /\ program \in Programs /\ prog_stack \in Seq(Programs) /\ Len(prog_stack) <= PStack
      /\ frames[1].kind = "MAIN" /\ ProgramsSaved
  BY DEF TypeInv, CallInv
<1>3. /\ frames' \in Seq(Frames(Programs)) /\ frames' # << >>
      /\ frames'[1].kind = "MAIN" /\ DictFrames(frames') = DictFrames(frames)
  BY <1>1, <1>2, CalledFrames
<1>4. Programs' = Programs
  BY <1>1 DEF Programs
<1>5. ProgramsSaved'
  BY <1>1, <1>2, <1>3 DEF ProgramsSaved, DictFrames
<1>6. CallInv'
  BY <1>1, <1>2, <1>3, <1>4, <1>5 DEF CallInv, Dead
<1>7. TaskInv'
  BY <1>1 DEF TaskInv
<1> QED  BY <1>1, <1>6, <1>7, TaskStep

(* A handler that begins a nested call.                                    *)
LEMMA CallStep ==
  ASSUME TypeInv, status = "run", status' = "run",
         NEW kind \in FrameKinds, NEW p \in Programs,
         frames' = Append(Called, Frame(kind, p)), pcp' \in Int,
         prog_stack' = IF kind = "DICT" THEN Append(prog_stack, program) ELSE prog_stack,
         kind = "DICT" => Len(prog_stack) < PStack,
         UNCHANGED <<heapVars, vartable, program, loops, compilerVars, session>>,
         d_stack' \in Seq(Int), Len(d_stack') <= DStack,
         r_stack' \in Seq(Int), Len(r_stack') <= RStack
  PROVE  TypeInv'
<1>1. /\ frames \in Seq(Frames(Programs)) /\ frames # << >>
      /\ program \in Programs /\ prog_stack \in Seq(Programs) /\ Len(prog_stack) <= PStack
      /\ frames[1].kind = "MAIN" /\ ProgramsSaved
  BY DEF TypeInv, CallInv
<1> DEFINE fr == Frame(kind, p)
<1>2. fr \in Frames(Programs) /\ fr.kind = kind
  BY DEF Frame, Frames
<1>3. frames' = Append(Called, fr)
  OBVIOUS
<1> HIDE DEF fr
<1>4. /\ Called \in Seq(Frames(Programs)) /\ Called # << >>
      /\ Called[1].kind = "MAIN" /\ DictFrames(Called) = DictFrames(frames)
  BY <1>1, CalledFrames
<1>5. Len(Called) \in Nat \ {0}
  BY <1>4, EmptySeq
<1>6. /\ frames' \in Seq(Frames(Programs)) /\ Len(frames') = Len(Called) + 1
      /\ frames'[1] = Called[1]
  BY <1>2, <1>3, <1>4, <1>5, AppendProperties
<1>7. frames' # << >> /\ frames'[1].kind = "MAIN"
  <2>1. Len(frames') # 0 /\ Len(<< >>) = 0
    BY <1>5, <1>6
  <2>2. frames' # << >>
    BY <2>1
  <2> QED  BY <1>4, <1>6, <2>2
<1>8. Cardinality(DictFrames(frames')) =
        Cardinality(DictFrames(frames)) + IF kind = "DICT" THEN 1 ELSE 0
  BY <1>2, <1>3, <1>4, DictFramesPushed
<1>9. Cardinality(DictFrames(frames)) \in Nat /\ Len(prog_stack) = Cardinality(DictFrames(frames))
  BY <1>1, DictFramesFinite DEF ProgramsSaved, DictFrames
<1>10. prog_stack' \in Seq(Programs) /\ Len(prog_stack') = Len(prog_stack) + IF kind = "DICT" THEN 1 ELSE 0
  BY <1>1, <1>9, AppendProperties
<1>11. ProgramsSaved'
  BY <1>8, <1>9, <1>10 DEF ProgramsSaved, DictFrames
<1>12. Programs' = Programs
  BY DEF Programs, heapVars
<1>13. CallInv'
  <2>1. Len(prog_stack') <= PStack
    BY <1>1, <1>9, <1>10, RuntimeAssumption
  <2> QED  BY <1>1, <1>6, <1>7, <1>10, <1>11, <1>12, <2>1 DEF CallInv, Dead
<1>14. TaskInv' /\ vartable' \in Seq(Entries)
  BY DEF TypeInv, TaskInv, TableInv
<1> QED  BY <1>13, <1>14, TaskStep
-----------------------------------------------------------------------------
(***************************************************************************)
(* The handlers.                                                           *)
(***************************************************************************)
LEMMA DataStack ==
  ASSUME TypeInv
  PROVE  /\ \A n \in Nat : n <= Len(d_stack) =>
              /\ Popped(d_stack, n) \in Seq(Int)
              /\ Len(Popped(d_stack, n)) = Len(d_stack) - n
         /\ \A n \in Nat : n < Len(d_stack) => Below(n) \in Int
         /\ Len(d_stack) >= 1 => Top(d_stack) \in Int
         /\ Len(d_stack) >= 2 => d_stack[Len(d_stack) - 1] \in Int
         /\ Len(d_stack) <= DStack /\ DStack \in Nat
<1>1. d_stack \in Seq(Int) /\ Len(d_stack) \in Nat /\ Len(d_stack) <= DStack /\ DStack \in Nat
  BY LenProperties, RuntimeAssumption DEF TypeInv, TaskInv
<1>2. \A i \in 1 .. Len(d_stack) : d_stack[i] \in Int
  BY <1>1, ElementOfSeq
<1>3. \A n \in Nat : n < Len(d_stack) => Below(n) \in Int
  BY <1>1, <1>2 DEF Below
<1>4. \A n \in Nat : n <= Len(d_stack) =>
        Popped(d_stack, n) \in Seq(Int) /\ Len(Popped(d_stack, n)) = Len(d_stack) - n
  BY <1>1, PoppedProperties
<1> QED  BY <1>1, <1>2, <1>3, <1>4 DEF Top

LEMMA ReturnStack ==
  ASSUME TypeInv, r_stack # << >>
  PROVE  /\ Top(r_stack) \in Int
         /\ Popped(r_stack, 1) \in Seq(Int) /\ Len(Popped(r_stack, 1)) <= RStack
<1>1. r_stack \in Seq(Int) /\ Len(r_stack) <= RStack /\ RStack \in Nat
  BY RuntimeAssumption DEF TypeInv, TaskInv
<1>2. Len(r_stack) \in Nat \ {0} /\ Top(r_stack) \in Int
  BY <1>1, TopType
<1>3. 1 \in Nat /\ 1 <= Len(r_stack)
  BY <1>2
<1>4. Popped(r_stack, 1) \in Seq(Int) /\ Len(Popped(r_stack, 1)) = Len(r_stack) - 1
  BY <1>1, <1>3, PoppedProperties
<1> QED  BY <1>1, <1>2, <1>4

LEMMA Pushed ==
  ASSUME NEW s \in Seq(Int), NEW v \in Int, NEW max \in Nat, Len(s) < max
  PROVE  Append(s, v) \in Seq(Int) /\ Len(Append(s, v)) <= max
<1>1. Len(s) \in Nat
  BY LenProperties
<1> QED  BY <1>1, AppendProperties

(* A handler that pops n operands and pushes a value or none.              *)
LEMMA PopPushStep ==
  ASSUME TypeInv, NEW op, Executes(op), NEW n \in Nat, n <= Len(d_stack),
         \/ d_stack' = Popped(d_stack, n)
         \/ \E v \in Int : d_stack' = Append(Popped(d_stack, n), v) /\ Len(d_stack) - n < DStack,
         status' = status, NEW to \in Int, Goto(to),
         UNCHANGED <<compilerVars, session, loops>>, vartable' \in Seq(Entries),
         r_stack' \in Seq(Int), Len(r_stack') <= RStack
  PROVE  TypeInv'
<1>1. /\ Popped(d_stack, n) \in Seq(Int) /\ Len(Popped(d_stack, n)) = Len(d_stack) - n
      /\ Len(d_stack) <= DStack /\ DStack \in Nat /\ Len(d_stack) \in Nat
  BY DataStack, Executing
<1>2. d_stack' \in Seq(Int) /\ Len(d_stack') <= DStack
  <2>1. CASE d_stack' = Popped(d_stack, n)
    BY <1>1, <2>1
  <2>2. ASSUME NEW v \in Int, d_stack' = Append(Popped(d_stack, n), v), Len(d_stack) - n < DStack
        PROVE  d_stack' \in Seq(Int) /\ Len(d_stack') <= DStack
    BY <1>1, <2>2, Pushed
  <2> QED  BY <2>1, <2>2
<1>3. status = "run" /\ loops' \in Loops
  BY Executing DEF TypeInv, TaskInv
<1> QED  BY <1>2, <1>3, GotoStep

(* A handler that pushes a value.                                          *)
LEMMA PushStep ==
  ASSUME TypeInv, NEW op \in DPushed, Executes(op), NEW v \in Int, d_stack' = Append(d_stack, v),
         status' = status, NEW to \in Int, Jump(to),
         UNCHANGED <<compilerVars, session, loops, r_stack>>
  PROVE  TypeInv'
<1>1. Len(d_stack) < DStack /\ status = "run"
  BY Executing DEF WithinStacks
<1>2. d_stack \in Seq(Int) /\ DStack \in Nat
  BY DataStack DEF TypeInv, TaskInv
<1>3. d_stack' \in Seq(Int) /\ Len(d_stack') <= DStack
  BY <1>1, <1>2, Pushed
<1>4. /\ r_stack' \in Seq(Int) /\ Len(r_stack') <= RStack /\ loops' \in Loops
      /\ vartable' \in Seq(Entries) /\ Goto(to)
  BY DEF Jump, TypeInv, TaskInv, TableInv
<1> QED  BY <1>1, <1>3, <1>4, GotoStep

(* A handler that changes the loop stacks.                                 *)
LEMMA LoopStep ==
  ASSUME TypeInv, NEW op, Executes(op), NEW m \in Loops, LoopsBecome(m),
         NEW n \in Nat, n <= Len(d_stack), d_stack' = Popped(d_stack, n) \/ d_stack' = d_stack,
         NEW to \in Int, Jump(to), UNCHANGED <<compilerVars, session>>,
         \/ r_stack' = r_stack
         \/ r_stack # << >> /\ r_stack' = Popped(r_stack, 1)
         \/ Len(r_stack) < RStack /\ \E v \in Int : r_stack' = Append(r_stack, v)
  PROVE  TypeInv'
<1>1. status = "run" /\ status' \in {"run", "stray"} /\ loops' \in Loops
  BY Executing DEF LoopsBecome
<1>2. d_stack' \in Seq(Int) /\ Len(d_stack') <= DStack
  <2>1. d_stack \in Seq(Int) /\ Len(d_stack) \in Nat
    BY Executing DEF TypeInv, TaskInv
  <2> QED  BY <2>1, DataStack
<1>3. r_stack' \in Seq(Int) /\ Len(r_stack') <= RStack
  <2>1. r_stack \in Seq(Int) /\ Len(r_stack) <= RStack /\ RStack \in Nat
    BY RuntimeAssumption DEF TypeInv, TaskInv
  <2> QED  BY <2>1, ReturnStack, Pushed
<1>4. vartable' \in Seq(Entries) /\ Goto(to)
  BY DEF Jump, TypeInv, TableInv
<1> QED  BY <1>1, <1>2, <1>3, <1>4, GotoStep

(* A row of the table of variables.                                        *)
LEMMA VariableFacts ==
  ASSUME TableInv, NEW a \in Int, IsVar(a)
  PROVE  /\ Idx(a) \in 1 .. Len(vartable) /\ Var(a) \in Entries
         /\ Var(a).l \in Int /\ Var(a).sz \in Nat
         /\ \A i \in Int : InBlock(a, i) => Var(a).lp[i] \in Int
<1>1. Idx(a) \in 1 .. Len(vartable) /\ Var(a) = vartable[Idx(a)]
  BY LenProperties DEF IsVar, Idx, Var, TableInv
<1>2. Var(a) \in Entries
  BY <1>1, ElementOfSeq DEF TableInv
<1>3. Var(a).l \in Int /\ Var(a).sz \in Nat /\ Var(a).lp \in Blocks
  BY <1>2 DEF Entries
<1>4. \A i \in DOMAIN Var(a).lp : Var(a).lp[i] \in Int
  BY <1>3 DEF Blocks
<1> QED  BY <1>1, <1>2, <1>3, <1>4 DEF InBlock

(* ! !! and ALLOT leave a table of variables.                              *)
LEMMA StoredType ==
  ASSUME TableInv, NEW a \in Int, IsVar(a), NEW v \in Int
  PROVE  /\ Stored(a, v) \in Seq(Entries)
         /\ \A i \in Int : OutOfRange(a, i) \/ InBlock(a, i) => StoredAt(a, i, v) \in Seq(Entries)
         /\ Allotted(a, v) \in Seq(Entries)
<1>1. Idx(a) \in 1 .. Len(vartable) /\ Var(a) \in Entries /\ Var(a) = vartable[Idx(a)]
  BY VariableFacts DEF Var
<1>2. ASSUME NEW l \in Int, NEW lp \in Blocks
      PROVE  [vartable EXCEPT ![Idx(a)] = [Var(a) EXCEPT !.l = l, !.lp = lp]] \in Seq(Entries)
  <2>1. [Var(a) EXCEPT !.l = l, !.lp = lp] \in Entries
    BY <1>1 DEF Entries
  <2> QED  BY <1>1, <2>1, ExceptSeq DEF TableInv
<1>3. Stored(a, v) \in Seq(Entries)
  <2>1. [Var(a) EXCEPT !.l = v] \in Entries
    BY <1>1 DEF Entries
  <2>2. [vartable EXCEPT ![Idx(a)] = [Var(a) EXCEPT !.l = v]] \in Seq(Entries)
    BY <1>1, <2>1, ExceptSeq DEF TableInv
  <2> QED  BY <1>1, <2>2 DEF Stored
<1>4. ASSUME NEW i \in Int, OutOfRange(a, i) \/ InBlock(a, i)
      PROVE  StoredAt(a, i, v) \in Seq(Entries)
  <2>1. CASE OutOfRange(a, i)
    BY <2>1 DEF StoredAt, TableInv
  <2>2. CASE ~OutOfRange(a, i)
    <3>1. i \in DOMAIN Var(a).lp /\ Var(a).lp \in Blocks
      BY <1>1, <1>4, <2>2 DEF InBlock, Entries
    <3>2. [Var(a).lp EXCEPT ![i] = v] \in Blocks
      BY <3>1 DEF Blocks
    <3>3. [Var(a) EXCEPT !.lp = [Var(a).lp EXCEPT ![i] = v]] \in Entries
      BY <1>1, <3>2 DEF Entries
    <3>4. [vartable EXCEPT ![Idx(a)] = [Var(a) EXCEPT !.lp = [Var(a).lp EXCEPT ![i] = v]]]
            \in Seq(Entries)
      BY <1>1, <3>3, ExceptSeq DEF TableInv
    <3> QED  BY <1>1, <2>2, <3>4 DEF StoredAt
  <2> QED  BY <2>1, <2>2
<1>5. Allotted(a, v) \in Seq(Entries)
  <2> DEFINE lp == [i \in Block(v, Var(a).sz) |-> 0]
  <2>1. Block(v, Var(a).sz) \in SUBSET Int
    BY DEF Block
  <2>2. lp \in Blocks
    <3>1. lp \in [Block(v, Var(a).sz) -> Int]
      OBVIOUS
    <3> QED  BY <2>1, <3>1 DEF Blocks
  <2> HIDE DEF lp
  <2>3. [vartable EXCEPT ![Idx(a)] = [Var(a) EXCEPT !.l = v, !.lp = lp]] \in Seq(Entries)
    BY <1>2, <2>2
  <2> QED  BY <1>1, <2>3 DEF Allotted, lp
<1> QED  BY <1>3, <1>4, <1>5

LEMMA NumberTypes ==
  ASSUME TypeInv, cb_ef_number, UNCHANGED <<compilerVars, session>>
  PROVE  TypeInv'
<1>1. PICK op \in {"NUM", "STR", "VAR"} : Executes(op)
  BY DEF cb_ef_number
<1>2. op \in DPushed /\ Token(pcp).val \in Int /\ pcp + 1 \in Int
  BY <1>1, Executing DEF DPushed
<1> QED  BY <1>1, <1>2, PushStep DEF cb_ef_number

LEMMA IndexTypes ==
  ASSUME TypeInv, ef_i_cb, UNCHANGED <<compilerVars, session>>
  PROVE  TypeInv'
<1>1. Executes("I") /\ "I" \in DPushed
  BY DEF ef_i_cb, DPushed
<1>2. Get(loops, ll_tos(loops)) \in Int /\ pcp + 1 \in Int
  BY <1>1, Executing, GetType, TosType DEF TypeInv, TaskInv
<1> QED  BY <1>1, <1>2, PushStep DEF ef_i_cb

LEMMA DeferTypes ==
  ASSUME TypeInv, ef_defer, UNCHANGED <<compilerVars, session>>
  PROVE  TypeInv'
<1>1. Executes("DEFER") /\ "DEFER" \in DPushed
  BY DEF ef_defer, DPushed
<1>2. pcp + 1 \in Int /\ pcp + 2 \in Int
  BY <1>1, Executing
<1> QED  BY <1>1, <1>2, PushStep DEF ef_defer

(* The builtins that only compute.                                         *)
LEMMA ResultType ==
  ASSUME NEW op \in Pure, NEW x \in Int, NEW y \in Int
  PROVE  /\ Result(op, x, y) \in Seq(Int)
         /\ op \in DPushed => Len(Result(op, x, y)) = Operands(op) + 1
         /\ op \notin DPushed => Len(Result(op, x, y)) <= Operands(op)
         /\ Operands(op) \in Nat
<1>1. x + y \in Int /\ y * x \in Int /\ y + x \in Int
  OBVIOUS
<1>2. Bit(y < x) \in Int /\ Bit(x # 0) \in Int /\ Flag(y = x) \in Int /\ F_TRUE \in Int /\ F_FALSE \in Int
  BY DEF Bit, Flag, F_TRUE, F_FALSE
<1> DEFINE p == y * x
           b == Bit(y < x)
           f == Flag(y = x)
           n == Bit(x # 0)
<1> HIDE DEF p, b, f, n
<1>3. p \in Int /\ b \in Int /\ f \in Int /\ n \in Int
  BY <1>1, <1>2 DEF p, b, f, n
<1>4. CASE op = "DUP"
  <2>1. Result(op, x, y) = <<x, x>> /\ Operands(op) = 1 /\ op \in DPushed
    BY <1>4 DEF Result, Operands, DPushed
  <2>2. <<x, x>> \in Seq(Int) /\ Len(<<x, x>>) = 2
    OBVIOUS
  <2> QED  BY <2>1, <2>2
<1>5. CASE op = "DROP"
  <2>1. Result(op, x, y) = << >> /\ Operands(op) = 1 /\ op \notin DPushed
    BY <1>5 DEF Result, Operands, DPushed
  <2>2. << >> \in Seq(Int) /\ Len(<< >>) = 0
    BY EmptySeq
  <2> QED  BY <2>1, <2>2
<1>6. CASE op = "SWAP"
  <2>1. Result(op, x, y) = <<x, y>> /\ Operands(op) = 2 /\ op \notin DPushed
    BY <1>6 DEF Result, Operands, DPushed
  <2>2. <<x, y>> \in Seq(Int) /\ Len(<<x, y>>) = 2
    OBVIOUS
  <2> QED  BY <2>1, <2>2
<1>7. CASE op = "OVER"
  <2>1. Result(op, x, y) = <<y, x, y>> /\ Operands(op) = 2 /\ op \in DPushed
    BY <1>7 DEF Result, Operands, DPushed
  <2>2. <<y, x, y>> \in Seq(Int) /\ Len(<<y, x, y>>) = 3
    OBVIOUS
  <2> QED  BY <2>1, <2>2
<1>8. ASSUME NEW v \in Int, Result(op, x, y) = <<v>>, op \notin {"DUP", "DROP", "SWAP", "OVER"}
      PROVE  /\ Result(op, x, y) \in Seq(Int)
             /\ op \in DPushed => Len(Result(op, x, y)) = Operands(op) + 1
             /\ op \notin DPushed => Len(Result(op, x, y)) <= Operands(op)
             /\ Operands(op) \in Nat
  BY <1>8 DEF Operands, DPushed, Pure
<1>9. CASE op \in {"+", "*", "<", "=", "NOT", "TRUE", "FALSE"}
  <2>1. Result(op, x, y) \in {<<y + x>>, <<p>>, <<b>>, <<f>>, <<n>>, <<F_TRUE>>, <<F_FALSE>>}
    BY <1>9 DEF Result, p, b, f, n
  <2>2. \E v \in Int : Result(op, x, y) = <<v>>
    BY <1>1, <1>2, <1>3, <2>1
  <2> QED  BY <1>8, <1>9, <2>2
<1> QED  BY <1>4, <1>5, <1>6, <1>7, <1>9 DEF Pure

LEMMA PrimitiveTypes ==
  ASSUME TypeInv, ef_primitive, UNCHANGED <<compilerVars, session>>
  PROVE  TypeInv'
<1>1. /\ Jump(pcp + 1) /\ status' = status /\ loops' = loops
      /\ vartable' = vartable /\ Goto(pcp + 1)
  BY DEF ef_primitive, Jump
<1>2. /\ vartable' \in Seq(Entries) /\ TableInv /\ loops' \in Loops
      /\ r_stack \in Seq(Int) /\ Len(r_stack) <= RStack /\ RStack \in Nat /\ d_stack \in Seq(Int)
  BY <1>1, RuntimeAssumption DEF TypeInv, TableInv, TaskInv
<1>3. ASSUME NEW op \in Pure, Executes(op), d_stack' = Applied(op, d_stack), r_stack' = r_stack
      PROVE  TypeInv'
  <2> DEFINE x == IF d_stack = << >> THEN 0 ELSE Top(d_stack)
             y == IF Len(d_stack) < 2 THEN 0 ELSE d_stack[Len(d_stack) - 1]
             n == Operands(op)
  <2>1. /\ status = "run" /\ pcp + 1 \in Int /\ Len(d_stack) \in Nat
        /\ Len(d_stack) >= n /\ (op \in DPushed => Len(d_stack) < DStack)
    BY <1>3, Executing DEF WithinStacks
  <2>2. x \in Int /\ y \in Int
    <3>1. d_stack # << >> => Len(d_stack) >= 1
      BY <1>2, <2>1, EmptySeq
    <3> QED  BY <2>1, <3>1, DataStack
  <2> HIDE DEF x, y
  <2>3. /\ Result(op, x, y) \in Seq(Int) /\ n \in Nat
        /\ op \in DPushed => Len(Result(op, x, y)) = n + 1
        /\ op \notin DPushed => Len(Result(op, x, y)) <= n
    BY <2>2, ResultType
  <2> HIDE DEF n
  <2>4. /\ Popped(d_stack, n) \in Seq(Int) /\ Len(Popped(d_stack, n)) = Len(d_stack) - n
        /\ Len(d_stack) <= DStack /\ DStack \in Nat
    BY <2>1, <2>3, DataStack
  <2>5. d_stack' = Popped(d_stack, n) \o Result(op, x, y)
    BY <1>3 DEF Applied, x, y, n
  <2>6. Len(Result(op, x, y)) \in Nat
    BY <2>3, LenProperties
  <2>7. d_stack' \in Seq(Int) /\ Len(d_stack') = Len(d_stack) - n + Len(Result(op, x, y))
    <3> DEFINE kept == Popped(d_stack, n)
               left == Result(op, x, y)
    <3>1. kept \in Seq(Int) /\ left \in Seq(Int) /\ Len(kept) = Len(d_stack) - n
      BY <2>3, <2>4
    <3>2. d_stack' = kept \o left
      BY <2>5
    <3> HIDE DEF kept, left
    <3>3. Len(kept \o left) = Len(kept) + Len(left) /\ kept \o left \in Seq(Int)
      BY <3>1, ConcatProperties
    <3>4. d_stack' \in Seq(Int) /\ Len(d_stack') = Len(d_stack) - n + Len(left)
      BY <3>1, <3>2, <3>3
    <3> QED  BY <3>4 DEF left
  <2>8. Len(d_stack') <= DStack
    BY <2>1, <2>3, <2>4, <2>6, <2>7
  <2> QED  BY <1>1, <1>2, <1>3, <2>1, <2>7, <2>8, GotoStep
<1>4. ASSUME NEW op, Executes(op), NEW n \in Nat, n <= Len(d_stack),
             \/ d_stack' = Popped(d_stack, n)
             \/ \E v \in Int : d_stack' = Append(Popped(d_stack, n), v) /\ Len(d_stack) - n < DStack,
             r_stack' \in Seq(Int), Len(r_stack') <= RStack
      PROVE  TypeInv'
  <2>1. pcp + 1 \in Int
    BY <1>4, Executing
  <2> QED  BY <1>1, <1>2, <1>4, <2>1, PopPushStep
<1>5. ASSUME Executes("."), d_stack' = Popped(d_stack, 1), r_stack' = r_stack
      PROVE  TypeInv'
  <2>1. 1 \in Nat /\ 1 <= Len(d_stack)
    BY <1>5, Executing DEF WithinStacks, Operands
  <2> QED  BY <1>2, <1>4, <1>5, <2>1
<1>6. ASSUME Executes(">r"), d_stack' = Popped(d_stack, 1), r_stack' = Append(r_stack, Top(d_stack))
      PROVE  TypeInv'
  <2>1. 1 \in Nat /\ 1 <= Len(d_stack) /\ Len(r_stack) < RStack
    BY <1>6, Executing DEF WithinStacks, Operands, RPushed
  <2>2. Top(d_stack) \in Int
    BY <2>1, DataStack
  <2>3. r_stack' \in Seq(Int) /\ Len(r_stack') <= RStack
    BY <1>2, <1>6, <2>1, <2>2, Pushed
  <2> QED  BY <1>4, <1>6, <2>1, <2>3
<1>7. ASSUME Executes("@"), d_stack' = Append(Popped(d_stack, 1), Var(Below(0)).l), r_stack' = r_stack
      PROVE  TypeInv'
  <2>1. /\ 1 \in Nat /\ 0 \in Nat /\ 1 <= Len(d_stack) /\ 0 < Len(d_stack)
        /\ Len(d_stack) \in Nat /\ WithinStacks("@")
    BY <1>7, Executing DEF WithinStacks, Operands
  <2>2. IsVar(Below(0))
    BY <2>1 DEF WithinStacks, Dereferences, VarDepth
  <2>3. Below(0) \in Int /\ Len(d_stack) - 1 < DStack
    BY <2>1, DataStack
  <2>4. Var(Below(0)).l \in Int
    BY <1>2, <2>2, <2>3, VariableFacts
  <2> QED  BY <1>2, <1>4, <1>7, <2>1, <2>3, <2>4
<1>8. ASSUME Executes("@@"), r_stack' = r_stack,
             d_stack' = IF OutOfRange(Below(1), Below(0)) THEN Popped(d_stack, 2)
                        ELSE Append(Popped(d_stack, 2), Var(Below(1)).lp[Below(0)])
      PROVE  TypeInv'
  <2>1. /\ 2 \in Nat /\ 0 \in Nat /\ 1 \in Nat /\ 2 <= Len(d_stack) /\ 0 < Len(d_stack)
        /\ 1 < Len(d_stack) /\ Len(d_stack) \in Nat /\ WithinStacks("@@")
    BY <1>8, Executing DEF WithinStacks, Operands
  <2>2. VarDepth["@@"] = 1 /\ "@@" \in DOMAIN VarDepth
    BY DEF VarDepth
  <2>3. IsVar(Below(1)) /\ (OutOfRange(Below(1), Below(0)) \/ InBlock(Below(1), Below(0)))
    BY <2>1, <2>2 DEF WithinStacks, Dereferences
  <2>4. Below(0) \in Int /\ Below(1) \in Int /\ Len(d_stack) - 2 < DStack
    BY <2>1, DataStack
  <2>5. InBlock(Below(1), Below(0)) => Var(Below(1)).lp[Below(0)] \in Int
    BY <1>2, <2>3, <2>4, VariableFacts
  <2>6. \/ d_stack' = Popped(d_stack, 2)
        \/ \E v \in Int : d_stack' = Append(Popped(d_stack, 2), v) /\ Len(d_stack) - 2 < DStack
    BY <1>8, <2>3, <2>4, <2>5
  <2> QED  BY <1>2, <1>4, <1>8, <2>1, <2>6
<1> QED  BY <1>3, <1>5, <1>6, <1>7, <1>8 DEF ef_primitive

LEMMA StoreTypes ==
  ASSUME TypeInv, d_variable_store, UNCHANGED <<compilerVars, session>>
  PROVE  TypeInv'
<1>1. /\ Goto(pcp + 1) /\ UNCHANGED <<status, r_stack, loops>>
      /\ d_stack' = Popped(d_stack, Operands(Token(pcp).op))
  BY DEF d_variable_store
<1>2. /\ TableInv /\ r_stack' \in Seq(Int) /\ Len(r_stack') <= RStack
  BY <1>1 DEF TypeInv, TaskInv
<1>3. ASSUME NEW op, Executes(op), op \in {"!", "!!", "ALLOT"}, vartable' \in Seq(Entries)
      PROVE  TypeInv'
  <2>1. /\ Token(pcp).op = op /\ pcp + 1 \in Int /\ Operands(op) <= Len(d_stack)
    BY <1>3, Executing DEF WithinStacks
  <2>2. Operands(op) \in Nat
    BY <1>3 DEF Operands
  <2> QED  BY <1>1, <1>2, <1>3, <2>1, <2>2, PopPushStep
<1>4. ASSUME Executes("!"), vartable' = Stored(Below(1), Below(0))
      PROVE  TypeInv'
  <2>1. /\ 0 \in Nat /\ 1 \in Nat /\ 0 < Len(d_stack) /\ 1 < Len(d_stack) /\ WithinStacks("!")
    BY <1>4, Executing DEF WithinStacks, Operands
  <2>2. VarDepth["!"] = 1 /\ "!" \in DOMAIN VarDepth
    BY DEF VarDepth
  <2>3. IsVar(Below(1)) /\ Below(0) \in Int /\ Below(1) \in Int
    BY <2>1, <2>2, DataStack DEF WithinStacks, Dereferences
  <2> QED  BY <1>2, <1>3, <1>4, <2>3, StoredType
<1>5. ASSUME Executes("!!"), vartable' = StoredAt(Below(2), Below(1), Below(0))
      PROVE  TypeInv'
  <2>1. /\ 0 \in Nat /\ 1 \in Nat /\ 2 \in Nat /\ 0 < Len(d_stack) /\ 1 < Len(d_stack)
        /\ 2 < Len(d_stack) /\ WithinStacks("!!")
    BY <1>5, Executing DEF WithinStacks, Operands
  <2>2. VarDepth["!!"] = 2 /\ "!!" \in DOMAIN VarDepth /\ VarDepth["!!"] - 1 = 1
    BY DEF VarDepth
  <2>3. IsVar(Below(2)) /\ (OutOfRange(Below(2), Below(1)) \/ InBlock(Below(2), Below(1)))
    BY <2>1, <2>2 DEF WithinStacks, Dereferences
  <2>4. Below(0) \in Int /\ Below(1) \in Int /\ Below(2) \in Int
    BY <2>1, DataStack
  <2> QED  BY <1>2, <1>3, <1>5, <2>3, <2>4, StoredType
<1>6. ASSUME Executes("ALLOT"), vartable' = Allotted(Below(1), Below(0))
      PROVE  TypeInv'
  <2>1. /\ 0 \in Nat /\ 1 \in Nat /\ 0 < Len(d_stack) /\ 1 < Len(d_stack) /\ WithinStacks("ALLOT")
    BY <1>6, Executing DEF WithinStacks, Operands
  <2>2. VarDepth["ALLOT"] = 1 /\ "ALLOT" \in DOMAIN VarDepth
    BY DEF VarDepth
  <2>3. IsVar(Below(1)) /\ Below(0) \in Int /\ Below(1) \in Int
    BY <2>1, <2>2, DataStack DEF WithinStacks, Dereferences
  <2> QED  BY <1>2, <1>3, <1>6, <2>3, StoredType
<1> QED  BY <1>4, <1>5, <1>6 DEF d_variable_store

LEMMA StringExecTypes ==
  ASSUME TypeInv, d_string_exec, UNCHANGED <<compilerVars, session>>
  PROVE  TypeInv'
<1> DEFINE found == {name \in DOMAIN dict : Text(Below(0)) = <<name>>}
<1>1. /\ Executes("SEXEC") /\ d_stack' = Popped(d_stack, 1)
      /\ UNCHANGED <<status, r_stack, loops>>
  BY DEF d_string_exec
<1>2. /\ 1 \in Nat /\ 1 <= Len(d_stack) /\ status = "run" /\ pcp + 1 \in Int /\ HeapInv /\ TableInv
  BY <1>1, Executing DEF WithinStacks, Operands, TypeInv
<1>3. /\ d_stack' \in Seq(Int) /\ Len(d_stack') <= DStack
      /\ r_stack' \in Seq(Int) /\ Len(r_stack') <= RStack
  <2>1. Popped(d_stack, 1) \in Seq(Int) /\ Len(Popped(d_stack, 1)) = Len(d_stack) - 1
        /\ Len(d_stack) <= DStack /\ DStack \in Nat /\ Len(d_stack) \in Nat
    BY <1>1, <1>2, DataStack, Executing
  <2>2. r_stack' \in Seq(Int) /\ Len(r_stack') <= RStack
    BY <1>1 DEF TypeInv, TaskInv
  <2> QED  BY <1>1, <2>1, <2>2
<1>4. CASE found = {}
  <2>1. Jump(pcp + 1)
    BY <1>4 DEF d_string_exec
  <2>2. Goto(pcp + 1) /\ vartable' \in Seq(Entries) /\ loops' \in Loops
    BY <1>1, <2>1 DEF Jump, TypeInv, TableInv, TaskInv
  <2> QED  BY <1>1, <1>2, <1>3, <2>2, GotoStep
<1>5. CASE found # {}
  <2>1. /\ \E name \in found : frames' = Append(Called, Frame("SEXEC", dict[name])) /\ pcp' = base[dict[name]]
        /\ UNCHANGED <<heapVars, vartable, program, prog_stack>>
    BY <1>5 DEF d_string_exec
  <2>2. PICK name \in found : frames' = Append(Called, Frame("SEXEC", dict[name])) /\ pcp' = base[dict[name]]
    BY <2>1
  <2>3. dict[name] \in Programs /\ pcp' \in Int
    BY <1>2, <2>2, HeapFacts DEF TableInv
  <2>4. "SEXEC" \in FrameKinds /\ prog_stack' = IF "SEXEC" = "DICT" THEN Append(prog_stack, program) ELSE prog_stack
    BY <2>1 DEF FrameKinds
  <2> QED  BY <1>1, <1>2, <1>3, <2>1, <2>2, <2>3, <2>4, CallStep
<1> QED  BY <1>4, <1>5

LEMMA LoopTypes ==
  ASSUME TypeInv, ef_do \/ ef_loop_end \/ ef_begin \/ ef_again \/ ef_until,
         UNCHANGED <<compilerVars, session>>
  PROVE  TypeInv'
<1>1. loops \in Loops /\ 0 \in Nat /\ 1 \in Nat /\ 2 \in Nat
  BY DEF TypeInv, TaskInv
<1>2. lu_tos(loops) \in Int /\ ll_tos(loops) \in Int /\ Add(loops, ll_tos(loops), 1) \in Loops
  BY <1>1, TosType, AddType
<1>3. \A op : Executes(op) => /\ pcp + 1 \in Int /\ WithinStacks(op) /\ Len(d_stack) \in Nat
                              /\ Len(d_stack) >= Operands(op)
  BY Executing DEF WithinStacks
<1>4. \A op \in RPushed : Executes(op) => Len(r_stack) < RStack
  BY <1>3 DEF WithinStacks
<1>5. \A op \in RRead : Executes(op) => r_stack # << >> /\ Top(r_stack) \in Int
  BY <1>3, ReturnStack DEF WithinStacks
<1>6. CASE ef_do
  <2>1. /\ Executes("DO") /\ d_stack' = Popped(d_stack, 2) /\ r_stack' = Append(r_stack, pcp + 1)
        /\ Jump(pcp + 1)
        /\ LoopsBecome(EnterLoop(loops, Top(d_stack), d_stack[Len(d_stack) - 1]))
    BY <1>6 DEF ef_do
  <2>2. 2 <= Len(d_stack) /\ Len(r_stack) < RStack /\ pcp + 1 \in Int
    BY <1>3, <1>4, <2>1 DEF Operands, RPushed
  <2>3. Top(d_stack) \in Int /\ d_stack[Len(d_stack) - 1] \in Int
    BY <1>3, <2>1, <2>2, DataStack
  <2>4. EnterLoop(loops, Top(d_stack), d_stack[Len(d_stack) - 1]) \in Loops
    BY <1>1, <2>3, EnterLoopType
  <2> QED  BY <1>1, <2>1, <2>2, <2>4, LoopStep
<1>7. CASE ef_loop_end
  <2> DEFINE m == Add(loops, ll_tos(loops), 1)
  <2>1. /\ Executes("LOOP") /\ d_stack' = d_stack
        /\ \/ LoopsBecome(LeaveLoop(m)) /\ r_stack' = Popped(r_stack, 1) /\ Jump(pcp + 1)
           \/ LoopsBecome(m) /\ r_stack' = r_stack /\ Jump(Top(r_stack))
    BY <1>7 DEF ef_loop_end
  <2>2. r_stack # << >> /\ Top(r_stack) \in Int /\ pcp + 1 \in Int /\ 0 <= Len(d_stack)
    BY <1>3, <1>5, <2>1 DEF RRead
  <2>3. m \in Loops /\ LeaveLoop(m) \in Loops
    BY <1>2, LeaveLoopType
  <2> HIDE DEF m
  <2>4. CASE LoopsBecome(LeaveLoop(m)) /\ r_stack' = Popped(r_stack, 1) /\ Jump(pcp + 1)
    BY <1>1, <2>1, <2>2, <2>3, <2>4, LoopStep
  <2>5. CASE LoopsBecome(m) /\ r_stack' = r_stack /\ Jump(Top(r_stack))
    BY <1>1, <2>1, <2>2, <2>3, <2>5, LoopStep
  <2> QED  BY <2>1, <2>4, <2>5
<1>8. CASE ef_begin
  <2>1. /\ Executes("BEGIN") /\ d_stack' = d_stack /\ r_stack' = Append(r_stack, pcp + 1)
        /\ Jump(pcp + 1) /\ LoopsBecome(Set(loops, ll_tos(loops), 0))
    BY <1>8 DEF ef_begin
  <2>2. 0 <= Len(d_stack) /\ Len(r_stack) < RStack /\ pcp + 1 \in Int
    BY <1>3, <1>4, <2>1 DEF RPushed
  <2>3. Set(loops, ll_tos(loops), 0) \in Loops
    BY <1>1, <1>2, SetType
  <2> QED  BY <1>1, <2>1, <2>2, <2>3, LoopStep
<1>9. CASE ef_again
  <2>1. /\ Executes("AGAIN") /\ d_stack' = d_stack /\ r_stack' = r_stack
        /\ Jump(Top(r_stack)) /\ LoopsBecome(Add(loops, ll_tos(loops), 1))
    BY <1>9 DEF ef_again
  <2>2. 0 <= Len(d_stack) /\ Top(r_stack) \in Int
    BY <1>3, <1>5, <2>1 DEF RRead
  <2> QED  BY <1>1, <1>2, <2>1, <2>2, LoopStep
<1>10. CASE ef_until
  <2>1. /\ Executes("UNTIL") /\ d_stack' = Popped(d_stack, 1)
        /\ LoopsBecome(Add(loops, ll_tos(loops), 1))
        /\ \/ r_stack' = Popped(r_stack, 1) /\ Jump(pcp + 1)
           \/ r_stack' = r_stack /\ Jump(Top(r_stack))
    BY <1>10 DEF ef_until
  <2>2. 1 <= Len(d_stack) /\ r_stack # << >> /\ Top(r_stack) \in Int /\ pcp + 1 \in Int
    BY <1>3, <1>5, <2>1 DEF RRead, Operands
  <2>3. CASE r_stack' = Popped(r_stack, 1) /\ Jump(pcp + 1)
    BY <1>1, <1>2, <2>1, <2>2, <2>3, LoopStep
  <2>4. CASE r_stack' = r_stack /\ Jump(Top(r_stack))
    BY <1>1, <1>2, <2>1, <2>2, <2>4, LoopStep
  <2> QED  BY <2>1, <2>3, <2>4
<1> QED  BY <1>6, <1>7, <1>8, <1>9, <1>10

LEMMA BranchTypes ==
  ASSUME TypeInv, ef_if \/ ef_else \/ ef_then \/ ef_exit, UNCHANGED <<compilerVars, session>>
  PROVE  TypeInv'
<1>1. /\ vartable \in Seq(Entries) /\ loops \in Loops
      /\ r_stack \in Seq(Int) /\ Len(r_stack) <= RStack /\ 0 \in Nat /\ 1 \in Nat
  BY DEF TypeInv, TableInv, TaskInv
<1>2. ASSUME NEW op, Executes(op), NEW to \in Int, Jump(to),
             UNCHANGED <<status, d_stack, r_stack, loops>>
      PROVE  TypeInv'
  <2>1. status = "run" /\ d_stack' \in Seq(Int) /\ Len(d_stack') <= DStack
    BY <1>2, Executing DEF TypeInv, TaskInv
  <2> QED  BY <1>1, <1>2, <2>1, GotoStep DEF Jump
<1>3. CASE ef_if
  <2>1. /\ Executes("IF") /\ d_stack' = Popped(d_stack, 1)
        /\ Jump(pcp + IF Top(d_stack) = F_TRUE THEN 1 ELSE Token(pcp).val)
        /\ UNCHANGED <<status, r_stack, loops>>
    BY <1>3 DEF ef_if
  <2>2. /\ 1 <= Len(d_stack) /\ pcp + (IF Top(d_stack) = F_TRUE THEN 1 ELSE Token(pcp).val) \in Int
    BY <2>1, Executing DEF WithinStacks, Operands
  <2> QED  BY <1>1, <2>1, <2>2, PopPushStep DEF Jump
<1>4. CASE ef_else
  <2>1. Executes("ELSE") /\ Jump(pcp + Token(pcp).val) /\ UNCHANGED <<status, d_stack, r_stack, loops>>
    BY <1>4 DEF ef_else
  <2>2. pcp + Token(pcp).val \in Int
    BY <2>1, Executing
  <2> QED  BY <1>2, <2>1, <2>2
<1>5. CASE ef_then
  <2>1. Executes("THEN") /\ Jump(pcp + 1) /\ UNCHANGED <<status, d_stack, r_stack, loops>>
    BY <1>5 DEF ef_then
  <2>2. pcp + 1 \in Int
    BY <2>1, Executing
  <2> QED  BY <1>2, <2>1, <2>2
<1>6. CASE ef_exit
  <2>1. Executes("EXIT") /\ Jump(End(frame.prog)) /\ UNCHANGED <<status, d_stack, r_stack, loops>>
    BY <1>6 DEF ef_exit
  <2>2. frames \in Seq(Frames(Programs)) /\ frames # << >> /\ HeapInv
    BY <2>1, Executing DEF TypeInv, CallInv
  <2>3. frame \in Frames(Programs)
    BY <2>2, TopType DEF frame
  <2>4. frame.prog \in Programs
    BY <2>3 DEF Frames
  <2>5. End(frame.prog) \in Int
    BY <2>2, <2>4, HeapFacts DEF End
  <2> QED  BY <1>2, <2>1, <2>5
<1> QED  BY <1>3, <1>4, <1>5, <1>6

LEMMA CallTypes ==
  ASSUME TypeInv, ef_dict_entry \/ ef_exec, UNCHANGED <<compilerVars, session>>
  PROVE  TypeInv'
<1>1. /\ r_stack \in Seq(Int) /\ RStack \in Nat /\ d_stack \in Seq(Int) /\ Len(d_stack) <= DStack
      /\ 1 \in Nat /\ HeapInv /\ DStack \in Nat
  BY RuntimeAssumption DEF TypeInv, TaskInv
<1>2. CASE ef_dict_entry
  <2>1. /\ Executes("DICT") /\ r_stack' = Append(r_stack, pcp)
        /\ prog_stack' = Append(prog_stack, program)
        /\ frames' = Append(Called, Frame("DICT", Token(pcp).val))
        /\ pcp' = base[Token(pcp).val]
        /\ UNCHANGED <<heapVars, vartable, status, program, d_stack, loops>>
    BY <1>2 DEF ef_dict_entry
  <2>2. /\ status = "run" /\ pcp \in Int /\ Token(pcp).val \in Programs /\ Len(r_stack) < RStack
        /\ Len(prog_stack) < PStack
    BY <2>1, Executing DEF WithinStacks, RPushed
  <2>3. r_stack' \in Seq(Int) /\ Len(r_stack') <= RStack
    BY <1>1, <2>1, <2>2, Pushed
  <2>4. pcp' \in Int
    BY <1>1, <2>1, <2>2, HeapFacts
  <2>5. "DICT" \in FrameKinds /\ prog_stack' = IF "DICT" = "DICT" THEN Append(prog_stack, program) ELSE prog_stack
    BY <2>1 DEF FrameKinds
  <2> QED  BY <1>1, <2>1, <2>2, <2>3, <2>4, <2>5, CallStep
<1>3. CASE ef_exec
  <2>1. /\ Executes("EXEC") /\ r_stack' = Append(r_stack, pcp)
        /\ d_stack' = Popped(d_stack, 1)
        /\ frames' = Append(Called, Frame("EXEC", frame.prog))
        /\ pcp' = Top(d_stack)
        /\ UNCHANGED <<heapVars, vartable, status, program, loops, prog_stack>>
    BY <1>3 DEF ef_exec
  <2>2. /\ status = "run" /\ pcp \in Int /\ Len(r_stack) < RStack /\ 1 <= Len(d_stack) /\ Len(d_stack) \in Nat
    BY <2>1, Executing DEF WithinStacks, RPushed, Operands
  <2>3. r_stack' \in Seq(Int) /\ Len(r_stack') <= RStack
    BY <1>1, <2>1, <2>2, Pushed
  <2>4. /\ pcp' \in Int /\ d_stack' \in Seq(Int) /\ Len(d_stack') = Len(d_stack) - 1
    BY <1>1, <2>1, <2>2, DataStack
  <2>5. "EXEC" \in FrameKinds /\ prog_stack' = IF "EXEC" = "DICT" THEN Append(prog_stack, program) ELSE prog_stack
    BY <2>1 DEF FrameKinds
  <2>6. frames \in Seq(Frames(Programs)) /\ frames # << >>
    BY <2>1, Executing DEF TypeInv, CallInv
  <2>7. frame \in Frames(Programs)
    BY <2>6, TopType DEF frame
  <2>8. frame.prog \in Programs
    BY <2>7 DEF Frames
  <2>9. Len(d_stack') <= DStack
    BY <1>1, <2>2, <2>4
  <2> QED  BY <2>1, <2>2, <2>3, <2>4, <2>5, <2>8, <2>9, CallStep
<1> QED  BY <1>2, <1>3

LEMMA ReturnTypes ==
  ASSUME TypeInv, Return, UNCHANGED <<compilerVars, session>>
  PROVE  TypeInv'
<1>1. /\ status = "run" /\ Len(frames) > 1 /\ frames' = Popped(frames, 1)
      /\ UNCHANGED <<heap, heapVars, vartable, d_stack, loops>>
  BY DEF Return, heapVars
<1>2. /\ frames \in Seq(Frames(Programs)) /\ prog_stack \in Seq(Programs) /\ program \in Programs
      /\ frames[1].kind = "MAIN" /\ Len(prog_stack) = Cardinality(DictFrames(frames))
      /\ Len(frames) \in Nat /\ frames # << >>
  BY <1>1, LenProperties DEF TypeInv, CallInv, ProgramsSaved, DictFrames
<1>3. /\ frames' \in Seq(Frames(Programs)) /\ Len(frames') = Len(frames) - 1
      /\ \A i \in 1 .. (Len(frames) - 1) : frames'[i] = frames[i]
  <2>1. 1 \in Nat /\ 1 <= Len(frames)
    BY <1>1, <1>2
  <2> QED  BY <1>1, <1>2, <2>1, PoppedProperties
<1>4. frames'[1].kind = "MAIN" /\ frames' # << >>
  <2>1. Len(frames') # 0 /\ Len(<< >>) = 0
    BY <1>1, <1>2, <1>3
  <2>2. frames' # << >>
    BY <2>1
  <2> QED  BY <1>1, <1>2, <1>3, <2>2
<1>5. Cardinality(DictFrames(frames')) =
        Cardinality(DictFrames(frames)) - IF frame.kind = "DICT" THEN 1 ELSE 0
  BY <1>1, <1>2, DictFramesPopped DEF frame
<1>6. Programs' = Programs
  BY <1>1 DEF Programs
<1>7. /\ program' \in Programs /\ prog_stack' \in Seq(Programs)
      /\ Len(prog_stack') = Len(prog_stack) - IF frame.kind = "DICT" THEN 1 ELSE 0
  <2>1. CASE frame.kind = "DICT"
    <3>1. program' = Top(prog_stack) /\ prog_stack' = Popped(prog_stack, 1)
      BY <2>1 DEF Return
    <3>2. Len(frames) \in DictFrames(frames)
      BY <1>1, <1>2, <2>1 DEF DictFrames, frame, Top
    <3>3. IsFiniteSet(DictFrames(frames)) /\ Cardinality(DictFrames(frames)) \in Nat
      BY <1>2, DictFramesFinite
    <3>4. Cardinality(DictFrames(frames)) # 0
      BY <3>2, <3>3, FS_EmptySet
    <3>5. prog_stack # << >> /\ 1 <= Len(prog_stack) /\ 1 \in Nat
      <4>1. Len(prog_stack) # 0 /\ Len(<< >>) = 0
        BY <1>2, <3>4
      <4>2. prog_stack # << >>
        BY <4>1
      <4> QED  BY <1>2, <3>3, <3>4, <4>2
    <3>6. Top(prog_stack) \in Programs
      BY <1>2, <3>5, TopType
    <3>7. Popped(prog_stack, 1) \in Seq(Programs) /\ Len(Popped(prog_stack, 1)) = Len(prog_stack) - 1
      BY <1>2, <3>5, PoppedProperties
    <3> QED  BY <2>1, <3>1, <3>6, <3>7
  <2>2. CASE frame.kind # "DICT"
    <3>1. program' = program /\ prog_stack' = prog_stack
      BY <2>2 DEF Return
    <3>2. Len(prog_stack) \in Nat
      BY <1>2, LenProperties
    <3> QED  BY <1>2, <2>2, <3>1, <3>2
  <2> QED  BY <2>1, <2>2
<1>8. ProgramsSaved'
  BY <1>2, <1>5, <1>7 DEF ProgramsSaved, DictFrames
<1>9. /\ status' \in {"run", "stray"} /\ pcp' \in Int
      /\ r_stack' \in Seq(Int) /\ Len(r_stack') <= RStack
  <2>1. /\ pcp \in Int /\ r_stack \in Seq(Int) /\ Len(r_stack) <= RStack
    BY DEF TypeInv, TaskInv
  <2>2. CASE frame.kind = "SEXEC"
    <3>1. Left \in Int
      BY <2>1 DEF Left, NullArray, StringArea
    <3> QED  BY <1>1, <2>1, <2>2, <3>1 DEF Return
  <2>3. CASE frame.kind # "SEXEC" /\ r_stack # << >>
    <3>1. pcp' = Top(r_stack) + 1 /\ r_stack' = Popped(r_stack, 1) /\ status' = status
      BY <2>3 DEF Return
    <3> QED  BY <1>1, <2>3, <3>1, ReturnStack
  <2>4. CASE frame.kind # "SEXEC" /\ r_stack = << >>
    BY <2>1, <2>4 DEF Return
  <2> QED  BY <2>2, <2>3, <2>4
<1>10. CallInv'
  <2>1. Len(prog_stack) \in Nat /\ Len(prog_stack) <= PStack
    BY <1>2, LenProperties DEF TypeInv, CallInv
  <2>2. Len(prog_stack') <= PStack
    BY <1>7, <2>1, RuntimeAssumption
  <2> QED  BY <1>3, <1>4, <1>6, <1>7, <1>8, <1>9, <2>2 DEF CallInv, Dead
<1>11. TaskInv' /\ vartable' \in Seq(Entries)
  BY <1>1, <1>9 DEF TypeInv, TaskInv, TableInv
<1>12. status' # "parse"
  BY <1>9
<1> QED  BY <1>1, <1>10, <1>11, <1>12, TaskStep

LEMMA FinishTypes ==
  ASSUME TypeInv, Finish, UNCHANGED <<compilerVars, session>>
  PROVE  TypeInv'
<1>1. /\ status = "run" /\ Len(frames) = 1 /\ status' = "prompt" /\ frames' = << >>
      /\ UNCHANGED <<heap, heapVars, vartable, program, pcp, d_stack, r_stack, loops, prog_stack>>
  BY DEF Finish, heapVars
<1>2. /\ prog_stack \in Seq(Programs) /\ frames[1].kind = "MAIN"
      /\ Len(prog_stack) = Cardinality({k \in 1 .. Len(frames) : frames[k].kind = "DICT"})
  <2>1. frames # << >>
    BY <1>1 DEF TypeInv, CallInv
  <2> QED  BY <2>1 DEF TypeInv, CallInv, ProgramsSaved
<1>3. {k \in 1 .. Len(frames) : frames[k].kind = "DICT"} = {}
  BY <1>1, <1>2
<1>4. {k \in 1 .. Len(frames') : frames'[k].kind = "DICT"} = {}
  BY <1>1
<1>5. ProgramsSaved'
  BY <1>1, <1>2, <1>3, <1>4 DEF ProgramsSaved
<1>6. Programs' = Programs
  BY <1>1 DEF Programs
<1>7. CallInv'
  <2>1. Len(prog_stack') <= PStack
    BY <1>1 DEF TypeInv, CallInv
  <2> QED  BY <1>1, <1>2, <1>5, <1>6, <2>1, EmptySeq DEF CallInv, Dead
<1>8. TaskInv' /\ vartable' \in Seq(Entries)
  BY <1>1 DEF TypeInv, TaskInv, TableInv
<1> QED  BY <1>1, <1>7, <1>8, TaskStep

LEMMA FaultTypes ==
  ASSUME TypeInv, Fetch \/ Overrun, UNCHANGED <<compilerVars, session>>
  PROVE  TypeInv'
<1>1. /\ status = "run" /\ status' \in Dead
      /\ UNCHANGED <<heap, heapVars, vartable, taskVars>>
  BY DEF Fetch, Overrun, Running, heapVars, Dead
<1>2. Programs' = Programs
  BY <1>1 DEF Programs
<1>3. CallInv'
  BY <1>1, <1>2 DEF TypeInv, CallInv, ProgramsSaved, taskVars, Dead
<1>4. TaskInv' /\ vartable' \in Seq(Entries)
  BY <1>1 DEF TypeInv, TaskInv, TableInv, taskVars
<1>5. status' # "parse"
  BY <1>1 DEF Dead
<1> QED  BY <1>1, <1>3, <1>4, <1>5, TaskStep

LEMMA RunTypes ==
  ASSUME TypeInv, Run
  PROVE  TypeInv'
<1>1. Execute /\ UNCHANGED <<compilerVars, session>>
  BY DEF Run
<1>2. CASE cb_ef_number \/ ef_i_cb \/ ef_defer
  BY <1>1, <1>2, NumberTypes, IndexTypes, DeferTypes
<1>3. CASE ef_primitive \/ d_variable_store \/ d_string_exec
  BY <1>1, <1>3, PrimitiveTypes, StoreTypes, StringExecTypes
<1>4. CASE ef_do \/ ef_loop_end \/ ef_begin \/ ef_again \/ ef_until
  BY <1>1, <1>4, LoopTypes
<1>5. CASE ef_if \/ ef_else \/ ef_then \/ ef_exit
  BY <1>1, <1>5, BranchTypes
<1>6. CASE ef_dict_entry \/ ef_exec \/ Return \/ Finish
  BY <1>1, <1>6, CallTypes, ReturnTypes, FinishTypes
<1>7. CASE Fetch \/ Overrun
  BY <1>1, <1>7, FaultTypes
<1> QED  BY <1>1, <1>2, <1>3, <1>4, <1>5, <1>6, <1>7 DEF Execute
-----------------------------------------------------------------------------
(***************************************************************************)
(* The theorems.                                                           *)
(***************************************************************************)
LEMMA NextTypes == TypeInv /\ [Next]_vars => TypeInv'
<1> SUFFICES ASSUME TypeInv, [Next]_vars PROVE TypeInv'
  OBVIOUS
<1>1. CASE UNCHANGED vars
  <2>1. /\ UNCHANGED <<status, heap, base, strings, vartable, line, checks, state, string_buffer, dict,
                        current_IF, current_DO, current_BEGIN, current_PROG, program_stack, program_Stack_top>>
        /\ UNCHANGED <<program, pcp, d_stack, r_stack, loops, prog_stack, frames, session>>
    BY <1>1 DEF vars, heapVars, compilerVars, openVars, taskVars
  <2>2. Programs' = Programs
    BY <2>1 DEF Programs
  <2>3. CallInv' /\ TaskInv'
    BY <2>1, <2>2 DEF TypeInv, CallInv, TaskInv, ProgramsSaved
  <2>4. vartable' \in Seq(Entries)
    BY <2>1 DEF TypeInv, TableInv
  <2> QED  BY <1>1, <2>1, <2>3, <2>4, TaskStep DEF vars
<1>2. CASE parse
  BY <1>2, ParseTypes
<1>3. CASE Compile
  BY <1>3, CompileTypes
<1>4. CASE Start
  BY <1>4, StartTypes
<1>5. CASE Run
  BY <1>5, RunTypes
<1> QED  BY <1>1, <1>2, <1>3, <1>4, <1>5 DEF Next

(* The inductive invariant holds.                                          *)
THEOREM Inductive == Spec => []TypeInv
<1> QED  BY InitTypes, NextTypes, PTL DEF Spec

(* Every variable keeps its type: a DICT token and the dictionary lead to  *)
(* programs, the open control structures to tokens or nowhere, what ":"     *)
(* interrupted is a program or the NULL below them, and no stack of the    *)
(* task grows beyond its array before the model stops.                     *)
THEOREM TypesHold == Spec => []TypeOK
<1> QED  BY Inductive, InvImpliesTypeOK, PTL

(* prog_stack holds one program for every colon word in progress, however  *)
(* the words are left: run_prog pops what it pushed.  This reaches as far  *)
(* as the model does, which stops before the call that would write behind  *)
(* the last entry, the 129th, over prog_top.                               *)
THEOREM SavedOncePerCall == Spec => []ProgramsSaved
<1>1. TypeInv => ProgramsSaved
  BY DEF TypeInv, CallInv
<1> QED  BY <1>1, Inductive, PTL
=============================================================================
