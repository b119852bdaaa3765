--------------------------- MODULE BuiltinsProofs ---------------------------
(***************************************************************************)
(* Proofs about the index of builtins and the words it leads to.           *)
(*                                                                         *)
(* builtin_lookup is right, up to the last word, for every index: the word *)
(* asked for, if it is there at all, stays between lo and hi.  And the     *)
(* stack words, from their names to the array, do what ForthStack          *)
(* promises, for every index, depth of the stack and range of a long.      *)
(***************************************************************************)
EXTENDS Builtins, TLAPS, SequenceTheorems

(***************************************************************************)
(* The search.                                                             *)
(***************************************************************************)
USE DEF Opcodes

LEMMA Size == N_builtins \in Nat \ {0}
  BY IndexAssumption

LEMMA NamesAreKeys == \A i \in Opcodes : name(i) \in Keys
  BY IndexAssumption DEF name

LEMMA Sorted ==
  /\ \A i, j \in Opcodes : i < j => Rank[name(i)] < Rank[name(j)]
  /\ \A k \in Keys : Rank[k] \in Int
  BY IndexAssumption

LEMMA Distinct == \A k, l \in Keys : Rank[k] = Rank[l] => k = l
  BY IndexAssumption

LEMMA OpcodesInIndex == \A i \in Opcodes : IDX_builtins[i] \in Opcodes
  BY IndexAssumption

LEMMA Half ==
  ASSUME NEW a \in Int, NEW b \in Int, a < b
  PROVE  LET m == (b + a) \div 2 IN m \in Int /\ a <= m /\ m < b /\ (b - a > 1 => a < m)
  OBVIOUS

USE Size

Between ==
  pc = "looking" =>
    /\ N_builtins > 1 => lo < hi
    /\ N_builtins = 1 => lo = hi
    /\ \A i \in 0 .. (N_builtins - 2) : name(i) = key => lo <= i /\ i < hi

IndexInv == IndexTypeOK /\ Between /\ LookupDecides

LEMMA MiddleLies ==
  ASSUME IndexTypeOK, hi > lo
  PROVE  Middle \in Opcodes /\ lo <= Middle /\ Middle < hi /\ (hi - lo > 1 => lo < Middle)
<1>1. lo \in Int /\ hi \in Int /\ lo < hi
  BY DEF IndexTypeOK
<1>2. Middle \in Int /\ lo <= Middle /\ Middle < hi /\ (hi - lo > 1 => lo < Middle)
  BY <1>1, Half DEF Middle
<1> QED
  BY <1>1, <1>2 DEF IndexTypeOK

LEMMA IndexInvInit == IndexInit => IndexInv
  BY DEF IndexInit, IndexInv, IndexTypeOK, Between, LookupDecides

(* The half that is given up does not hold the key.                        *)
LEMMA NarrowKeeps ==
  ASSUME IndexInv, Narrow
  PROVE  IndexInv' /\ hi' - lo' < hi - lo /\ hi' > lo'
<1> USE DEF IndexInv, IndexTypeOK, Narrow, LastTwo
<1>1. Middle \in Opcodes /\ lo < Middle /\ Middle < hi
  BY MiddleLies
<1>2. N_builtins > 1
  OBVIOUS
<1>3. ASSUME NEW i \in 0 .. (N_builtins - 2), name(i) = key'
      PROVE  lo' <= i /\ i < hi'
  <2>1. lo <= i /\ i < hi /\ name(i) = key
    BY <1>3 DEF Between
  <2>2. CASE Rank[name(Middle)] < Rank[key]
    <3>1. ~(i < Middle)
      BY <1>1, <2>1, <2>2, NamesAreKeys, Sorted
    <3> QED
      BY <1>1, <2>1, <2>2, <3>1
  <2>3. CASE ~(Rank[name(Middle)] < Rank[key])
    <3>1. Rank[key] < Rank[name(Middle)]
      BY <1>1, <2>3, NamesAreKeys, Sorted, Distinct
    <3>2. ~(Middle < i) /\ i # Middle
      BY <1>1, <2>1, <3>1, NamesAreKeys, Sorted
    <3> QED
      BY <1>1, <2>1, <2>3, <3>2
  <2> QED
    BY <2>2, <2>3
<1>4. hi' - lo' < hi - lo /\ hi' > lo' /\ IndexTypeOK'
  BY <1>1
<1>5. Between'
  BY <1>2, <1>3, <1>4 DEF Between
<1> QED
  BY <1>4, <1>5 DEF LookupDecides

LEMMA IndexInvStep == IndexInv /\ [IndexNext]_indexVars => IndexInv'
<1> SUFFICES ASSUME IndexInv, [IndexNext]_indexVars PROVE IndexInv'
  OBVIOUS
<1> USE DEF IndexInv, IndexTypeOK, Between, LookupDecides
<1>1. ASSUME NEW k \in Keys, builtin_lookup(k) PROVE IndexInv'
  BY <1>1 DEF builtin_lookup
<1>2. CASE Hit
  <2>1. Middle \in Opcodes
    BY <1>2, MiddleLies DEF Hit
  <2>2. op' \in Opcodes /\ DB_builtins[op'] = key
    BY <1>2, <2>1, OpcodesInIndex DEF Hit, name
  <2> QED
    BY <1>2, <2>2 DEF Hit
<1>3. CASE Miss
  <2>1. Middle = lo /\ hi = lo + 1
    BY <1>3, MiddleLies DEF Miss, LastTwo
  <2>2. \A i \in 0 .. (N_builtins - 2) : name(i) # key
    BY <1>3, <2>1 DEF Miss
  <2> QED
    BY <1>3, <2>2 DEF Miss, name
<1>4. CASE Narrow
  BY <1>4, NarrowKeeps
<1>5. CASE Exhausted
  BY <1>5 DEF Exhausted
<1>6. CASE pc \in {"found", "unknown"} /\ Answered
  BY <1>6 DEF Answered
<1>7. CASE UNCHANGED indexVars
  BY <1>7 DEF indexVars, name
<1> QED
  BY <1>1, <1>2, <1>3, <1>4, <1>5, <1>6, <1>7 DEF IndexNext, Search

(* builtin_lookup finds every word of every sorted index but its last.     *)
THEOREM LookupIsRight == IndexSpec => []LookupDecides
  BY IndexInvInit, IndexInvStep, PTL DEF IndexSpec, IndexInv

(* Its loop ends on every key.                                             *)
THEOREM LookupEnds == IndexSpec => LookupNarrows
<1>1. IndexInv /\ [IndexNext]_indexVars
        => [pc = "looking" /\ pc' = "looking" => hi' - lo' < hi - lo /\ hi' > lo']_indexVars
  BY NarrowKeeps
     DEF IndexNext, Search, builtin_lookup, Hit, Miss, Exhausted, Answered, indexVars
<1> QED
  BY <1>1, IndexInvInit, IndexInvStep, PTL DEF IndexSpec, LookupNarrows

HIDE Size DEF Opcodes
-----------------------------------------------------------------------------

(***************************************************************************)
(* The words.                                                              *)
(***************************************************************************)
LEMMA LastIsNoOther ==
  /\ \A i \in 0 .. (N_builtins - 2) : name(i) \in Findable /\ name(i) \in StackWords
  /\ \A w \in Findable : \E i \in 0 .. (N_builtins - 2) : name(i) = w
<1> USE Size DEF Opcodes
<1>1. N_builtins - 1 \in Opcodes
  OBVIOUS
<1>2. ASSUME NEW i \in 0 .. (N_builtins - 2)
      PROVE  name(i) \in Findable /\ name(i) \in StackWords
  <2>1. i \in Opcodes /\ i < N_builtins - 1
    OBVIOUS
  <2>2. Rank[name(i)] < Rank[LastWord] /\ Rank[name(i)] \in Int
    BY <1>1, <2>1, Sorted, NamesAreKeys DEF LastWord
  <2>3. name(i) # LastWord
    BY <2>2
  <2>4. \E o \in Opcodes : name(i) = DB_builtins[o]
    BY <2>1, OpcodesInIndex DEF name
  <2> QED  BY <2>3, <2>4, BuiltinsAssumption DEF Findable
<1>3. ASSUME NEW w \in Findable
      PROVE  \E i \in 0 .. (N_builtins - 2) : name(i) = w
  <2>1. PICK o \in Opcodes : w = DB_builtins[o] /\ w # LastWord
    BY DEF Findable
  <2>2. PICK i \in Opcodes : IDX_builtins[i] = o
    BY <2>1, IndexAssumption
  <2>3. name(i) = w /\ i # N_builtins - 1
    BY <2>1, <2>2 DEF name, LastWord
  <2> QED  BY <2>3
<1> QED  BY <1>2, <1>3

(* A key is there while it is looked up, and a word that is found is       *)
(* another than the last.                                                  *)
KeyInv ==
  /\ pc = "ready" <=> key = None
  /\ pc = "found" => \E i \in 0 .. (N_builtins - 2) : name(i) = key

LEMMA KeySteps ==
  ASSUME IndexInv, KeyInv, [IndexNext]_indexVars
  PROVE  KeyInv'
<1> USE Size DEF KeyInv, Opcodes
<1>1. ASSUME NEW k \in Keys, builtin_lookup(k) PROVE KeyInv'
  BY <1>1, IndexAssumption DEF builtin_lookup
<1>2. CASE Hit
  <2>1. Middle \in 0 .. (N_builtins - 2)
    BY <1>2, MiddleLies DEF Hit, IndexInv, IndexTypeOK
  <2> QED  BY <1>2, <2>1 DEF Hit, name
<1>3. CASE Miss \/ Narrow \/ Exhausted
  BY <1>3 DEF Miss, Narrow, Exhausted
<1>4. CASE Answered
  BY <1>4 DEF Answered
<1>5. CASE UNCHANGED indexVars
  BY <1>5 DEF indexVars, name
<1> QED  BY <1>1, <1>2, <1>3, <1>4, <1>5 DEF IndexNext, Search
-----------------------------------------------------------------------------
(***************************************************************************)
(* A stack at work on, and the sequence it shows.                          *)
(***************************************************************************)
TaskRecords == [cell : [Cells -> Long], top : Int, ok : BOOLEAN]

Shows(m, s) ==
  /\ m \in TaskRecords /\ m.ok
  /\ s \in Seq(Long) /\ m.top = Len(s) /\ Len(s) <= D
  /\ \A i \in 1 .. Len(s) : m.cell[i - 1] = s[i]

LEMMA LongFacts ==
  /\ Long \subseteq Int /\ LONG_MIN \in Int /\ LONG_MAX \in Int /\ LONG_MIN = -LONG_MAX - 1
  /\ {-1, 0, 1, 2} \subseteq Long
  /\ D \in Nat
BY BuiltinsAssumption DEF Long, LONG_MIN

LEMMA AtType == \A m \in TaskRecords, i \in Int : At(m, i) \in Long
BY LongFacts DEF TaskRecords, At

LEMMA NotingType ==
  ASSUME NEW m \in TaskRecords, NEW b \in BOOLEAN
  PROVE  /\ Noting(m, b) \in TaskRecords
         /\ Noting(m, b).cell = m.cell /\ Noting(m, b).top = m.top
         /\ Noting(m, b).ok <=> m.ok /\ b
BY DEF TaskRecords, Noting

LEMMA PopFacts ==
  ASSUME NEW m \in TaskRecords
  PROVE  /\ d_pop(m) \in TaskRecords
         /\ d_pop(m).cell = m.cell /\ d_pop(m).top = m.top - 1
         /\ d_pop(m).ok <=> m.ok /\ m.top > 0
<1>1. (m.top > 0) \in BOOLEAN /\ m.top \in Int
  BY DEF TaskRecords
<1>2. PICK n \in TaskRecords : /\ n = Noting(m, m.top > 0)
                               /\ n.cell = m.cell /\ n.top = m.top /\ (n.ok <=> m.ok /\ m.top > 0)
  BY <1>1, NotingType
<1>3. d_pop(m) = [n EXCEPT !.top = n.top - 1]
  BY <1>2 DEF d_pop
<1> QED  BY <1>1, <1>2, <1>3 DEF TaskRecords

LEMMA PushFacts ==
  ASSUME NEW m \in TaskRecords, NEW v \in Long
  PROVE  /\ d_push(m, v) \in TaskRecords
         /\ m.top \in Cells => /\ d_push(m, v).cell = [m.cell EXCEPT ![m.top] = v]
                               /\ d_push(m, v).top = m.top + 1
                               /\ d_push(m, v).ok = m.ok
         /\ m.top \notin Cells => ~d_push(m, v).ok
<1>1. CASE m.top \in Cells
  <2>1. m.top \in Int /\ m.cell \in [Cells -> Long] /\ m.ok \in BOOLEAN
        /\ m = [cell |-> m.cell, top |-> m.top, ok |-> m.ok]
    BY DEF TaskRecords
  <2>2. d_push(m, v) = [cell |-> [m.cell EXCEPT ![m.top] = v], top |-> m.top + 1, ok |-> m.ok]
    BY <1>1, <2>1 DEF d_push
  <2>3. [m.cell EXCEPT ![m.top] = v] \in [Cells -> Long]
    BY <1>1, <2>1
  <2> QED  BY <1>1, <2>1, <2>2, <2>3 DEF TaskRecords
<1>2. CASE m.top \notin Cells
  BY <1>2, NotingType DEF d_push
<1> QED  BY <1>1, <1>2

(* What is lost stays lost.                                                *)
Lost(m) == m \in TaskRecords /\ ~m.ok

LEMMA LostStays ==
  ASSUME NEW m, Lost(m)
  PROVE  Lost(d_pop(m)) /\ \A v \in Long : Lost(d_push(m, v))
BY PopFacts, PushFacts DEF Lost

(* What is left of a stack below its k upper entries.                      *)
Cut(s, k) == SubSeq(s, 1, Len(s) - k)

LEMMA CutFacts ==
  ASSUME NEW s \in Seq(Long), NEW k \in 0 .. Len(s)
  PROVE  /\ Cut(s, k) \in Seq(Long) /\ Len(Cut(s, k)) = Len(s) - k
         /\ \A i \in 1 .. (Len(s) - k) : Cut(s, k)[i] = s[i]
         /\ Cut(s, 0) = s
<1>1. Len(s) \in Nat /\ k \in Nat /\ Len(s) - k \in Nat
  BY LenProperties
<1>2. 1 \in Int /\ Len(s) - k \in Int /\ \A i \in 1 .. (Len(s) - k) : s[i] \in Long
  BY <1>1, ElementOfSeq
<1>3. /\ Cut(s, k) \in Seq(Long)
      /\ Len(Cut(s, k)) = IF 1 <= Len(s) - k THEN Len(s) - k - 1 + 1 ELSE 0
      /\ \A i \in 1 .. Len(s) - k - 1 + 1 : Cut(s, k)[i] = s[1 + i - 1]
  BY <1>2, SubSeqProperties DEF Cut
<1>4. Len(Cut(s, k)) = Len(s) - k
  BY <1>1, <1>3
<1>5. ASSUME NEW i \in 1 .. (Len(s) - k) PROVE Cut(s, k)[i] = s[i]
  <2>1. i \in 1 .. Len(s) - k - 1 + 1 /\ 1 + i - 1 = i
    BY <1>1
  <2> QED  BY <1>3, <2>1
<1>6. Cut(s, 0) = s
  <2>1. Len(s) - 0 = Len(s)
    BY <1>1
  <2> QED  BY <2>1, SubSeqFull DEF Cut
<1> QED  BY <1>3, <1>4, <1>5, <1>6

LEMMA PopShows ==
  ASSUME NEW m, NEW s \in Seq(Long), NEW k \in 0 .. Len(s), Shows(m, Cut(s, k))
  PROVE  /\ IF k + 1 <= Len(s)
            THEN Shows(d_pop(m), Cut(s, k + 1)) /\ d_tos(m) = s[Len(s) - k]
            ELSE Lost(d_pop(m))
         /\ d_tos(m) \in Long
<1>1. /\ Len(s) \in Nat /\ k \in Nat /\ D \in Nat
      /\ m \in TaskRecords /\ m.ok /\ m.top = Len(s) - k /\ Len(s) - k <= D
      /\ \A i \in 1 .. (Len(s) - k) : m.cell[i - 1] = s[i]
  BY LenProperties, CutFacts, LongFacts DEF Shows
<1>2. ASSUME k + 1 <= Len(s)
      PROVE  Shows(d_pop(m), Cut(s, k + 1)) /\ d_tos(m) = s[Len(s) - k]
  <2>1. k + 1 \in 0 .. Len(s) /\ Len(s) - (k + 1) = (Len(s) - k) - 1 /\ m.top > 0
    BY <1>1, <1>2
  <2>2. /\ Cut(s, k + 1) \in Seq(Long) /\ Len(Cut(s, k + 1)) = Len(s) - (k + 1)
        /\ \A i \in 1 .. (Len(s) - (k + 1)) : Cut(s, k + 1)[i] = s[i]
    BY <2>1, CutFacts
  <2>3. /\ d_pop(m) \in TaskRecords /\ d_pop(m).ok
        /\ d_pop(m).cell = m.cell /\ d_pop(m).top = Len(Cut(s, k + 1))
    BY <1>1, <2>1, <2>2, PopFacts
  <2>4. Len(Cut(s, k + 1)) <= D /\ \A i \in 1 .. Len(Cut(s, k + 1)) : m.cell[i - 1] = Cut(s, k + 1)[i]
    BY <1>1, <2>1, <2>2
  <2>5. m.top - 1 \in Cells /\ Len(s) - k \in 1 .. (Len(s) - k)
    BY <1>1, <2>1 DEF Cells
  <2> QED  BY <1>1, <2>2, <2>3, <2>4, <2>5 DEF Shows, d_tos, At
<1>3. ASSUME ~(k + 1 <= Len(s)) PROVE Lost(d_pop(m))
  <2>1. ~(m.top > 0)
    BY <1>1, <1>3
  <2> QED  BY <1>1, <2>1, PopFacts DEF Lost
<1>4. d_tos(m) \in Long
  BY <1>1, AtType DEF d_tos
<1> QED  BY <1>2, <1>3, <1>4

LEMMA PushShows ==
  ASSUME NEW m, NEW s, Shows(m, s), NEW v \in Long
  PROVE  /\ Len(s) < D => Shows(d_push(m, v), Append(s, v)) /\ Len(Append(s, v)) = Len(s) + 1
         /\ ~(Len(s) < D) => Lost(d_push(m, v))
<1>1. m \in TaskRecords /\ s \in Seq(Long) /\ Len(s) \in Nat /\ m.top = Len(s) /\ D \in Nat
  BY LenProperties, LongFacts DEF Shows
<1>2. CASE Len(s) < D
  <2> DEFINE t == Append(s, v)
  <2>1. /\ t \in Seq(Long) /\ Len(t) = Len(s) + 1
        /\ \A i \in 1 .. Len(s) : t[i] = s[i]
        /\ t[Len(s) + 1] = v
    BY <1>1, AppendProperties
  <2> HIDE DEF t
  <2>2. m.top \in Cells /\ m.cell \in [Cells -> Long]
    BY <1>1, <1>2 DEF Cells, TaskRecords
  <2>3. d_push(m, v) \in TaskRecords /\ d_push(m, v).ok /\ d_push(m, v).top = Len(t)
    <3>1. m.ok /\ m.top + 1 = Len(t)
      BY <1>1, <2>1 DEF Shows
    <3> QED  BY <1>1, <2>2, <3>1, PushFacts
  <2>4. d_push(m, v).cell = [m.cell EXCEPT ![Len(s)] = v]
    BY <1>1, <2>2, PushFacts
  <2>5. ASSUME NEW i \in 1 .. Len(t)
        PROVE  d_push(m, v).cell[i - 1] = t[i]
    <3>1. i - 1 \in Cells
      BY <1>1, <1>2, <2>1 DEF Cells
    <3>2. CASE i = Len(s) + 1
      BY <1>1, <2>1, <2>2, <2>4, <3>1, <3>2
    <3>3. CASE i # Len(s) + 1
      <4>1. i \in 1 .. Len(s) /\ i - 1 # Len(s)
        BY <1>1, <2>1, <3>3
      <4> QED  BY <2>1, <2>2, <2>4, <3>1, <4>1 DEF Shows
    <3> QED  BY <3>2, <3>3
  <2> QED  BY <1>1, <1>2, <2>1, <2>3, <2>5 DEF Shows, t
<1>3. CASE ~(Len(s) < D)
  <2>1. m.top \notin Cells
    BY <1>1, <1>3 DEF Cells
  <2> QED  BY <1>1, <1>3, <2>1, PushFacts DEF Lost
<1> QED  BY <1>2, <1>3

(* Pushes one after the other lengthen the sequence, as long as there is   *)
(* room.                                                                   *)
LEMMA Pushes ==
  ASSUME NEW m, NEW s \in Seq(Long), Shows(m, s),
         NEW a \in Long, NEW b \in Long, NEW c \in Long
  PROVE  /\ IF Len(s) + 1 <= D THEN Shows(d_push(m, a), s \o <<a>>) ELSE Lost(d_push(m, a))
         /\ IF Len(s) + 2 <= D THEN Shows(d_push(d_push(m, a), b), s \o <<a, b>>)
                               ELSE Lost(d_push(d_push(m, a), b))
         /\ Len(s) + 3 <= D
              => Shows(d_push(d_push(d_push(m, a), b), c), s \o <<a, b, c>>)
<1>1. Len(s) \in Nat /\ D \in Nat
  BY LenProperties, LongFacts
<1>2. /\ Append(s, a) = s \o <<a>>
      /\ Append(s \o <<a>>, b) = s \o <<a, b>>
      /\ Append(s \o <<a, b>>, c) = s \o <<a, b, c>>
  OBVIOUS
<1>3. /\ s \o <<a>> \in Seq(Long) /\ Len(s \o <<a>>) = Len(s) + 1
      /\ s \o <<a, b>> \in Seq(Long) /\ Len(s \o <<a, b>>) = Len(s) + 2
  BY <1>1
<1>4. IF Len(s) + 1 <= D THEN Shows(d_push(m, a), s \o <<a>>) ELSE Lost(d_push(m, a))
  <2>1. Len(s) + 1 <= D <=> Len(s) < D
    BY <1>1
  <2> QED  BY <1>2, <2>1, PushShows
<1>5. IF Len(s) + 2 <= D THEN Shows(d_push(d_push(m, a), b), s \o <<a, b>>)
                         ELSE Lost(d_push(d_push(m, a), b))
  <2>1. CASE Len(s) + 1 <= D
    <3>1. Len(s) + 2 <= D <=> Len(s \o <<a>>) < D
      BY <1>1, <1>3
    <3> QED  BY <1>2, <1>4, <2>1, <3>1, PushShows
  <2>2. CASE ~(Len(s) + 1 <= D)
    <3>1. ~(Len(s) + 2 <= D)
      BY <1>1, <2>2
    <3> QED  BY <1>4, <2>2, <3>1, LostStays
  <2> QED  BY <2>1, <2>2
<1>6. ASSUME Len(s) + 3 <= D
      PROVE  Shows(d_push(d_push(d_push(m, a), b), c), s \o <<a, b, c>>)
  <2>1. Len(s) + 2 <= D /\ Len(s \o <<a, b>>) < D
    BY <1>1, <1>3, <1>6
  <2> QED  BY <1>2, <1>5, <2>1, PushShows
<1> QED  BY <1>4, <1>5, <1>6

LEMMA Pops ==
  ASSUME NEW m, NEW s \in Seq(Long), Shows(m, s)
  PROVE  /\ IF 1 <= Len(s) THEN Shows(d_pop(m), Cut(s, 1)) /\ d_tos(m) = s[Len(s)]
                           ELSE Lost(d_pop(m))
         /\ IF 2 <= Len(s) THEN /\ Shows(d_pop(d_pop(m)), Cut(s, 2))
                                /\ d_tos(d_pop(m)) = s[Len(s) - 1]
                           ELSE Lost(d_pop(d_pop(m)))
         /\ IF 3 <= Len(s) THEN /\ Shows(d_pop(d_pop(d_pop(m))), Cut(s, 3))
                                /\ d_tos(d_pop(d_pop(m))) = s[Len(s) - 2]
                           ELSE Lost(d_pop(d_pop(d_pop(m))))
         /\ d_tos(m) \in Long /\ d_tos(d_pop(m)) \in Long /\ d_tos(d_pop(d_pop(m))) \in Long
<1>0. Len(s) \in Nat
  BY LenProperties
<1>1. Len(s) \in Nat /\ 0 \in 0 .. Len(s) /\ Cut(s, 0) = s
  BY <1>0, CutFacts
<1>2. /\ m \in TaskRecords /\ d_pop(m) \in TaskRecords /\ d_pop(d_pop(m)) \in TaskRecords
      /\ d_tos(m) \in Long /\ d_tos(d_pop(m)) \in Long /\ d_tos(d_pop(d_pop(m))) \in Long
  <2>1. m \in TaskRecords /\ d_pop(m) \in TaskRecords /\ d_pop(d_pop(m)) \in TaskRecords
    BY PopFacts DEF Shows
  <2>2. \A x \in TaskRecords : x.top - 1 \in Int
    BY DEF TaskRecords
  <2> QED  BY <2>1, <2>2, AtType DEF d_tos
<1>3. IF 1 <= Len(s) THEN Shows(d_pop(m), Cut(s, 1)) /\ d_tos(m) = s[Len(s)]
                     ELSE Lost(d_pop(m))
  <2>1. 0 + 1 = 1 /\ Len(s) - 0 = Len(s)
    BY <1>1
  <2> QED  BY <1>1, <2>1, PopShows
<1>4. IF 2 <= Len(s) THEN Shows(d_pop(d_pop(m)), Cut(s, 2)) /\ d_tos(d_pop(m)) = s[Len(s) - 1]
                     ELSE Lost(d_pop(d_pop(m)))
  <2>1. CASE 1 <= Len(s)
    <3>1. 1 \in 0 .. Len(s) /\ Shows(d_pop(m), Cut(s, 1))
      BY <1>1, <1>3, <2>1
    <3>2. 1 + 1 = 2
      OBVIOUS
    <3> QED  BY <3>1, <3>2, PopShows
  <2>2. CASE ~(1 <= Len(s))
    <3>1. ~(2 <= Len(s)) /\ Lost(d_pop(m))
      BY <1>1, <1>3, <2>2
    <3> QED  BY <3>1, LostStays
  <2> QED  BY <2>1, <2>2
<1>5. IF 3 <= Len(s) THEN /\ Shows(d_pop(d_pop(d_pop(m))), Cut(s, 3))
                          /\ d_tos(d_pop(d_pop(m))) = s[Len(s) - 2]
                     ELSE Lost(d_pop(d_pop(d_pop(m))))
  <2>1. CASE 2 <= Len(s)
    <3>1. 2 \in 0 .. Len(s) /\ Shows(d_pop(d_pop(m)), Cut(s, 2))
      BY <1>1, <1>4, <2>1
    <3>2. 2 + 1 = 3
      OBVIOUS
    <3> QED  BY <3>1, <3>2, PopShows
  <2>2. CASE ~(2 <= Len(s))
    <3>1. ~(3 <= Len(s)) /\ Lost(d_pop(d_pop(m)))
      BY <1>1, <1>4, <2>2
    <3> QED  BY <3>1, LostStays
  <2> QED  BY <2>1, <2>2
<1> QED  BY <1>2, <1>3, <1>4, <1>5

LEMMA PickShows ==
  ASSUME NEW m, NEW s \in Seq(Long), Shows(m, s), NEW num \in Int
  PROVE  /\ IF 0 <= num /\ num < Len(s)
            THEN Shows(Picks(m, num), s) /\ d_pick(m, num) = s[Len(s) - num]
            ELSE Lost(Picks(m, num))
         /\ d_pick(m, num) \in Long
<1>1. /\ Len(s) \in Nat /\ m \in TaskRecords /\ m.ok /\ m.top = Len(s) /\ D \in Nat
      /\ Len(s) <= D /\ \A i \in 1 .. Len(s) : m.cell[i - 1] = s[i]
  BY LenProperties, LongFacts DEF Shows
<1>2. m.top - (num + 1) \in Int /\ d_pick(m, num) \in Long
  BY <1>1, AtType DEF d_pick
<1>3. Within(m, m.top - (num + 1)) \in BOOLEAN
      /\ (Within(m, m.top - (num + 1)) <=> 0 <= num /\ num < Len(s))
  BY <1>1 DEF Within
<1>4. /\ Picks(m, num) \in TaskRecords
      /\ Picks(m, num).cell = m.cell /\ Picks(m, num).top = m.top
      /\ Picks(m, num).ok <=> 0 <= num /\ num < Len(s)
  BY <1>1, <1>3, NotingType DEF Picks
<1>5. ASSUME 0 <= num, num < Len(s)
      PROVE  d_pick(m, num) = s[Len(s) - num]
  <2>1. /\ m.top - (num + 1) \in Cells /\ m.top - (num + 1) = (Len(s) - num) - 1
        /\ Len(s) - num \in 1 .. Len(s)
    BY <1>1, <1>5 DEF Cells
  <2> QED  BY <1>1, <2>1 DEF d_pick, At
<1> QED  BY <1>1, <1>2, <1>4, <1>5 DEF Shows, Lost
-----------------------------------------------------------------------------
(***************************************************************************)
(* The handlers: each does what its word promises where it applies, and is *)
(* lost elsewhere.                                                         *)
(***************************************************************************)
Up(s, k) == s[Len(s) - k]
Gives(m, s, applies, n, new) == IF applies THEN Shows(m, Cut(s, n) \o new) ELSE Lost(m)

LEMMA UpType == \A s \in Seq(Long), k \in Nat : k < Len(s) => Up(s, k) \in Long
<1> SUFFICES ASSUME NEW s \in Seq(Long), NEW k \in Nat, k < Len(s) PROVE Up(s, k) \in Long
  OBVIOUS
<1>1. Len(s) \in Nat
  BY LenProperties
<1>2. Len(s) - k \in 1 .. Len(s)
  BY <1>1
<1> QED  BY <1>2, ElementOfSeq DEF Up

LEMMA DupGives ==
  ASSUME NEW m, NEW s \in Seq(Long), Shows(m, s)
  PROVE  /\ Gives(d_dup(m), s, 1 <= Len(s) /\ Len(s) + 1 <= D, 0, <<Up(s, 0)>>)
         /\ Gives(d_over(m), s, 2 <= Len(s) /\ Len(s) + 1 <= D, 0, <<Up(s, 1)>>)
<1>1. Len(s) \in Nat /\ Cut(s, 0) = s /\ D \in Nat
  BY LenProperties, CutFacts, LongFacts
<1>2. ASSUME NEW num \in {0, 1}
      PROVE  Gives(d_push(Picks(m, num), d_pick(m, num)), s,
                   num + 1 <= Len(s) /\ Len(s) + 1 <= D, 0, <<Up(s, num)>>)
  <2>1. num \in Int /\ 0 <= num
    OBVIOUS
  <2>2. CASE num + 1 <= Len(s)
    <3>1. /\ Shows(Picks(m, num), s) /\ d_pick(m, num) = Up(s, num)
          /\ Up(s, num) \in Long
      BY <1>1, <2>1, <2>2, PickShows, UpType DEF Up
    <3>2. IF Len(s) + 1 <= D THEN Shows(d_push(Picks(m, num), Up(s, num)), s \o <<Up(s, num)>>)
                             ELSE Lost(d_push(Picks(m, num), Up(s, num)))
      BY <3>1, Pushes
    <3> QED  BY <1>1, <2>2, <3>1, <3>2 DEF Gives
  <2>3. CASE ~(num + 1 <= Len(s))
    <3>1. Lost(Picks(m, num)) /\ d_pick(m, num) \in Long
      BY <1>1, <2>1, <2>3, PickShows
    <3> QED  BY <2>3, <3>1, LostStays DEF Gives
  <2> QED  BY <2>2, <2>3
<1>3. d_tos(m) = d_pick(m, 0)
  <2>1. m.top \in Int
    BY DEF Shows, TaskRecords
  <2> QED  BY <2>1 DEF d_tos, d_pick
<1>4. 0 + 1 = 1 /\ 1 + 1 = 2
  OBVIOUS
<1> QED  BY <1>2, <1>3, <1>4 DEF d_dup, d_over

LEMMA SwapGives ==
  ASSUME NEW m, NEW s \in Seq(Long), Shows(m, s)
  PROVE  /\ Gives(d_swap(m), s, 2 <= Len(s), 2, <<Up(s, 0), Up(s, 1)>>)
         /\ Gives(d_rot(m), s, 3 <= Len(s), 3, <<Up(s, 1), Up(s, 0), Up(s, 2)>>)
<1>1. Len(s) \in Nat /\ D \in Nat /\ Len(s) <= D
  BY LenProperties, LongFacts DEF Shows
<1> DEFINE l3 == d_tos(m)
           l2 == d_tos(d_pop(m))
           l1 == d_tos(d_pop(d_pop(m)))
           two == d_pop(d_pop(m))
           three == d_pop(d_pop(d_pop(m)))
<1>2. l1 \in Long /\ l2 \in Long /\ l3 \in Long
  BY Pops
<1>3. /\ d_swap(m) = d_push(d_push(two, l3), l2)
      /\ d_rot(m) = d_push(d_push(d_push(three, l2), l3), l1)
  BY DEF d_swap, d_rot
<1>4. /\ IF 2 <= Len(s) THEN /\ Shows(two, Cut(s, 2)) /\ Cut(s, 2) \in Seq(Long)
                             /\ Len(Cut(s, 2)) = Len(s) - 2
                             /\ l3 = Up(s, 0) /\ l2 = Up(s, 1)
                        ELSE Lost(two)
      /\ IF 3 <= Len(s) THEN /\ Shows(three, Cut(s, 3)) /\ Cut(s, 3) \in Seq(Long)
                             /\ Len(Cut(s, 3)) = Len(s) - 3
                             /\ l3 = Up(s, 0) /\ l2 = Up(s, 1) /\ l1 = Up(s, 2)
                        ELSE Lost(three)
  <2>1. /\ 3 <= Len(s) => 2 <= Len(s) /\ 3 \in 0 .. Len(s)
        /\ 2 <= Len(s) => 1 <= Len(s) /\ 2 \in 0 .. Len(s)
        /\ Len(s) - 0 = Len(s)
    BY <1>1
  <2> QED  BY <2>1, Pops, CutFacts DEF Up
<1> HIDE DEF l1, l2, l3, two, three
<1>5. Gives(d_swap(m), s, 2 <= Len(s), 2, <<Up(s, 0), Up(s, 1)>>)
  <2>1. CASE 2 <= Len(s)
    <3>1. Len(Cut(s, 2)) + 2 <= D
      BY <1>1, <1>4, <2>1
    <3> QED  BY <1>2, <1>3, <1>4, <2>1, <3>1, Pushes DEF Gives
  <2>2. CASE ~(2 <= Len(s))
    BY <1>2, <1>3, <1>4, <2>2, LostStays DEF Gives
  <2> QED  BY <2>1, <2>2
<1>6. Gives(d_rot(m), s, 3 <= Len(s), 3, <<Up(s, 1), Up(s, 0), Up(s, 2)>>)
  <2>1. CASE 3 <= Len(s)
    <3>1. Len(Cut(s, 3)) + 3 <= D
      BY <1>1, <1>4, <2>1
    <3> QED  BY <1>2, <1>3, <1>4, <2>1, <3>1, Pushes DEF Gives
  <2>2. CASE ~(3 <= Len(s))
    BY <1>2, <1>3, <1>4, <2>2, LostStays DEF Gives
  <2> QED  BY <2>1, <2>2
<1> QED  BY <1>5, <1>6

LEMMA DropGives ==
  ASSUME NEW m, NEW s \in Seq(Long), Shows(m, s)
  PROVE  /\ Gives(d_drop(m), s, 1 <= Len(s), 1, << >>)
         /\ Gives(d_drop2(m), s, 2 <= Len(s), 2, << >>)
<1>1. /\ Len(s) \in Nat /\ m \in TaskRecords /\ m.top = Len(s) /\ m.ok /\ Len(s) <= D /\ D \in Nat
      /\ \A i \in 1 .. Len(s) : m.cell[i - 1] = s[i]
  BY LenProperties, LongFacts DEF Shows
<1>2. ASSUME NEW k \in {1, 2}, NEW r, r = [Noting(m, m.top >= k) EXCEPT !.top = @ - k]
      PROVE  Gives(r, s, k <= Len(s), k, << >>)
  <2>1. (m.top >= k) \in BOOLEAN /\ (m.top >= k <=> k <= Len(s)) /\ m.top - k = Len(s) - k
    BY <1>1
  <2>2. PICK n \in TaskRecords : /\ n = Noting(m, m.top >= k)
                                 /\ n.cell = m.cell /\ n.top = m.top /\ (n.ok <=> m.top >= k)
    BY <1>1, <2>1, NotingType
  <2>3. r = [n EXCEPT !.top = n.top - k] /\ n.top - k \in Int
    BY <1>1, <1>2, <2>2
  <2>4. /\ r \in TaskRecords /\ r.cell = m.cell /\ r.top = Len(s) - k /\ (r.ok <=> k <= Len(s))
    BY <1>1, <2>1, <2>2, <2>3 DEF TaskRecords
  <2>5. CASE k <= Len(s)
    <3>1. /\ Cut(s, k) \in Seq(Long) /\ Len(Cut(s, k)) = Len(s) - k
          /\ \A i \in 1 .. (Len(s) - k) : Cut(s, k)[i] = s[i]
      <4>1. k \in 0 .. Len(s)
        BY <1>1, <2>5
      <4> QED  BY <4>1, CutFacts
    <3>2. Len(s) - k <= D /\ \A i \in 1 .. (Len(s) - k) : m.cell[i - 1] = s[i]
      BY <1>1, <2>5
    <3>3. Shows(r, Cut(s, k))
      BY <2>4, <2>5, <3>1, <3>2 DEF Shows
    <3> QED  BY <2>5, <3>1, <3>3, ConcatEmptySeq DEF Gives
  <2>6. CASE ~(k <= Len(s))
    BY <2>4, <2>6 DEF Gives, Lost
  <2> QED  BY <2>5, <2>6
<1> QED  BY <1>2 DEF d_drop, d_drop2

(* A number kept in fewer bits differs by a multiple of their range, and   *)
(* is the only number of the range that does.                              *)
LEMMA Remainder ==
  ASSUME NEW x \in Int, NEW m \in Nat \ {0}
  PROVE  x % m \in 0 .. (m - 1) /\ (x - (x % m)) % m = 0
<1>1. x % m \in 0 .. (m - 1)
  OBVIOUS
<1>2. (x - (x % m)) % m = 0
  OBVIOUS
<1> QED  BY <1>1, <1>2

LEMMA IntFacts == INT_MIN \in Int /\ INT_MAX \in Nat /\ INT_MIN = -INT_MAX - 1
BY BuiltinsAssumption DEF INT_MIN

LEMMA AsIntFacts ==
  ASSUME NEW x \in Int
  PROVE  AsInt(x) \in INT_MIN .. INT_MAX /\ (x - AsInt(x)) % (INT_MAX - INT_MIN + 1) = 0
<1> DEFINE w == INT_MAX - INT_MIN + 1
           y == x - INT_MIN
<1>1. INT_MIN \in Int /\ INT_MAX \in Int /\ w \in Nat \ {0} /\ y \in Int
  BY IntFacts
<1>2. y % w \in 0 .. (w - 1) /\ (y - (y % w)) % w = 0
  <2> HIDE DEF w, y
  <2> QED  BY <1>1, Remainder
<1>3. AsInt(x) = (y % w) + INT_MIN
  BY DEF AsInt
<1>4. x - AsInt(x) = y - (y % w)
  <2>1. y % w \in Int
    BY <1>2
  <2>2. \A z \in Int : x - (z + INT_MIN) = y - z
    BY <1>1
  <2> HIDE DEF w, y
  <2> QED  BY <1>3, <2>1, <2>2
<1>5. AsInt(x) \in INT_MIN .. INT_MAX
  <2>1. \A z \in 0 .. (w - 1) : z + INT_MIN \in INT_MIN .. INT_MAX
    BY <1>1
  <2> HIDE DEF w, y
  <2> QED  BY <1>2, <1>3, <2>1
<1> QED  BY <1>2, <1>4, <1>5

LEMMA OneRemainder ==
  ASSUME NEW w \in Nat \ {0}, NEW x \in Int, NEW i \in Int, NEW j \in Int,
         (x - i) % w = 0, (x - j) % w = 0, i - j < w, j - i < w
  PROVE  i = j
<1>1. PICK k \in Int, l \in Int : x - i = w * k /\ x - j = w * l
  <2>1. \A z \in Int : z % w = 0 => z \div w \in Int /\ z = w * (z \div w)
    <3>1. ASSUME NEW z \in Int
          PROVE  z \div w \in Int /\ z = w * (z \div w) + (z % w)
      OBVIOUS
    <3> QED  BY <3>1
  <2>2. x - i \in Int /\ x - j \in Int
    OBVIOUS
  <2> QED  BY <2>1, <2>2
<1>2. i - j = w * (l - k)
  <2>1. w * (l - k) = w * l - w * k
    OBVIOUS
  <2> QED  BY <1>1, <2>1
<1>3. CASE l - k >= 1
  <2>1. w * (l - k) >= w
    BY <1>3
  <2> QED  BY <1>2, <2>1
<1>4. CASE l - k <= -1
  <2>1. w * (l - k) <= -w
    BY <1>4
  <2> QED  BY <1>2, <2>1
<1>5. CASE l - k = 0
  BY <1>2, <1>5
<1> QED  BY <1>3, <1>4, <1>5

(* PICK's number, as it is promised and as C converts it.                  *)
LEMMA IndexRight ==
  ASSUME NEW x \in Int
  PROVE  Promised!Index(x) = AsInt(x)
<1> DEFINE w == 2 * (INT_MAX + 1)
           R == (-INT_MAX - 1) .. INT_MAX
           i == CHOOSE v \in R : (x - v) % w = 0
<1>1. w \in Nat \ {0} /\ INT_MAX - INT_MIN + 1 = w /\ R = INT_MIN .. INT_MAX
  BY IntFacts
<1>2. AsInt(x) \in R /\ (x - AsInt(x)) % w = 0
  BY <1>1, AsIntFacts
<1>3. Promised!Index(x) = i
  BY DEF Promised!Index
<1>4. i \in R /\ (x - i) % w = 0
  <2> HIDE DEF w, R
  <2> QED  BY <1>2
<1>5. \A u, v \in R : u \in Int /\ v \in Int /\ u - v < w /\ v - u < w
  BY IntFacts
<1> HIDE DEF w, R, i
<1> QED  BY <1>1, <1>2, <1>3, <1>4, <1>5, OneRemainder

LEMMA PickGives ==
  ASSUME NEW m, NEW s \in Seq(Long), Shows(m, s)
  PROVE  Gives(f_pick(m), s,
               1 <= Len(s) /\ 0 <= AsInt(Up(s, 0)) /\ AsInt(Up(s, 0)) + 2 <= Len(s),
               1, <<Up(s, AsInt(Up(s, 0)) + 1)>>)
<1>1. Len(s) \in Nat /\ D \in Nat /\ Len(s) <= D /\ Long \subseteq Int
  BY LenProperties, LongFacts DEF Shows
<1> DEFINE num == AsInt(d_tos(m))
           n == d_pop(m)
<1>2. num \in Int /\ n \in TaskRecords /\ f_pick(m) = d_push(Picks(n, num), d_pick(n, num))
  <2>1. d_tos(m) \in Int
    BY <1>1, Pops
  <2> QED  BY <2>1, AsIntFacts, Pops, PopFacts DEF f_pick, Shows
<1>3. IF 1 <= Len(s) THEN Shows(n, Cut(s, 1)) /\ num = AsInt(Up(s, 0)) ELSE Lost(n)
  <2>1. Len(s) - 0 = Len(s)
    BY <1>1
  <2> QED  BY <2>1, Pops DEF Up
<1> HIDE DEF num, n
<1>4. CASE 1 <= Len(s)
  <2>1. /\ Cut(s, 1) \in Seq(Long) /\ Len(Cut(s, 1)) = Len(s) - 1
        /\ \A i \in 1 .. (Len(s) - 1) : Cut(s, 1)[i] = s[i]
    BY <1>1, <1>4, CutFacts
  <2>2. num \in Int /\ (num < Len(Cut(s, 1)) <=> num + 2 <= Len(s))
    BY <1>1, <1>2, <2>1
  <2>3. d_pick(n, num) \in Long /\ Len(Cut(s, 1)) + 1 <= D
    BY <1>1, <1>3, <1>4, <2>1, <2>2, PickShows
  <2>4. CASE 0 <= num /\ num + 2 <= Len(s)
    <3>1. Shows(Picks(n, num), Cut(s, 1)) /\ d_pick(n, num) = Cut(s, 1)[Len(Cut(s, 1)) - num]
      BY <1>3, <1>4, <2>1, <2>2, <2>4, PickShows
    <3>2. Len(Cut(s, 1)) - num \in 1 .. (Len(s) - 1)
          /\ Len(Cut(s, 1)) - num = Len(s) - (num + 1)
      BY <1>1, <2>1, <2>2, <2>4
    <3>3. d_pick(n, num) = Up(s, num + 1)
      BY <2>1, <3>1, <3>2 DEF Up
    <3>4. Shows(f_pick(m), Cut(s, 1) \o <<Up(s, num + 1)>>)
      BY <1>2, <2>1, <2>3, <3>1, <3>3, Pushes
    <3> QED  BY <1>3, <1>4, <2>4, <3>4 DEF Gives
  <2>5. CASE ~(0 <= num /\ num + 2 <= Len(s))
    <3>1. Lost(Picks(n, num))
      BY <1>3, <1>4, <2>1, <2>2, <2>5, PickShows
    <3> QED  BY <1>2, <1>3, <1>4, <2>3, <2>5, <3>1, LostStays DEF Gives
  <2> QED  BY <2>4, <2>5
<1>5. CASE ~(1 <= Len(s))
  <2>1. Lost(n) /\ num \in Int
    BY <1>1, <1>2, <1>3, <1>5
  <2>2. n.top - (num + 1) \in Int /\ Within(n, n.top - (num + 1)) \in BOOLEAN
    BY <1>2, <2>1 DEF TaskRecords, Within
  <2>3. d_pick(n, num) \in Long /\ Lost(Picks(n, num))
    BY <1>2, <2>1, <2>2, AtType, NotingType DEF d_pick, Picks, Lost
  <2> QED  BY <1>2, <1>5, <2>3, LostStays DEF Gives
<1> QED  BY <1>4, <1>5
-----------------------------------------------------------------------------
(***************************************************************************)
(* What the binary words compute.                                          *)
(***************************************************************************)
LEMMA WrapFacts ==
  ASSUME NEW x \in Int
  PROVE  Wrap(x) \in Long /\ (x - Wrap(x)) % (LONG_MAX - LONG_MIN + 1) = 0
<1> DEFINE w == LONG_MAX - LONG_MIN + 1
           y == x - LONG_MIN
<1>1. LONG_MIN \in Int /\ LONG_MAX \in Int /\ w \in Nat \ {0} /\ y \in Int
  BY BuiltinsAssumption DEF LONG_MIN
<1>2. y % w \in 0 .. (w - 1) /\ (y - (y % w)) % w = 0
  <2> HIDE DEF w, y
  <2> QED  BY <1>1, Remainder
<1>3. Wrap(x) = (y % w) + LONG_MIN
  BY DEF Wrap
<1>4. x - Wrap(x) = y - (y % w)
  <2>1. y % w \in Int
    BY <1>2
  <2>2. \A z \in Int : x - (z + LONG_MIN) = y - z
    BY <1>1
  <2> HIDE DEF w, y
  <2> QED  BY <1>3, <2>1, <2>2
<1>5. Wrap(x) \in Long
  <2>1. \A z \in 0 .. (w - 1) : z + LONG_MIN \in LONG_MIN .. LONG_MAX
    BY <1>1
  <2> HIDE DEF w, y
  <2> QED  BY <1>2, <1>3, <2>1 DEF Long
<1> QED  BY <1>2, <1>4, <1>5

LEMMA Divided ==
  ASSUME NEW x \in Nat, NEW y \in Nat \ {0}
  PROVE  /\ x \div y \in Nat /\ x % y \in 0 .. (y - 1) /\ x = y * (x \div y) + (x % y)
         /\ x \div y <= x /\ (y >= 2 /\ x >= 1 => x \div y < x)
<1>1. x \div y \in Int /\ x % y \in 0 .. (y - 1) /\ x = y * (x \div y) + (x % y)
  OBVIOUS
<1> DEFINE q == x \div y
<1> HIDE DEF q
<1>2. q \in Int /\ y * q <= x /\ x < y * q + y
  BY <1>1 DEF q
<1>3. q >= 0
  <2>1. CASE q <= -1
    <3>1. y * q + y <= 0
      BY <1>2, <2>1
    <3> QED  BY <1>2, <3>1
  <2> QED  BY <1>2, <2>1
<1>4. q <= y * q
  BY <1>2, <1>3
<1>5. ASSUME y >= 2, x >= 1 PROVE q < x
  <2>1. 2 * q <= y * q
    BY <1>2, <1>3, <1>5
  <2>2. y * q \in Int
    BY <1>2
  <2> QED  BY <1>2, <1>3, <1>5, <2>1, <2>2
<1>6. y * q \in Int
  BY <1>2
<1> QED  BY <1>1, <1>2, <1>3, <1>4, <1>5, <1>6 DEF q

(* What C's division leaves: less than the divisor, with the sign of the   *)
(* dividend.                                                               *)
LEMMA QuotientFacts ==
  ASSUME NEW a \in Long, NEW b \in Long, ~NoQuotient(a, b)
  PROVE  LET q == Quotient(a, b)
             r == a - b * Quotient(a, b)
         IN  /\ q \in Long /\ r \in Long
             /\ a = q * b + r
             /\ Magnitude(r) < Magnitude(b)
             /\ r # 0 => (r < 0 <=> a < 0)
<1> DEFINE x == Magnitude(a)
           y == Magnitude(b)
           d == x \div y
           e == x % y
           q == Quotient(a, b)
           r == a - b * q
<1>1. /\ a \in Int /\ b \in Int /\ LONG_MIN \in Int /\ LONG_MAX \in Int /\ b # 0
      /\ LONG_MIN = -LONG_MAX - 1 /\ LONG_MIN <= a /\ a <= LONG_MAX
      /\ LONG_MIN <= b /\ b <= LONG_MAX /\ 2 <= LONG_MAX
      /\ ~(a = LONG_MIN /\ b = -1)
  BY LongFacts, BuiltinsAssumption DEF Long, NoQuotient
<1>2. /\ x \in Nat /\ (x = a \/ x = -a) /\ (a < 0 => x = -a) /\ (a >= 0 => x = a)
      /\ y \in Nat \ {0} /\ (b < 0 => y = -b) /\ (b >= 0 => y = b)
      /\ x <= LONG_MAX + 1 /\ y <= LONG_MAX + 1
      /\ x = LONG_MAX + 1 => a = LONG_MIN
  BY <1>1 DEF Magnitude
<1>3. q = IF (a < 0) # (b < 0) THEN -d ELSE d
  BY DEF Quotient
<1> HIDE DEF x, y, q
<1>4. /\ d \in Nat /\ e \in 0 .. (y - 1) /\ x = y * d + e
      /\ d <= x /\ (y >= 2 /\ x >= 1 => d < x)
  BY <1>2, Divided
<1> HIDE DEF d, e
<1>5. q \in Int /\ LONG_MIN <= q /\ q <= LONG_MAX
  <2>1. CASE d <= LONG_MAX
    BY <1>1, <1>3, <1>4, <2>1
  <2>2. CASE ~(d <= LONG_MAX)
    <3>1. d = LONG_MAX + 1 /\ d = x /\ y = 1 /\ a = LONG_MIN
      BY <1>1, <1>2, <1>4, <2>2
    <3>2. b = 1 /\ a < 0
      BY <1>1, <1>2, <3>1
    <3> QED  BY <1>1, <1>3, <3>1, <3>2
  <2> QED  BY <2>1, <2>2
<1>6. /\ b * q \in Int /\ b * q = q * b
      /\ b * q = IF a < 0 THEN -(y * d) ELSE y * d
  <2>1. b * q \in Int /\ b * q = q * b
    BY <1>1, <1>5
  <2>2. (-y) * (-d) = y * d /\ y * (-d) = -(y * d) /\ (-y) * d = -(y * d)
    BY <1>2, <1>4
  <2>3. CASE b < 0
    <3>1. b = -y
      BY <1>1, <1>2, <2>3
    <3> QED  BY <1>3, <2>1, <2>2, <2>3, <3>1
  <2>4. CASE ~(b < 0)
    <3>1. b = y
      BY <1>1, <1>2, <2>4
    <3> QED  BY <1>3, <2>1, <2>2, <2>4, <3>1
  <2> QED  BY <2>3, <2>4
<1>7. r = IF a < 0 THEN -e ELSE e
  <2>1. y * d \in Int /\ e \in Int
    BY <1>2, <1>4
  <2> QED  BY <1>1, <1>2, <1>4, <1>6, <2>1
<1> HIDE DEF r
<1>8. r \in Int /\ LONG_MIN <= r /\ r <= LONG_MAX /\ (r # 0 => (r < 0 <=> a < 0))
  BY <1>1, <1>2, <1>4, <1>7
<1>9. Magnitude(r) < y
  BY <1>1, <1>2, <1>4, <1>7 DEF Magnitude
<1>10. a = q * b + r
  BY <1>1, <1>5, <1>6 DEF r
<1> QED  BY <1>1, <1>5, <1>8, <1>9, <1>10 DEF Long, q, r, y

LEMMA ResultType ==
  ASSUME NEW w \in Binary, NEW l2 \in Long, NEW l1 \in Long,
         ~(w \in Divisions /\ NoQuotient(l2, l1))
  PROVE  Result(w, l2, l1) \in Long
<1>1. /\ l1 \in Int /\ l2 \in Int /\ l1 + l2 \in Int /\ l2 - l1 \in Int /\ l2 * l1 \in Int
      /\ {-1, 0, 1} \subseteq Long
  BY LongFacts
<1>2. CASE w = "+"
  BY <1>1, <1>2, WrapFacts DEF Result
<1>3. CASE w = "-"
  BY <1>1, <1>3, WrapFacts DEF Result
<1>4. CASE w = "*"
  BY <1>1, <1>4, WrapFacts DEF Result
<1>5. CASE w \in {">", "<", "=", "AND", "OR"}
  BY <1>1, <1>5 DEF Result, Flag, F_TRUE, F_FALSE
<1>6. CASE w \in Divisions
  BY <1>6, QuotientFacts DEF Result, Divisions
<1> QED  BY <1>2, <1>3, <1>4, <1>5, <1>6 DEF Binary

(* A binary word replaces its operands by the result, or is left without.  *)
LEMMA BinaryGives ==
  ASSUME NEW m, NEW s \in Seq(Long), Shows(m, s), NEW w \in Binary
  PROVE  IF 2 <= Len(s)
         THEN /\ Faults(m, w) <=> w \in Divisions /\ NoQuotient(Up(s, 1), Up(s, 0))
              /\ Up(s, 1) \in Long /\ Up(s, 0) \in Long
              /\ IF Faults(m, w) THEN Shows(d_binary(m, w), Cut(s, 2))
                 ELSE Shows(d_binary(m, w), Cut(s, 2) \o <<Result(w, Up(s, 1), Up(s, 0))>>)
         ELSE Lost(d_binary(m, w))
<1> DEFINE l1 == d_tos(m)
           l2 == d_tos(d_pop(m))
           n == d_pop(d_pop(m))
<1>1. Len(s) \in Nat /\ D \in Nat /\ Len(s) <= D
  BY LenProperties, LongFacts DEF Shows
<1>2. l1 \in Long /\ l2 \in Long
  BY Pops
<1>3. /\ d_binary(m, w) = IF w \in Divisions /\ NoQuotient(l2, l1)
                          THEN n ELSE d_push(n, Result(w, l2, l1))
      /\ Faults(m, w) <=> w \in Divisions /\ NoQuotient(l2, l1)
  BY DEF d_binary, Faults
<1>4. ~(w \in Divisions /\ NoQuotient(l2, l1)) => Result(w, l2, l1) \in Long
  BY <1>2, ResultType
<1>5. IF 2 <= Len(s) THEN Shows(n, Cut(s, 2)) /\ l1 = Up(s, 0) /\ l2 = Up(s, 1)
                     ELSE Lost(n)
  <2>1. (2 <= Len(s) => 1 <= Len(s)) /\ Len(s) - 0 = Len(s)
    BY <1>1
  <2> QED  BY <2>1, Pops DEF Up
<1> HIDE DEF l1, l2, n
<1>6. CASE 2 <= Len(s)
  <2>1. 2 \in 0 .. Len(s)
    BY <1>1, <1>6
  <2>2. Cut(s, 2) \in Seq(Long) /\ Len(Cut(s, 2)) = Len(s) - 2
    BY <2>1, CutFacts
  <2>3. Len(Cut(s, 2)) + 1 <= D
    BY <1>1, <2>2
  <2>4. CASE Faults(m, w)
    BY <1>2, <1>3, <1>5, <1>6, <2>4
  <2>5. CASE ~Faults(m, w)
    <3>1. Result(w, l2, l1) \in Long /\ d_binary(m, w) = d_push(n, Result(w, l2, l1))
      BY <1>3, <1>4, <2>5
    <3>2. Shows(d_binary(m, w), Cut(s, 2) \o <<Result(w, l2, l1)>>)
      BY <1>5, <1>6, <2>2, <2>3, <3>1, Pushes
    <3> QED  BY <1>2, <1>3, <1>5, <1>6, <2>5, <3>2
  <2> QED  BY <2>4, <2>5
<1>7. CASE ~(2 <= Len(s))
  <2>1. Lost(n)
    BY <1>5, <1>7
  <2>2. CASE w \in Divisions /\ NoQuotient(l2, l1)
    BY <1>3, <1>7, <2>1, <2>2
  <2>3. CASE ~(w \in Divisions /\ NoQuotient(l2, l1))
    BY <1>3, <1>4, <1>7, <2>1, <2>3, LostStays
  <2> QED  BY <2>2, <2>3
<1> QED  BY <1>6, <1>7

LEMMA ConstantGives ==
  ASSUME NEW m, NEW s \in Seq(Long), Shows(m, s)
  PROVE  /\ Gives(d_push(m, F_TRUE), s, Len(s) + 1 <= D, 0, <<0>>)
         /\ Gives(d_push(m, F_FALSE), s, Len(s) + 1 <= D, 0, <<-1>>)
         /\ Gives(my_custom(m), s, Len(s) + 2 <= D, 0, <<1, 2>>)
         /\ Gives(d_not(m), s, 1 <= Len(s), 1, <<Flag(Up(s, 0) = 0, 1, 0)>>)
<1>1. Len(s) \in Nat /\ D \in Nat /\ Len(s) <= D /\ Cut(s, 0) = s
  BY LenProperties, LongFacts, CutFacts DEF Shows
<1>2. 0 \in Long /\ 1 \in Long /\ 2 \in Long /\ -1 \in Long
  BY LongFacts
<1>3. Gives(d_push(m, F_TRUE), s, Len(s) + 1 <= D, 0, <<0>>)
  BY <1>1, <1>2, Pushes DEF Gives, F_TRUE
<1>4. Gives(d_push(m, F_FALSE), s, Len(s) + 1 <= D, 0, <<-1>>)
  BY <1>1, <1>2, Pushes DEF Gives, F_FALSE
<1>5. Gives(my_custom(m), s, Len(s) + 2 <= D, 0, <<1, 2>>)
  BY <1>1, <1>2, Pushes DEF Gives, my_custom
<1>6. Gives(d_not(m), s, 1 <= Len(s), 1, <<Flag(Up(s, 0) = 0, 1, 0)>>)
  <2>1. \A holds \in BOOLEAN : Flag(holds, 1, 0) \in Long
    BY <1>2 DEF Flag
  <2>2. Flag(Up(s, 0) = 0, 1, 0) \in Long /\ Flag(d_tos(m) = 0, 1, 0) \in Long
    BY <2>1
  <2>3. CASE 1 <= Len(s)
    <3>1. 1 \in 0 .. Len(s) /\ Len(s) - 0 = Len(s)
      BY <1>1, <2>3
    <3>2. /\ Cut(s, 1) \in Seq(Long) /\ Len(Cut(s, 1)) = Len(s) - 1
          /\ Shows(d_pop(m), Cut(s, 1)) /\ d_tos(m) = Up(s, 0)
      BY <2>3, <3>1, CutFacts, Pops DEF Up
    <3>3. Len(Cut(s, 1)) + 1 <= D
      BY <1>1, <3>2
    <3> QED  BY <2>2, <2>3, <3>2, <3>3, Pushes DEF Gives, d_not
  <2>4. CASE ~(1 <= Len(s))
    <3>1. Lost(d_pop(m))
      BY <2>4, Pops
    <3> QED  BY <2>2, <2>4, <3>1, LostStays DEF Gives, d_not
  <2> QED  BY <2>3, <2>4
<1> QED  BY <1>3, <1>4, <1>5, <1>6
-----------------------------------------------------------------------------
(***************************************************************************)
(* The stack that is shown, and the promise about it.                      *)
(***************************************************************************)
Shown == IF status = "fine" THEN [i \in 1 .. d_top |-> d_stack[i - 1]] ELSE << >>

StackTypes ==
  /\ d_stack \in [Cells -> Long]
  /\ d_top \in 0 .. D
  /\ status \in {"fine", "beyond", "dead"}

LEMMA TaskShows ==
  ASSUME StackTypes, status = "fine"
  PROVE  Shows(Task, Shown) /\ Shown \in Seq(Long)
<1>1. d_top \in Nat /\ d_top <= D /\ D \in Nat
  BY LongFacts DEF StackTypes
<1>2. \A i \in 1 .. d_top : i - 1 \in Cells
  BY <1>1 DEF Cells
<1>3. Shown \in [1 .. d_top -> Long]
  BY <1>2 DEF Shown, StackTypes
<1>4. Shown \in Seq(Long) /\ Len(Shown) = d_top
  BY <1>1, <1>3
<1>5. \A i \in 1 .. Len(Shown) : Task.cell[i - 1] = Shown[i]
  BY <1>4 DEF Shown, Task
<1> QED  BY <1>1, <1>4, <1>5 DEF Shows, Task, TaskRecords, StackTypes

LEMMA BecomesShown ==
  ASSUME StackTypes, status = "fine",
         NEW r, NEW t, Shows(r, t), NEW faults \in BOOLEAN, Becomes(r, faults)
  PROVE  /\ StackTypes'
         /\ ~faults => UNCHANGED status /\ Shown' = t
         /\ faults => status' = "dead" /\ Shown' = << >>
<1>1. CASE faults
  BY <1>1 DEF Becomes, Shows, StackTypes, Shown
<1>2. CASE ~faults
  <2>1. d_stack' = r.cell /\ d_top' = r.top /\ UNCHANGED status
    BY <1>2 DEF Becomes, Shows
  <2>2. /\ r.cell \in [Cells -> Long] /\ t \in Seq(Long) /\ Len(t) \in Nat
        /\ r.top = Len(t) /\ Len(t) <= D /\ D \in Nat
        /\ \A i \in 1 .. Len(t) : r.cell[i - 1] = t[i]
    BY LenProperties, LongFacts DEF Shows, TaskRecords
  <2>3. StackTypes'
    BY <2>1, <2>2 DEF StackTypes
  <2>4. Shown' = [i \in 1 .. Len(t) |-> r.cell[i - 1]]
    BY <2>1, <2>2 DEF Shown
  <2>5. [i \in 1 .. Len(t) |-> r.cell[i - 1]] = t
    BY <2>2
  <2> QED  BY <1>2, <2>1, <2>3, <2>4, <2>5
<1> QED  BY <1>1, <1>2

LEMMA BecomesLost ==
  ASSUME StackTypes, NEW r, Lost(r), NEW faults \in BOOLEAN, Becomes(r, faults)
  PROVE  StackTypes' /\ status' = "beyond" /\ Shown' = << >>
<1>1. status' = "beyond" /\ UNCHANGED <<d_stack, d_top>>
  BY DEF Becomes, Lost
<1> QED  BY <1>1 DEF StackTypes, Shown

LEMMA Promises ==
  /\ \A k : Promised!Top(k) = Up(Shown, k)
  /\ \A n, new : Promised!Replaces(n, new) <=> Shown' = Cut(Shown, n) \o new
  /\ \A how : Promised!Ends(how) <=> status' = how /\ Shown' = << >>
  /\ Promised!Numbers = Long /\ Promised!Least = LONG_MIN
BY DEF Promised!Top, Promised!Replaces, Promised!Ends, Promised!Numbers, Promised!Least,
       Shown, Up, Cut, Long, LONG_MIN

LEMMA Applying ==
  ASSUME StackTypes, status = "fine"
  PROVE  /\ \A w \in {"TRUE", "FALSE"} : Promised!Applies(w) <=> Len(Shown) + 1 <= D
         /\ Promised!Applies("my_custom") <=> Len(Shown) + 2 <= D
         /\ Promised!Applies("DUP") <=> 1 <= Len(Shown) /\ Len(Shown) + 1 <= D
         /\ Promised!Applies("OVER") <=> 2 <= Len(Shown) /\ Len(Shown) + 1 <= D
         /\ \A w \in {"DROP", "NOT"} : Promised!Applies(w) <=> 1 <= Len(Shown)
         /\ \A w \in {"SWAP", "2DROP"} \cup Binary : Promised!Applies(w) <=> 2 <= Len(Shown)
         /\ Promised!Applies("ROT") <=> 3 <= Len(Shown)
         /\ Promised!Applies("PICK")
              <=> /\ 1 <= Len(Shown) /\ 0 <= AsInt(Up(Shown, 0))
                  /\ AsInt(Up(Shown, 0)) + 2 <= Len(Shown)
<1>1. Shown \in Seq(Long) /\ Len(Shown) \in Nat /\ Len(Shown) <= D /\ D \in Nat
  BY TaskShows, LenProperties, LongFacts DEF Shows
<1>2. \A w : Promised!Applies(w)
               <=> /\ Len(Shown) >= Promised!Takes(w)
                   /\ Len(Shown) + Promised!Grows(w) <= D
                   /\ w = "PICK" => Promised!Index(Up(Shown, 0)) >= 0
  BY Promises DEF Promised!Applies, Shown
<1>3. /\ \A w \in {"TRUE", "FALSE"} : Promised!Takes(w) = 0 /\ Promised!Grows(w) = 1
      /\ Promised!Takes("my_custom") = 0 /\ Promised!Grows("my_custom") = 2
      /\ Promised!Takes("DUP") = 1 /\ Promised!Grows("DUP") = 1
      /\ Promised!Takes("OVER") = 2 /\ Promised!Grows("OVER") = 1
      /\ \A w \in {"DROP", "NOT"} : Promised!Takes(w) = 1 /\ Promised!Grows(w) = 0
      /\ Promised!Takes("ROT") = 3 /\ Promised!Grows("ROT") = 0
      /\ Promised!Grows("PICK") = 0
  BY DEF Promised!Takes, Promised!Grows
<1>4. ASSUME NEW w \in {"SWAP", "2DROP"} \cup Binary
      PROVE  Promised!Takes(w) = 2 /\ Promised!Grows(w) = 0
  <2>1. w \notin {"TRUE", "FALSE", "my_custom", "DUP", "OVER", "DROP", "NOT", "ROT", "PICK"}
    BY DEF Binary, Divisions
  <2> QED  BY <2>1 DEF Promised!Takes, Promised!Grows
<1>5. Promised!Takes("PICK") =
        IF Shown = << >> \/ Promised!Index(Up(Shown, 0)) < 0 THEN 1
        ELSE Promised!Index(Up(Shown, 0)) + 2
  BY Promises DEF Promised!Takes, Shown
<1>6. /\ \A w \in {"TRUE", "FALSE"} : Promised!Applies(w) <=> Len(Shown) + 1 <= D
      /\ Promised!Applies("my_custom") <=> Len(Shown) + 2 <= D
      /\ Promised!Applies("DUP") <=> 1 <= Len(Shown) /\ Len(Shown) + 1 <= D
      /\ Promised!Applies("OVER") <=> 2 <= Len(Shown) /\ Len(Shown) + 1 <= D
      /\ \A w \in {"DROP", "NOT"} : Promised!Applies(w) <=> 1 <= Len(Shown)
      /\ Promised!Applies("ROT") <=> 3 <= Len(Shown)
  BY <1>1, <1>2, <1>3
<1>7. \A w \in {"SWAP", "2DROP"} \cup Binary : Promised!Applies(w) <=> 2 <= Len(Shown)
  <2>1. \A w \in {"SWAP", "2DROP"} \cup Binary : w # "PICK"
    BY DEF Binary, Divisions
  <2> QED  BY <1>1, <1>2, <1>4, <2>1
<1>8. Promised!Applies("PICK")
        <=> /\ 1 <= Len(Shown) /\ 0 <= AsInt(Up(Shown, 0))
            /\ AsInt(Up(Shown, 0)) + 2 <= Len(Shown)
  <2>1. CASE 1 <= Len(Shown)
    <3>1. /\ Shown # << >> /\ AsInt(Up(Shown, 0)) \in Int
          /\ Promised!Index(Up(Shown, 0)) = AsInt(Up(Shown, 0))
      <4>1. 0 \in Nat /\ 0 < Len(Shown) /\ Len(<< >>) = 0
        BY <1>1, <2>1
      <4>2. Up(Shown, 0) \in Long
        BY <1>1, <4>1, UpType
      <4>3. Len(Shown) # Len(<< >>)
        BY <1>1, <4>1
      <4>4. Up(Shown, 0) \in Int
        BY <4>2, LongFacts
      <4> QED  BY <4>3, <4>4, IntFacts, AsIntFacts, IndexRight
    <3> QED  BY <1>1, <1>2, <1>3, <1>5, <2>1, <3>1
  <2>2. CASE ~(1 <= Len(Shown))
    <3>1. Shown = << >>
      BY <1>1, <2>2, EmptySeq
    <3> QED  BY <1>1, <1>2, <1>5, <2>2, <3>1
  <2> QED  BY <2>1, <2>2
<1> QED  BY <1>6, <1>7, <1>8

(* How a word without a quotient ends.                                     *)
LEMMA GivesBecomes ==
  ASSUME StackTypes, status = "fine", NEW r, NEW n, NEW new, NEW applies \in BOOLEAN,
         Gives(r, Shown, applies, n, new), Becomes(r, FALSE)
  PROVE  /\ StackTypes'
         /\ IF applies THEN Shown' = Cut(Shown, n) \o new /\ UNCHANGED status
                       ELSE Promised!Ends("beyond")
<1>1. CASE applies
  BY <1>1, BecomesShown, Promises DEF Gives
<1>2. CASE ~applies
  BY <1>2, BecomesLost, Promises DEF Gives
<1> QED  BY <1>1, <1>2

Outcome(w) ==
  \/ ~Promised!Applies(w) /\ Promised!Ends("beyond")
  \/ Promised!Applies(w) /\ Promised!Traps(w) /\ Promised!Ends("dead")
  \/ /\ Promised!Applies(w) /\ ~Promised!Traps(w)
     /\ Promised!Shuffles(w) \/ Promised!Decides(w) \/ Promised!Computes(w) \/ Promised!Divides(w)
     /\ UNCHANGED status

Executed(w) == Becomes(code(w, Task), Faults(Task, w))

LEMMA NoDivision ==
  ASSUME StackTypes, status = "fine", NEW w, w \notin Divisions, Executed(w),
         NEW n, NEW new, Gives(code(w, Task), Shown, Promised!Applies(w), n, new),
         Shown' = Cut(Shown, n) \o new
           => Promised!Shuffles(w) \/ Promised!Decides(w) \/ Promised!Computes(w)
  PROVE  StackTypes' /\ Outcome(w)
<1>1. ~Faults(Task, w) /\ ~Promised!Traps(w)
  BY DEF Faults, Promised!Traps, Divisions
<1>2. Becomes(code(w, Task), FALSE)
  BY <1>1 DEF Executed, Becomes
<1>3. Promised!Applies(w) \in BOOLEAN
  BY DEF Promised!Applies
<1>4. /\ StackTypes'
      /\ IF Promised!Applies(w) THEN Shown' = Cut(Shown, n) \o new /\ UNCHANGED status
                                ELSE Promised!Ends("beyond")
  BY <1>2, <1>3, GivesBecomes
<1> QED  BY <1>1, <1>4 DEF Outcome

LEMMA ShufflesRight ==
  ASSUME StackTypes, status = "fine",
         NEW w \in {"DUP", "SWAP", "OVER", "ROT", "DROP", "2DROP", "PICK", "my_custom"},
         Executed(w)
  PROVE  StackTypes' /\ Outcome(w)
<1>1. w \notin Divisions
  BY DEF Divisions
<1>2. Shows(Task, Shown) /\ Shown \in Seq(Long)
  BY TaskShows
<1> SUFFICES \E n, new : /\ Gives(code(w, Task), Shown, Promised!Applies(w), n, new)
                         /\ Shown' = Cut(Shown, n) \o new => Promised!Shuffles(w)
  BY <1>1, NoDivision
<1>3. CASE w = "DUP"
  <2>1. code(w, Task) = d_dup(Task)
    BY <1>3 DEF code, Binary, Divisions
  <2>2. Gives(code(w, Task), Shown, Promised!Applies(w), 0, <<Up(Shown, 0)>>)
    BY <1>2, <1>3, <2>1, DupGives, Applying DEF Gives
  <2>3. Shown' = Cut(Shown, 0) \o <<Up(Shown, 0)>> => Promised!Shuffles(w)
    BY <1>3 DEF Promised!Shuffles, Promised!Replaces, Promised!Top, Shown, Cut, Up
  <2> QED  BY <2>2, <2>3
<1>4. CASE w = "OVER"
  <2>1. code(w, Task) = d_over(Task)
    BY <1>4 DEF code, Binary, Divisions
  <2>2. Gives(code(w, Task), Shown, Promised!Applies(w), 0, <<Up(Shown, 1)>>)
    BY <1>2, <1>4, <2>1, DupGives, Applying DEF Gives
  <2>3. Shown' = Cut(Shown, 0) \o <<Up(Shown, 1)>> => Promised!Shuffles(w)
    BY <1>4 DEF Promised!Shuffles, Promised!Replaces, Promised!Top, Shown, Cut, Up
  <2> QED  BY <2>2, <2>3
<1>5. CASE w = "SWAP"
  <2>1. code(w, Task) = d_swap(Task)
    BY <1>5 DEF code, Binary, Divisions
  <2>2. Gives(code(w, Task), Shown, Promised!Applies(w), 2, <<Up(Shown, 0), Up(Shown, 1)>>)
    BY <1>2, <1>5, <2>1, SwapGives, Applying DEF Gives
  <2>3. Shown' = Cut(Shown, 2) \o <<Up(Shown, 0), Up(Shown, 1)>> => Promised!Shuffles(w)
    BY <1>5 DEF Promised!Shuffles, Promised!Replaces, Promised!Top, Shown, Cut, Up
  <2> QED  BY <2>2, <2>3
<1>6. CASE w = "ROT"
  <2>1. code(w, Task) = d_rot(Task)
    BY <1>6 DEF code, Binary, Divisions
  <2>2. Gives(code(w, Task), Shown, Promised!Applies(w), 3, <<Up(Shown, 1), Up(Shown, 0), Up(Shown, 2)>>)
    BY <1>2, <1>6, <2>1, SwapGives, Applying DEF Gives
  <2>3. Shown' = Cut(Shown, 3) \o <<Up(Shown, 1), Up(Shown, 0), Up(Shown, 2)>> => Promised!Shuffles(w)
    BY <1>6 DEF Promised!Shuffles, Promised!Replaces, Promised!Top, Shown, Cut, Up
  <2> QED  BY <2>2, <2>3
<1>7. CASE w = "DROP"
  <2>1. code(w, Task) = d_drop(Task)
    BY <1>7 DEF code, Binary, Divisions
  <2>2. Gives(code(w, Task), Shown, Promised!Applies(w), 1, << >>)
    BY <1>2, <1>7, <2>1, DropGives, Applying DEF Gives
  <2>3. Shown' = Cut(Shown, 1) \o << >> => Promised!Shuffles(w)
    BY <1>7 DEF Promised!Shuffles, Promised!Replaces, Promised!Top, Shown, Cut, Up
  <2> QED  BY <2>2, <2>3
<1>8. CASE w = "2DROP"
  <2>1. code(w, Task) = d_drop2(Task)
    BY <1>8 DEF code, Binary, Divisions
  <2>2. Gives(code(w, Task), Shown, Promised!Applies(w), 2, << >>)
    BY <1>2, <1>8, <2>1, DropGives, Applying DEF Gives
  <2>3. Shown' = Cut(Shown, 2) \o << >> => Promised!Shuffles(w)
    BY <1>8 DEF Promised!Shuffles, Promised!Replaces, Promised!Top, Shown, Cut, Up
  <2> QED  BY <2>2, <2>3
<1>9. CASE w = "PICK"
  <2>1. code(w, Task) = f_pick(Task)
    BY <1>9 DEF code, Binary, Divisions
  <2>2. Gives(code(w, Task), Shown, Promised!Applies(w), 1, <<Up(Shown, AsInt(Up(Shown, 0)) + 1)>>)
    BY <1>2, <1>9, <2>1, PickGives, Applying DEF Gives
  <2>3. Promised!Applies(w) => Promised!Index(Up(Shown, 0)) = AsInt(Up(Shown, 0))
    <3> SUFFICES ASSUME Promised!Applies(w)
                 PROVE  Promised!Index(Up(Shown, 0)) = AsInt(Up(Shown, 0))
      OBVIOUS
    <3>1. 0 \in Nat /\ 0 < Len(Shown)
      BY <1>2, <1>9, Applying, LenProperties
    <3>2. Up(Shown, 0) \in Int
      BY <1>2, <3>1, UpType, LongFacts
    <3> QED  BY <3>2, IndexRight
  <2> DEFINE new == <<Up(Shown, Promised!Index(Up(Shown, 0)) + 1)>>
  <2>4. Gives(code(w, Task), Shown, Promised!Applies(w), 1, new)
    BY <2>2, <2>3 DEF Gives
  <2>5. Shown' = Cut(Shown, 1) \o new => Promised!Shuffles(w)
    BY <1>9 DEF Promised!Shuffles, Promised!Replaces, Promised!Top, Shown, Cut, Up
  <2> HIDE DEF new
  <2> QED  BY <2>4, <2>5
<1>10. CASE w = "my_custom"
  <2>1. code(w, Task) = my_custom(Task)
    BY <1>10 DEF code, Binary, Divisions
  <2>2. Gives(code(w, Task), Shown, Promised!Applies(w), 0, <<1, 2>>)
    BY <1>2, <1>10, <2>1, ConstantGives, Applying DEF Gives
  <2>3. Shown' = Cut(Shown, 0) \o <<1, 2>> => Promised!Shuffles(w)
    BY <1>10 DEF Promised!Shuffles, Promised!Replaces, Promised!Top, Shown, Cut, Up
  <2> QED  BY <2>2, <2>3
<1> QED  BY <1>3, <1>4, <1>5, <1>6, <1>7, <1>8, <1>9, <1>10

LEMMA CodeOfBinary == \A w \in Binary : code(w, Task) = d_binary(Task, w)
BY DEF code, Binary, Divisions

LEMMA ConstantsRight ==
  ASSUME StackTypes, status = "fine", NEW w \in {"TRUE", "FALSE", "NOT"}, Executed(w)
  PROVE  StackTypes' /\ Outcome(w)
<1>1. w \notin Divisions
  BY DEF Divisions
<1>2. Shows(Task, Shown) /\ Shown \in Seq(Long)
  BY TaskShows
<1>3. 0 \in Promised!Numbers /\ 1 \in Promised!Numbers /\ -1 \in Promised!Numbers
  BY Promises, LongFacts
<1> SUFFICES \E n, new : /\ Gives(code(w, Task), Shown, Promised!Applies(w), n, new)
                         /\ Shown' = Cut(Shown, n) \o new => Promised!Decides(w)
  BY <1>1, NoDivision
<1>4. CASE w = "TRUE"
  <2>1. code(w, Task) = d_push(Task, F_TRUE)
    BY <1>4 DEF code, Binary, Divisions
  <2>2. Gives(code(w, Task), Shown, Promised!Applies(w), 0, <<0>>)
    BY <1>2, <1>4, <2>1, ConstantGives, Applying DEF Gives
  <2>3. Promised!Takes(w) = 0 /\ Promised!Holds(w)
    BY <1>4 DEF Promised!Takes, Promised!Holds
  <2>4. Shown' = Cut(Shown, 0) \o <<0>> => Promised!Decides(w)
    BY <1>3, <1>4, <2>3 DEF Promised!Decides, Promised!Replaces, Shown, Cut
  <2> QED  BY <2>2, <2>4
<1>5. CASE w = "FALSE"
  <2>1. code(w, Task) = d_push(Task, F_FALSE)
    BY <1>5 DEF code, Binary, Divisions
  <2>2. Gives(code(w, Task), Shown, Promised!Applies(w), 0, <<-1>>)
    BY <1>2, <1>5, <2>1, ConstantGives, Applying DEF Gives
  <2>3. Promised!Takes(w) = 0 /\ ~Promised!Holds(w) /\ -1 # 0
    BY <1>5 DEF Promised!Takes, Promised!Holds
  <2>4. Shown' = Cut(Shown, 0) \o <<-1>> => Promised!Decides(w)
    BY <1>3, <1>5, <2>3 DEF Promised!Decides, Promised!Replaces, Shown, Cut
  <2> QED  BY <2>2, <2>4
<1>6. CASE w = "NOT"
  <2> DEFINE flag == Flag(Up(Shown, 0) = 0, 1, 0)
  <2>1. code(w, Task) = d_not(Task)
    BY <1>6 DEF code, Binary, Divisions
  <2>2. Gives(code(w, Task), Shown, Promised!Applies(w), 1, <<flag>>)
    <3>1. Gives(code(w, Task), Shown, 1 <= Len(Shown), 1, <<flag>>)
      BY <1>2, <2>1, ConstantGives
    <3>2. Promised!Applies(w) <=> 1 <= Len(Shown)
      BY <1>6, Applying
    <3> HIDE DEF flag
    <3> QED  BY <3>1, <3>2 DEF Gives
  <2>3. Promised!Takes(w) = 1 /\ (Promised!Holds(w) <=> Up(Shown, 0) # 0)
    BY <1>6, Promises DEF Promised!Takes, Promised!Holds
  <2>4. flag \in Promised!Numbers /\ (flag = 0 <=> Up(Shown, 0) # 0)
    BY <1>3 DEF Flag
  <2> HIDE DEF flag
  <2>5. Shown' = Cut(Shown, 1) \o <<flag>> => Promised!Decides(w)
    BY <1>6, <2>3, <2>4 DEF Promised!Decides, Promised!Replaces, Shown, Cut
  <2> QED  BY <2>2, <2>5
<1> QED  BY <1>4, <1>5, <1>6

LEMMA ResultsRight ==
  ASSUME StackTypes, status = "fine", NEW w \in Binary \ Divisions, Executed(w)
  PROVE  StackTypes' /\ Outcome(w)
<1> DEFINE l2 == Up(Shown, 1)
           l1 == Up(Shown, 0)
           n == Result(w, l2, l1)
<1>1. Shows(Task, Shown) /\ Shown \in Seq(Long)
  BY TaskShows
<1>2. w \in Binary /\ code(w, Task) = d_binary(Task, w) /\ (Promised!Applies(w) <=> 2 <= Len(Shown))
  BY CodeOfBinary, Applying
<1>3. Gives(code(w, Task), Shown, Promised!Applies(w), 2, <<n>>)
  BY <1>1, <1>2, BinaryGives DEF Gives
<1>4. 2 <= Len(Shown) => l1 \in Long /\ l2 \in Long
  BY <1>1, <1>2, BinaryGives
<1>5. Promised!Top(0) = l1 /\ Promised!Top(1) = l2
  BY Promises
<1>6. CASE ~(2 <= Len(Shown))
  <2>1. Lost(code(w, Task)) /\ ~Promised!Applies(w) /\ Becomes(code(w, Task), FALSE)
    BY <1>2, <1>3, <1>6 DEF Gives, Executed, Faults, Becomes, Lost
  <2> QED  BY <2>1, BecomesLost, Promises DEF Outcome
<1>7. CASE 2 <= Len(Shown)
  <2>1. l1 \in Long /\ l2 \in Long /\ l1 \in Int /\ l2 \in Int
    BY <1>4, <1>7, LongFacts
  <2>2. n \in Long
    BY <1>2, <2>1, ResultType
  <2> HIDE DEF l1, l2
  <2>3. CASE w \in {"+", "-", "*"}
    <3>1. PICK x \in Int : x = Promised!Exact(w) /\ n = Wrap(x)
      <4>1. l2 * l1 \in Int /\ l2 + l1 \in Int /\ l2 - l1 \in Int /\ l2 + l1 = l1 + l2
        BY <2>1
      <4>2. CASE w = "+"
        BY <1>5, <4>1, <4>2 DEF Promised!Exact, Result
      <4>3. CASE w = "-"
        BY <1>5, <4>1, <4>3 DEF Promised!Exact, Result
      <4>4. CASE w = "*"
        BY <1>5, <4>1, <4>4 DEF Promised!Exact, Result
      <4> QED  BY <2>3, <4>2, <4>3, <4>4
    <3> HIDE DEF n
    <3>2. (Promised!Exact(w) - n) % (LONG_MAX - Promised!Least + 1) = 0
      BY <3>1, WrapFacts, Promises
    <3>3. n \in Promised!Numbers
      BY <2>2, Promises
    <3>4. Shown' = Cut(Shown, 2) \o <<n>> => Promised!Computes(w)
      BY <2>3, <3>2, <3>3 DEF Promised!Computes, Promised!Replaces, Shown, Cut
    <3> QED  BY <1>3, <3>4, NoDivision
  <2>4. CASE w \in {">", "<", "=", "AND", "OR"}
    <3>1. n = 0 <=> Promised!Holds(w)
      <4>1. \A holds \in BOOLEAN : Flag(holds, 0, 1) = 0 <=> holds
        BY DEF Flag
      <4>2. CASE w \in {">", "<"}
        <5>1. /\ (l2 > l1) \in BOOLEAN /\ (l2 > l1 <=> Promised!Top(1) > Promised!Top(0))
              /\ (l2 < l1) \in BOOLEAN /\ (l2 < l1 <=> Promised!Top(1) < Promised!Top(0))
          BY <1>5, <2>1
        <5>2. n = IF w = ">" THEN Flag(l2 > l1, 0, 1) ELSE Flag(l2 < l1, 0, 1)
          BY <4>2 DEF Result
        <5>3. Promised!Holds(w) <=> IF w = ">" THEN Promised!Top(1) > Promised!Top(0)
                                              ELSE Promised!Top(1) < Promised!Top(0)
          BY <4>2 DEF Promised!Holds
        <5> HIDE DEF n
        <5> QED  BY <4>1, <4>2, <5>1, <5>2, <5>3
      <4>3. CASE w = "="
        BY <1>5, <4>3 DEF Promised!Holds, Result, Flag, F_TRUE, F_FALSE
      <4>4. CASE w \in {"AND", "OR"}
        BY <1>5, <4>1, <4>4 DEF Promised!Holds, Result
      <4> QED  BY <2>4, <4>2, <4>3, <4>4
    <3>2. Promised!Takes(w) = 2
      BY <2>4 DEF Promised!Takes
    <3> HIDE DEF n
    <3>3. n \in Promised!Numbers
      BY <2>2, Promises
    <3>4. Shown' = Cut(Shown, 2) \o <<n>> => Promised!Decides(w)
      BY <2>4, <3>1, <3>2, <3>3 DEF Promised!Decides, Promised!Replaces, Shown, Cut
    <3> QED  BY <1>3, <3>4, NoDivision
  <2> QED  BY <2>3, <2>4 DEF Binary
<1> QED  BY <1>6, <1>7

LEMMA DivisionsRight ==
  ASSUME StackTypes, status = "fine", NEW w \in Divisions, Executed(w)
  PROVE  StackTypes' /\ Outcome(w)
<1> DEFINE a == Up(Shown, 1)
           b == Up(Shown, 0)
           q == Quotient(a, b)
           r == a - b * Quotient(a, b)
<1>1. Shows(Task, Shown) /\ Shown \in Seq(Long)
  BY TaskShows
<1>2. /\ w \in Binary /\ code(w, Task) = d_binary(Task, w)
      /\ Promised!Applies(w) <=> 2 <= Len(Shown)
      /\ Faults(Task, w) \in BOOLEAN
  BY CodeOfBinary, Applying DEF Binary, Faults
<1>3. Promised!Top(0) = b /\ Promised!Top(1) = a
  BY Promises
<1>4. CASE ~(2 <= Len(Shown))
  <2>1. Lost(code(w, Task)) /\ ~Promised!Applies(w)
    BY <1>1, <1>2, <1>4, BinaryGives
  <2> QED  BY <1>2, <2>1, BecomesLost, Promises DEF Outcome, Executed
<1>5. CASE 2 <= Len(Shown)
  <2>1. /\ a \in Long /\ b \in Long
        /\ Faults(Task, w) <=> NoQuotient(a, b)
        /\ IF Faults(Task, w) THEN Shows(code(w, Task), Cut(Shown, 2))
           ELSE Shows(code(w, Task), Cut(Shown, 2) \o <<Result(w, a, b)>>)
    BY <1>1, <1>2, <1>5, BinaryGives
  <2>2. Promised!Traps(w) <=> NoQuotient(a, b)
    BY <1>3, Promises DEF Promised!Traps, NoQuotient, Divisions
  <2>3. CASE NoQuotient(a, b)
    BY <1>2, <1>5, <2>1, <2>2, <2>3, BecomesShown, Promises DEF Outcome, Executed
  <2>4. CASE ~NoQuotient(a, b)
    <3>1. /\ StackTypes' /\ UNCHANGED status
          /\ Shown' = Cut(Shown, 2) \o <<Result(w, a, b)>>
      BY <1>2, <2>1, <2>4, BecomesShown DEF Executed
    <3>2. /\ q \in Long /\ r \in Long /\ a = q * b + r
          /\ Magnitude(r) < Magnitude(b) /\ (r # 0 => (r < 0 <=> a < 0))
      BY <2>1, <2>4, QuotientFacts
    <3>3. Result(w, a, b) = IF w = "/" THEN q ELSE r
      BY DEF Result, Divisions
    <3>4. \A n : Promised!Abs(n) = Magnitude(n)
      BY DEF Promised!Abs, Magnitude
    <3> HIDE DEF a, b, q, r
    <3>5. Promised!Divides(w)
      <4>1. q \in Promised!Numbers /\ r \in Promised!Numbers
        BY <3>2, Promises
      <4>2. /\ Promised!Top(1) = q * Promised!Top(0) + r
            /\ Promised!Abs(r) < Promised!Abs(Promised!Top(0))
            /\ r # 0 => (r < 0 <=> Promised!Top(1) < 0)
        BY <1>3, <3>2, <3>4
      <4>3. Shown' = Cut(Shown, 2) \o <<IF w = "/" THEN q ELSE r>>
        BY <3>1, <3>3
      <4> QED  BY <4>1, <4>2, <4>3 DEF Promised!Divides, Promised!Replaces, Shown, Cut, Divisions
    <3> QED  BY <1>2, <1>5, <2>2, <2>4, <3>1, <3>5 DEF Outcome
  <2> QED  BY <2>3, <2>4
<1> QED  BY <1>4, <1>5

LEMMA WordsRight ==
  ASSUME StackTypes, status = "fine", NEW w \in StackWords, Executed(w)
  PROVE  StackTypes' /\ Outcome(w)
<1>1. \/ w \in {"DUP", "SWAP", "OVER", "ROT", "DROP", "2DROP", "PICK", "my_custom"}
      \/ w \in {"TRUE", "FALSE", "NOT"}
      \/ w \in Binary \ Divisions
      \/ w \in Divisions
  BY DEF StackWords
<1> QED  BY <1>1, ShufflesRight, ConstantsRight, ResultsRight, DivisionsRight
-----------------------------------------------------------------------------
(***************************************************************************)
(* Every step of the index and the stack together.                         *)
(***************************************************************************)
BuiltinsInv == IndexInv /\ KeyInv /\ StackTypes

Promise == Promised!ForthStackNext

LEMMA InitKeeps == Init => BuiltinsInv /\ Promised!ForthStackInit
<1> SUFFICES ASSUME Init PROVE BuiltinsInv /\ Promised!ForthStackInit
  OBVIOUS
<1>1. IndexInv /\ KeyInv
  BY IndexInvInit DEF Init, KeyInv, IndexInit
<1>2. StackTypes
  BY LongFacts DEF Init, StackTypes
<1>3. [i \in 1 .. 0 |-> d_stack[i - 1]] = << >>
  OBVIOUS
<1>4. Promised!ForthStackInit
  BY <1>3 DEF Init, IndexInit, Promised!ForthStackInit
<1> QED  BY <1>1, <1>2, <1>4 DEF BuiltinsInv

LEMMA NumberKeeps ==
  ASSUME BuiltinsInv, status = "fine", NEW n \in Long, Number(n)
  PROVE  BuiltinsInv' /\ Promise
<1>1. StackTypes /\ Shows(Task, Shown) /\ Shown \in Seq(Long)
  BY TaskShows DEF BuiltinsInv
<1>2. /\ Becomes(d_push(Task, n), FALSE) /\ key = None /\ UNCHANGED key
      /\ IndexInv' /\ KeyInv'
  BY IndexInvStep, KeySteps DEF Number, BuiltinsInv, KeyInv, indexVars
<1>3. Gives(d_push(Task, n), Shown, Len(Shown) + 1 <= D, 0, <<n>>)
  <2>1. Len(Shown) \in Nat
    BY <1>1, LenProperties
  <2>2. Cut(Shown, 0) = Shown
    BY <1>1, <2>1, CutFacts
  <2> QED  BY <1>1, <2>2, Pushes DEF Gives
<1>4. (Len(Shown) + 1 <= D) \in BOOLEAN /\ (Len(Shown) + 1 <= D <=> Len(Shown) < D)
  BY <1>1, LenProperties, LongFacts
<1>5. /\ StackTypes'
      /\ IF Len(Shown) < D THEN Shown' = Cut(Shown, 0) \o <<n>> /\ UNCHANGED status
                           ELSE Promised!Ends("beyond")
  BY <1>1, <1>2, <1>3, <1>4, GivesBecomes
<1>6. Promised!Number(n)
  BY <1>2, <1>5 DEF Promised!Number, Promised!Replaces, Shown, Cut
<1>7. n \in Promised!Numbers
  BY Promises
<1> QED  BY <1>2, <1>5, <1>6, <1>7 DEF BuiltinsInv, Promise, Promised!ForthStackNext

LEMMA LookupKeeps ==
  ASSUME BuiltinsInv, status = "fine", Lookup
  PROVE  BuiltinsInv' /\ (Promise \/ UNCHANGED <<Shown, key, status>>)
<1>1. IndexNext /\ UNCHANGED stackVars
  BY DEF Lookup, LookedUp, IndexNext
<1>2. BuiltinsInv' /\ UNCHANGED <<Shown, status>>
  BY <1>1, IndexInvStep, KeySteps DEF BuiltinsInv, stackVars, StackTypes, Shown
<1>3. ASSUME NEW k \in LookedUp, builtin_lookup(k) PROVE Promise
  <2>1. Promised!Read(k)
    BY <1>2, <1>3 DEF builtin_lookup, BuiltinsInv, KeyInv, Promised!Read, Shown
  <2> QED  BY <2>1 DEF Promise, Promised!ForthStackNext
<1>4. CASE Search
  BY <1>2, <1>4 DEF Search, Hit, Miss, Narrow, Exhausted
<1>5. CASE pc = "unknown" /\ Answered
  <2>1. key # None /\ \A i \in 0 .. (N_builtins - 2) : name(i) # key
    BY <1>5 DEF BuiltinsInv, IndexInv, LookupDecides, KeyInv
  <2>2. key \notin Findable \cup {None}
    BY <2>1, LastIsNoOther
  <2>3. Promised!Leave
    BY <1>2, <1>5, <2>2 DEF Promised!Leave, Answered, Findable, Shown
  <2> QED  BY <1>2, <2>3 DEF Promise, Promised!ForthStackNext
<1> QED  BY <1>2, <1>3, <1>4, <1>5 DEF Lookup

LEMMA ExecuteKeeps ==
  ASSUME BuiltinsInv, status = "fine", Execute
  PROVE  BuiltinsInv' /\ Promise
<1>1. key \in Findable /\ key \in StackWords /\ DB_builtins[op] = key
  BY LastIsNoOther DEF Execute, BuiltinsInv, IndexInv, LookupDecides, KeyInv
<1>2. Executed(key) /\ StackTypes
  BY <1>1 DEF Execute, Executed, BuiltinsInv
<1>3. StackTypes' /\ Outcome(key)
  BY <1>1, <1>2, WordsRight
<1>4. IndexInv' /\ KeyInv' /\ key' = None
  BY IndexInvStep, KeySteps DEF Execute, IndexNext, BuiltinsInv, Answered
<1>5. Promised!Perform
  BY <1>1, <1>3, <1>4 DEF Outcome, Promised!Perform, Findable
<1> QED  BY <1>3, <1>4, <1>5 DEF BuiltinsInv, Promise, Promised!ForthStackNext

LEMMA StepsKeep ==
  ASSUME BuiltinsInv, [Next]_vars
  PROVE  BuiltinsInv' /\ [Promised!ForthStackNext]_(Promised!forthStackVars)
<1>1. CASE Next
  BY <1>1, NumberKeeps, LookupKeeps, ExecuteKeeps
     DEF Next, Promise, Promised!forthStackVars, Shown
<1>2. CASE UNCHANGED vars
  BY <1>2, IndexInvStep, KeySteps
     DEF vars, stackVars, indexVars, BuiltinsInv, StackTypes, Promised!forthStackVars
<1> QED  BY <1>1, <1>2

(* The array, d_top and the locals of the lookup keep their types: d_top   *)
(* stays between 0 and D however the words are mixed.                      *)
THEOREM StackTypesHold == Spec => []TypeOK
<1>1. BuiltinsInv => TypeOK
  BY DEF BuiltinsInv, IndexInv, StackTypes, TypeOK
<1> QED  BY <1>1, InitKeeps, StepsKeep, PTL DEF Spec

(* Whatever the words do in between, a lookup finds the opcode of the word *)
(* that was typed, and misses none but the last of the index.              *)
THEOREM LookupDecidesHere == Spec => []LookupDecides
<1>1. BuiltinsInv => LookupDecides
  BY DEF BuiltinsInv, IndexInv
<1> QED  BY <1>1, InitKeeps, StepsKeep, PTL DEF Spec

(* The index and the handlers together implement the stack that is         *)
(* promised, for every table of words, every depth and every width of a    *)
(* long and of an int.                                                     *)
THEOREM PromiseKept == Spec => KeepsItsPromise
BY InitKeeps, StepsKeep, PTL DEF Spec, KeepsItsPromise, Promised!ForthStackSpec
=============================================================================
