--------------------------- MODULE ForthRunProofs ---------------------------
(***************************************************************************)
(* Proofs about the programs of well-formed lines, as they are compiled    *)
(* and as they run: their loops close what they open and their branches    *)
(* stay at one depth of loops, so every jump and every return goes where   *)
(* the program says.                                                       *)
(***************************************************************************)
EXTENDS ForthSessionProofs

WellFormedSession == \A l \in Lines : WellFormed(l)

(***************************************************************************)
(* The depth of loops.                                                     *)
(***************************************************************************)
Delta(w) == IF w \in {"DO", "BEGIN"} THEN 1 ELSE IF w \in {"LOOP", "AGAIN", "UNTIL"} THEN -1 ELSE 0

(* The words whose place matters.                                          *)
Marks == LoopWords \cup Bracket \cup {"EXIT", ">r", "SEXEC"}

LEMMA DepthNext ==
  ASSUME NEW s, NEW n \in Nat
  PROVE  /\ Depth(s, n) \in Int
         /\ Depth(s, 0) = 0
         /\ Depth(s, n + 1) = Depth(s, n) + Delta(s[n + 1])
<1>1. \A w : /\ Opened(s, n, w) \in Nat /\ Opened(s, 0, w) = 0
             /\ Opened(s, n + 1, w) = Opened(s, n, w) + IF s[n + 1] = w THEN 1 ELSE 0
  BY OpenedType, OpenedNone, OpenedNext
<1> DEFINE w == s[n + 1]
           a == Opened(s, n, "DO")
           b == Opened(s, n, "BEGIN")
           c == Opened(s, n, "LOOP")
           d == Opened(s, n, "AGAIN")
           e == Opened(s, n, "UNTIL")
           is(v) == IF w = v THEN 1 ELSE 0
<1>2. /\ a \in Nat /\ b \in Nat /\ c \in Nat /\ d \in Nat /\ e \in Nat
      /\ Depth(s, n) = (a + b) - (c + d + e)
      /\ Depth(s, n + 1) = (a + is("DO") + (b + is("BEGIN")))
                             - (c + is("LOOP") + (d + is("AGAIN")) + (e + is("UNTIL")))
  BY <1>1 DEF Depth
<1>3. Depth(s, 0) = 0
  BY <1>1 DEF Depth
<1>4. Delta(w) = (is("DO") + is("BEGIN")) - (is("LOOP") + is("AGAIN") + is("UNTIL"))
  BY DEF Delta
<1>5. \A v : is(v) \in Int
  OBVIOUS
<1> HIDE DEF a, b, c, d, e, is, w
<1> QED  BY <1>2, <1>3, <1>4, <1>5 DEF w

(* Only the words of loops matter.                                         *)
LEMMA DepthSame ==
  ASSUME NEW l, NEW s, NEW n \in Nat, NEW m \in Nat, n <= m,
         \A k \in 1 .. n : l[k] = s[k],
         \A k \in (n + 1) .. m : s[k] \notin LoopWords
  PROVE  Depth(s, m) = Depth(l, n)
<1>1. ASSUME NEW w \in LoopWords
      PROVE  Opened(s, m, w) = Opened(l, n, w)
  <2>1. \A k \in (n + 1) .. m : s[k] # w
    BY <1>1
  <2> QED  BY <2>1, OpenedSame
<1> QED  BY <1>1 DEF Depth, LoopWords

LEMMA MarksAreWords ==
  /\ \A w : w \notin Marks => w \notin LoopWords /\ w \notin Bracket /\ Delta(w) = 0
  /\ Jumping \subseteq Bracket /\ LoopWords \cap Bracket = {}
  /\ NL \notin Marks
  /\ Marks \subseteq ControlWords \cup {">r", "SEXEC"}
<1>1. Marks \subseteq ControlWords \cup {">r", "SEXEC"}
  BY DEF Marks, LoopWords, Bracket, ControlWords, StructureWords
<1>2. NL \notin Marks
  BY DEF Marks, LoopWords, Bracket, NL
<1> QED  BY <1>1, <1>2 DEF Marks, LoopWords, Bracket, Delta, Jumping
-----------------------------------------------------------------------------
(***************************************************************************)
(* A program s follows its line l: at n tokens and r words both are at one *)
(* depth, and an IF or ELSE that s ends with is the last one read.         *)
(***************************************************************************)
LastJump(s, n, i) ==
  i \in 1 .. n /\ s[i] \in Jumping /\ \A k \in (i + 1) .. n : s[k] \notin Bracket
Follows(s, n, l, r) ==
  /\ Depth(s, n) = Depth(l, r)
  /\ \A i : LastJump(s, n, i) =>
       \E m : LastJump(l, r, m) /\ l[m] = s[i] /\ Depth(l, m) = Depth(s, i)

(* Words that leave no token and newlines change nothing.                  *)
LEMMA FollowsPlain ==
  ASSUME NEW s, NEW n \in Nat, NEW l, NEW r \in Nat, NEW q \in Nat, r <= q,
         \A k \in (r + 1) .. q : l[k] \notin Marks,
         Follows(s, n, l, r)
  PROVE  Follows(s, n, l, q)
<1>1. \A k \in (r + 1) .. q : l[k] \notin LoopWords /\ l[k] \notin Bracket
  BY MarksAreWords
<1>2. Depth(l, q) = Depth(l, r)
  BY <1>1, DepthSame
<1>3. \A m : LastJump(l, r, m) => LastJump(l, q, m)
  BY <1>1 DEF LastJump
<1> QED  BY <1>2, <1>3 DEF Follows

(* A token of its word's kind, or of no kind that matters.                 *)
LEMMA FollowsToken ==
  ASSUME NEW s, NEW t, NEW n \in Nat, Len(s) = n, Len(t) = n + 1, \A k \in 1 .. n : t[k] = s[k],
         NEW l, Len(l) \in Nat, NEW r \in Nat, r < Len(l), Shaped(l),
         Shaped(s), Follows(s, n, l, r),
         t[n + 1] = l[r + 1] \/ (t[n + 1] \notin Marks /\ l[r + 1] \notin Marks)
  PROVE  Shaped(t) /\ Follows(t, n + 1, l, r + 1)
<1> DEFINE v == t[n + 1]
           w == l[r + 1]
<1>1. \A k \in 0 .. n : Depth(t, k) = Depth(s, k) /\ Depth(t, k) \in Int
  <2>1. ASSUME NEW k \in 0 .. n
        PROVE  Depth(t, k) = Depth(s, k) /\ Depth(t, k) \in Int
    <3>1. k \in Nat /\ k <= k /\ (\A j \in 1 .. k : s[j] = t[j]) /\ (k + 1) .. k = {}
      OBVIOUS
    <3>2. Depth(t, k) = Depth(s, k)
      BY <3>1, DepthSame
    <3> QED  BY <3>1, <3>2, DepthNext
  <2> QED  BY <2>1
<1>2. Delta(v) = Delta(w) /\ (v \in Bracket \/ v \in LoopWords \/ v \in {"EXIT", ">r", "SEXEC"} => v = w)
  BY MarksAreWords DEF Marks
<1>3. Depth(t, n + 1) = Depth(l, r + 1) /\ Depth(l, r + 1) \in Int /\ Depth(l, r + 1) >= 0
  <2>1. Depth(t, n + 1) = Depth(t, n) + Delta(v) /\ Depth(l, r + 1) = Depth(l, r) + Delta(w)
    BY DepthNext
  <2>2. Depth(t, n) = Depth(l, r)
    BY <1>1 DEF Follows
  <2>3. Depth(l, r + 1) >= 0 /\ Depth(l, r + 1) \in Int
    <3>1. r + 1 \in Nat /\ r + 1 \in 0 .. Len(l)
      OBVIOUS
    <3> QED  BY <3>1, DepthNext DEF Shaped
  <2> QED  BY <1>2, <2>1, <2>2, <2>3
<1>4. \A i : i \in 1 .. n => (LastJump(t, n + 1, i) <=> LastJump(s, n, i) /\ v \notin Bracket)
  BY DEF LastJump
<1>5. \A i : LastJump(s, n, i) =>
        \E m : LastJump(l, r, m) /\ l[m] = s[i] /\ Depth(l, m) = Depth(s, i)
  BY DEF Follows
<1> HIDE DEF v, w
<1>6. Follows(t, n + 1, l, r + 1)
  <2> SUFFICES ASSUME NEW i, LastJump(t, n + 1, i)
               PROVE  \E m : LastJump(l, r + 1, m) /\ l[m] = t[i] /\ Depth(l, m) = Depth(t, i)
    BY <1>3 DEF Follows
  <2>1. CASE i = n + 1
    <3>1. v \in Jumping /\ v = w /\ t[i] = v
      BY <1>2, <2>1, MarksAreWords DEF LastJump, v
    <3>2. LastJump(l, r + 1, r + 1) /\ l[r + 1] = t[i]
      BY <3>1 DEF LastJump, w
    <3> QED  BY <1>3, <2>1, <3>2
  <2>2. CASE i # n + 1
    <3>1. i \in 1 .. n
      BY <2>2 DEF LastJump
    <3>2. LastJump(s, n, i) /\ v \notin Bracket
      BY <1>4, <3>1
    <3>3. PICK m : LastJump(l, r, m) /\ l[m] = s[i] /\ Depth(l, m) = Depth(s, i)
      BY <1>5, <3>2
    <3>4. w \notin Bracket
      BY <3>2, MarksAreWords DEF v, w, Marks
    <3>5. LastJump(l, r + 1, m)
      BY <3>3, <3>4 DEF LastJump, w
    <3> QED  BY <1>1, <3>1, <3>3, <3>5
  <2> QED  BY <2>1, <2>2
<1>7. Shaped(t)
  <2>1. ASSUME NEW k \in 0 .. Len(t)
        PROVE  Depth(t, k) >= 0
    <3>1. CASE k \in 0 .. n
      BY <1>1, <3>1 DEF Shaped
    <3>2. CASE k = n + 1
      BY <1>3, <3>2
    <3> QED  BY <3>1, <3>2
  <2>2. ASSUME NEW k \in 1 .. Len(t)
        PROVE  /\ t[k] = "EXIT" => Depth(t, k) = 0
               /\ t[k] \notin {">r", "SEXEC"}
    <3>1. CASE k \in 1 .. n
      BY <1>1, <3>1 DEF Shaped
    <3>2. CASE k = n + 1
      <4>1. r + 1 \in 1 .. Len(l)
        OBVIOUS
      <4>2. w = "EXIT" => Depth(l, r + 1) = 0
        BY <4>1 DEF Shaped, w
      <4>3. w \notin {">r", "SEXEC"}
        BY <4>1 DEF Shaped, w
      <4> QED  BY <1>2, <1>3, <3>2, <4>2, <4>3 DEF v
    <3> QED  BY <3>1, <3>2
  <2>3. ASSUME NEW m \in 1 .. Len(t), NEW k \in 1 .. Len(t),
               m < k, t[m] \in {"IF", "ELSE"}, t[k] \in Bracket,
               \A j \in (m + 1) .. (k - 1) : t[j] \notin Bracket
        PROVE  Paired(t, m, k)
    <3>1. CASE k \in 1 .. n
      <4>1. /\ m \in 1 .. Len(s) /\ k \in 1 .. Len(s) /\ s[m] = t[m] /\ s[k] = t[k]
            /\ \A j \in (m + 1) .. (k - 1) : s[j] \notin Bracket
        BY <2>3, <3>1
      <4>2. Paired(s, m, k)
        BY <2>3, <4>1 DEF Shaped
      <4> QED  BY <1>1, <2>3, <3>1, <4>1, <4>2 DEF Paired
    <3>2. CASE k = n + 1
      <4>1. LastJump(s, n, m)
        BY <2>3, <3>2 DEF LastJump, Jumping
      <4>2. PICK q : LastJump(l, r, q) /\ l[q] = s[m] /\ Depth(l, q) = Depth(s, m)
        BY <1>5, <4>1
      <4>3. v = w /\ v = t[k]
        BY <1>2, <2>3, <3>2 DEF v
      <4>4. /\ q \in 1 .. Len(l) /\ r + 1 \in 1 .. Len(l) /\ q < r + 1
            /\ l[q] \in {"IF", "ELSE"} /\ l[r + 1] \in Bracket
            /\ \A j \in (q + 1) .. (r + 1 - 1) : l[j] \notin Bracket
        BY <2>3, <4>2, <4>3 DEF LastJump, Jumping, w
      <4>5. Paired(l, q, r + 1)
        BY <4>4 DEF Shaped
      <4>6. s[m] = t[m] /\ Depth(t, m) = Depth(s, m)
        BY <1>1, <4>1 DEF LastJump
      <4> QED  BY <1>3, <3>2, <4>2, <4>3, <4>5, <4>6 DEF Paired, w
    <3> QED  BY <3>1, <3>2
  <2> QED  BY <2>1, <2>2, <2>3 DEF Shaped
<1> QED  BY <1>6, <1>7
(* The newline behind a well-formed line changes nothing.                  *)
LEMMA WellFormedAll ==
  ASSUME SessionInv, session # << >>, WellFormed(Top(session))
  PROVE  /\ Shaped(All) /\ Depth(All, Len(All)) = 0 /\ ~IfOpen(All, Len(All))
         /\ \A n \in 1 .. Len(All) : All[n] \in {":", ";"} => Depth(All, n) = 0
<1>1. PICK l \in Source : l = Top(session) /\ WellFormed(l)
  BY TopType DEF SessionInv
<1>2. PICK s : s = All /\ s = Append(l, NL)
  BY <1>1 DEF All
<1>3. /\ Len(l) \in Nat /\ Len(s) = Len(l) + 1
      /\ \A n \in 1 .. Len(l) : s[n] = l[n]
      /\ \A n \in (Len(l) + 1) .. Len(s) : s[n] = NL
  <2>1. /\ Len(l) \in Nat /\ Len(s) = Len(l) + 1
        /\ \A n \in 1 .. Len(l) : s[n] = l[n]
        /\ s[Len(l) + 1] = NL
    BY <1>2, LenProperties, AppendProperties DEF Source
  <2>2. \A n \in (Len(l) + 1) .. Len(s) : n = Len(l) + 1
    BY <2>1
  <2> QED  BY <2>1, <2>2
<1> DEFINE Places == {"EXIT", ">r", "SEXEC", ":", ";", "IF", "THEN"}
<1>4. NL \notin LoopWords /\ NL \notin Bracket /\ \A w \in Places : NL # w
  BY DEF LoopWords, Bracket, NL
<1> HIDE DEF Places
<1>5. ASSUME NEW n \in 0 .. Len(l)
      PROVE  Depth(s, n) = Depth(l, n)
  <2>1. n \in Nat /\ n <= n /\ (\A j \in 1 .. n : l[j] = s[j]) /\ (n + 1) .. n = {}
    BY <1>3
  <2> QED  BY <2>1, DepthSame
<1>6. Depth(s, Len(s)) = 0
  <2>1. /\ Len(l) \in Nat /\ Len(s) \in Nat /\ Len(l) <= Len(s)
        /\ (\A j \in 1 .. Len(l) : l[j] = s[j])
        /\ (\A j \in (Len(l) + 1) .. Len(s) : s[j] \notin LoopWords)
    BY <1>3, <1>4
  <2>2. Depth(s, Len(s)) = Depth(l, Len(l))
    BY <2>1, DepthSame
  <2> QED  BY <1>1, <2>2 DEF WellFormed
<1>7. ~IfOpen(s, Len(s))
  <2>1. ASSUME NEW w \in Places
        PROVE  Opened(s, Len(s), w) = Opened(l, Len(l), w)
    <3>1. w # NL
      BY <1>4
    <3>2. PICK n \in Nat, m \in Nat : n = Len(l) /\ m = Len(s) /\ n <= m
      BY <1>3
    <3>3. (\A j \in 1 .. n : l[j] = s[j]) /\ \A j \in (n + 1) .. m : s[j] # w
      BY <1>3, <3>1, <3>2
    <3>4. Opened(s, m, w) = Opened(l, n, w)
      BY <3>2, <3>3, OpenedSame
    <3> QED  BY <3>2, <3>4
  <2>2. Opened(l, Len(l), "IF") = Opened(l, Len(l), "THEN")
    BY <1>1 DEF WellFormed
  <2>3. Opened(l, Len(l), "THEN") \in Nat
    BY <1>3, OpenedType
  <2>4. "IF" \in Places /\ "THEN" \in Places
    BY DEF Places
  <2> QED  BY <2>1, <2>2, <2>3, <2>4 DEF IfOpen
<1>8. Shaped(l) /\ \A n \in 1 .. Len(l) : l[n] \in {":", ";"} => Depth(l, n) = 0
  BY <1>1 DEF WellFormed
<1>9. \A n \in 1 .. Len(s) : s[n] \in {":", ";"} => Depth(s, n) = 0
  <2>1. ASSUME NEW n \in 1 .. Len(s), s[n] \in {":", ";"}
        PROVE  n \in 1 .. Len(l) /\ n \in 0 .. Len(l) /\ l[n] \in {":", ";"}
    <3>1. s[n] # NL
      BY <1>4, <2>1 DEF Places
    <3>2. n \in 1 .. Len(l) /\ n \in 0 .. Len(l) /\ l[n] = s[n]
      BY <1>3, <3>1
    <3> QED  BY <2>1, <3>2
  <2> QED  BY <1>5, <1>8, <2>1
<1>10. Shaped(s)
  <2>1. ASSUME NEW n \in 0 .. Len(s)
        PROVE  Depth(s, n) >= 0
    <3>1. CASE n \in 0 .. Len(l)
      BY <1>5, <1>8, <3>1 DEF Shaped
    <3>2. CASE n = Len(s)
      BY <1>6, <3>2
    <3> QED  BY <1>3, <3>1, <3>2
  <2>2. ASSUME NEW n \in 1 .. Len(s)
        PROVE  (s[n] = "EXIT" => Depth(s, n) = 0) /\ s[n] \notin {">r", "SEXEC"}
    <3>1. CASE n \in 1 .. Len(l)
      <4>1. (l[n] = "EXIT" => Depth(l, n) = 0) /\ l[n] \notin {">r", "SEXEC"}
        BY <1>8, <3>1 DEF Shaped
      <4>2. s[n] = l[n] /\ Depth(s, n) = Depth(l, n)
        BY <1>3, <1>5, <3>1
      <4> QED  BY <4>1, <4>2, Zenon
    <3>2. CASE n \in (Len(l) + 1) .. Len(s)
      <4>1. s[n] = NL
        BY <1>3, <3>2
      <4> QED  BY <4>1, <1>4 DEF Places
    <3> QED  BY <1>3, <3>1, <3>2
  <2>3. ASSUME NEW m \in 1 .. Len(s), NEW n \in 1 .. Len(s),
               m < n, s[m] \in {"IF", "ELSE"}, s[n] \in Bracket,
               \A k \in (m + 1) .. (n - 1) : s[k] \notin Bracket
        PROVE  Paired(s, m, n)
    <3>1. n # Len(s)
      BY <1>3, <1>4, <2>3
    <3>2. /\ m \in 1 .. Len(l) /\ n \in 1 .. Len(l) /\ s[m] = l[m] /\ s[n] = l[n]
          /\ \A k \in (m + 1) .. (n - 1) : l[k] \notin Bracket
      BY <1>3, <2>3, <3>1
    <3>3. Paired(l, m, n)
      BY <1>8, <2>3, <3>2 DEF Shaped
    <3> QED  BY <1>5, <3>2, <3>3 DEF Paired
  <2> QED  BY <2>1, <2>2, <2>3 DEF Shaped
<1> QED  BY <1>2, <1>6, <1>7, <1>9, <1>10
-----------------------------------------------------------------------------
(***************************************************************************)
(* What the compiler makes of well-formed lines.                           *)
(***************************************************************************)
Ended(p) == Depth(Code(p), Len(heap[p])) = 0 /\ ~EndsOpen(p)

(* Every program is in shape; the current one, if there is one, follows    *)
(* the line it is compiled from, and all others are ended.                 *)
ShapeInv ==
  /\ session # << >> => WellFormed(Top(session))
  /\ status \notin Dead =>
       /\ \A p \in Programs : Shaped(Code(p))
       /\ \A p \in Programs : p # current_PROG \/ status # "parse" => Ended(p)
       /\ status = "parse" /\ current_PROG # NoProgram =>
            Follows(Code(current_PROG), npcp_array, All, Read)

LEMMA CodeProperties ==
  ASSUME NEW p, Len(heap[p]) \in Nat
  PROVE  /\ Len(Code(p)) = Len(heap[p])
         /\ \A k \in 1 .. Len(heap[p]) : Code(p)[k] = heap[p][k].op
         /\ EndsOpen(p) <=> \E i : LastJump(Code(p), Len(heap[p]), i)
<1>1. /\ Len(Code(p)) = Len(heap[p])
      /\ \A k \in 1 .. Len(heap[p]) : Code(p)[k] = heap[p][k].op
  BY DEF Code
<1>2. \A i : LastJump(Code(p), Len(heap[p]), i) <=>
               /\ i \in 1 .. Len(heap[p]) /\ heap[p][i].op \in Jumping
               /\ \A k \in (i + 1) .. Len(heap[p]) : heap[p][k].op \notin Bracket
  BY <1>1 DEF LastJump
<1>3. \A i : LastJump(Code(p), Len(heap[p]), i) <=> LastBracket(p, i) /\ heap[p][i].op \in Jumping
  BY <1>2, MarksAreWords DEF LastBracket
<1> QED  BY <1>1, <1>3 DEF EndsOpen, LastBracket
Held == TypeInv /\ LineInv /\ OrderInv /\ ShapeInv

LEMMA WhileParsing ==
  ASSUME Held, status = "parse"
  PROVE  /\ SessionInv /\ session # << >> /\ WellFormed(Top(session)) /\ Orderly(Top(session))
         /\ PlaceInv /\ StateInv /\ Len(All) \in Nat /\ Shaped(All)
         /\ HeapInv /\ current_PROG \in Interruptible
         /\ \A p \in Programs : Shaped(Code(p)) /\ (p # current_PROG => Ended(p))
         /\ current_PROG # NoProgram =>
              /\ current_PROG \in Programs /\ npcp_array \in Nat
              /\ Follows(Code(current_PROG), npcp_array, All, Read)
<1>1. /\ SessionInv /\ session # << >> /\ WellFormed(Top(session)) /\ Orderly(Top(session))
      /\ HeapInv /\ current_PROG \in Interruptible
  BY DEF Held, TypeInv, ReaderInv, OrderInv, CurrentInv, ShapeInv, WellFormed
<1>2. PlaceInv /\ StateInv
  BY <1>1 DEF Held, LineInv
<1>3. Len(All) \in Nat /\ Shaped(All)
  BY <1>1, AllIsSound, WellFormedAll
<1>4. current_PROG # NoProgram => current_PROG \in Programs /\ npcp_array \in Nat
  BY <1>1, HeapFacts DEF Interruptible, npcp_array
<1> QED  BY <1>1, <1>2, <1>3, <1>4 DEF Held, ShapeInv, Dead

(* The next word: behind it are newlines only.                             *)
LEMMA ReadOn ==
  ASSUME Held, status = "parse", line # << >>, NextWord, session' = session
  PROVE  /\ All' = All
         /\ Read \in Nat /\ Read < Len(All) /\ Head(line) = All[Read + 1]
         /\ Head(line) \notin {">r", "SEXEC"}
         /\ Read' \in Nat /\ Read + 1 <= Read' /\ Read' <= Len(All)
         /\ \A k \in (Read + 2) .. Read' : All[k] \notin Marks
<1> DEFINE n == Read
<1>1. SessionInv /\ session # << >> /\ PlaceInv /\ Len(All) \in Nat /\ Shaped(All)
  BY WhileParsing
<1>2. All \in Source /\ All' = All
  BY <1>1, AllIsSound DEF All
<1>3. n \in Nat /\ n < Len(All) /\ Head(line) = All[n + 1] /\ line = Rest(All, n)
  BY <1>1, CurrentWord DEF PlaceInv
<1> HIDE DEF n
<1>4. PICK m \in (n + 1) .. Len(All) : /\ strtok(Tail(line)) = Rest(All, m)
                                       /\ \A k \in (n + 2) .. m : All[k] = NL
  BY <1>2, <1>3, NextRest
<1>5. line' = Rest(All, m) /\ m \in 0 .. Len(All)
  BY <1>1, <1>3, <1>4 DEF NextWord
<1>6. Read' = m
  <2>1. Len(line') = Len(All) - m
    BY <1>2, <1>5, RestProperties
  <2> QED  BY <1>1, <1>2, <1>5, <2>1 DEF Read
<1>7. All[n + 1] \notin {">r", "SEXEC"}
  <2>1. n + 1 \in 1 .. Len(All)
    BY <1>1, <1>3
  <2> QED  BY <1>1, <2>1 DEF Shaped
<1>8. \A k \in (n + 2) .. m : All[k] \notin Marks
  BY <1>4, MarksAreWords
<1>9. m \in Nat /\ n + 1 <= m /\ m <= Len(All)
  BY <1>1, <1>3, <1>4
<1> QED  BY <1>2, <1>3, <1>6, <1>7, <1>8, <1>9 DEF n

(* A program that a step leaves alone.                                     *)
LEMMA ShapeKept ==
  ASSUME NEW p, Len(heap[p]) \in Nat, Len(heap'[p]) = Len(heap[p]),
         \A i \in 1 .. Len(heap[p]) : heap'[p][i].op = heap[p][i].op
  PROVE  Code(p)' = Code(p) /\ (EndsOpen(p)' <=> EndsOpen(p)) /\ (Ended(p)' <=> Ended(p))
<1>1. Code(p)' = Code(p)
  BY DEF Code
<1>2. EndsOpen(p)' <=> EndsOpen(p)
  BY SMTT(30) DEF EndsOpen, LastBracket
<1> QED  BY <1>1, <1>2 DEF Ended

(* A word that leaves a token of its kind, or matters for nothing.         *)
LEMMA WordShape ==
  ASSUME Held, status = "parse", line # << >>, NextWord, UNCHANGED <<current_PROG, session>>,
         \/ heap' = heap /\ Head(line) \notin Marks
         \/ \E tok : Grew(tok) /\ (tok.op = Head(line) \/ (tok.op \notin Marks /\ Head(line) \notin Marks))
  PROVE  ShapeInv'
<1>1. /\ session # << >> /\ WellFormed(Top(session))
      /\ Len(All) \in Nat /\ Shaped(All) /\ HeapInv
      /\ \A p \in Programs : Shaped(Code(p)) /\ (p # current_PROG => Ended(p))
      /\ current_PROG # NoProgram =>
           npcp_array \in Nat /\ Follows(Code(current_PROG), npcp_array, All, Read)
  BY WhileParsing
<1>2. /\ All' = All
      /\ Read \in Nat /\ Read < Len(All) /\ Head(line) = All[Read + 1]
      /\ Read' \in Nat /\ Read + 1 <= Read'
      /\ \A k \in (Read + 2) .. Read' : All[k] \notin Marks
  BY ReadOn
<1>3. status' = "parse"
  BY DEF NextWord
<1>4. CASE heap' = heap /\ Head(line) \notin Marks
  <2>1. \A k \in (Read + 1) .. Read' : All[k] \notin Marks
    BY <1>2, <1>4
  <2>2. ASSUME current_PROG # NoProgram
        PROVE  Follows(Code(current_PROG), npcp_array, All, Read')
    <3>1. /\ npcp_array \in Nat /\ Read <= Read'
          /\ Follows(Code(current_PROG), npcp_array, All, Read)
      BY <1>1, <1>2, <2>2
    <3> QED  BY <1>2, <2>1, <3>1, FollowsPlain
  <2>3. \A p : Code(p)' = Code(p) /\ (Ended(p)' <=> Ended(p))
    BY <1>4 DEF Code, Ended, EndsOpen, LastBracket
  <2>4. Programs' = Programs /\ npcp_array' = npcp_array /\ Code(current_PROG)' = Code(current_PROG)
    BY <1>4 DEF Programs, npcp_array, Code
  <2> QED  BY <1>1, <1>2, <1>3, <2>2, <2>3, <2>4 DEF ShapeInv
<1>5. ASSUME NEW tok, Grew(tok),
             tok.op = Head(line) \/ (tok.op \notin Marks /\ Head(line) \notin Marks)
      PROVE  ShapeInv'
  <2> DEFINE c == current_PROG
             n == Len(heap[c])
  <2>1. /\ Programs' = Programs /\ c \in Programs /\ n \in Nat /\ npcp_array = n
        /\ Len(heap'[c]) = n + 1 /\ npcp_array' = n + 1
        /\ \A i \in 1 .. n : heap'[c][i].op = heap[c][i].op
        /\ heap'[c][n + 1] = tok
    BY <1>5 DEF Grew, npcp_array
  <2>2. ASSUME NEW p \in Programs, p # c
        PROVE  Code(p)' = Code(p) /\ (Ended(p)' <=> Ended(p))
    BY <1>5, <2>2, ShapeKept DEF Grew
  <2>3. PICK s, t : s = Code(c) /\ t = Code(c)'
    OBVIOUS
  <2>4. /\ Len(s) = n /\ Len(t) = n + 1
        /\ \A k \in 1 .. n : t[k] = s[k]
        /\ t[n + 1] = tok.op
    BY <2>1, <2>3 DEF Code
  <2>5. Follows(s, n, All, Read) /\ Shaped(s)
    <3>1. c # NoProgram
      BY <2>1 DEF Programs, NoProgram
    <3> QED  BY <1>1, <2>1, <2>3, <3>1
  <2> HIDE DEF n, c
  <2>6. Shaped(t) /\ Follows(t, n + 1, All, Read + 1)
    <3>1. t[n + 1] = All[Read + 1] \/ (t[n + 1] \notin Marks /\ All[Read + 1] \notin Marks)
      BY <1>2, <1>5, <2>4
    <3> QED  BY <1>1, <1>2, <2>1, <2>4, <2>5, <3>1, FollowsToken
  <2>7. Follows(t, n + 1, All, Read')
    <3>1. /\ n + 1 \in Nat /\ Read + 1 \in Nat
          /\ \A k \in (Read + 1 + 1) .. Read' : All[k] \notin Marks
      BY <1>2, <2>1, SMTT(30)
    <3> QED  BY <1>2, <2>6, <3>1, FollowsPlain
  <2>8. Code(current_PROG)' = t /\ npcp_array' = n + 1
    BY <2>1, <2>3 DEF c, Code
  <2>9. \A p \in Programs' : Shaped(Code(p))' /\ (p # current_PROG' => Ended(p)')
    BY <1>1, <2>1, <2>2, <2>3, <2>6 DEF c
  <2> QED  BY <1>1, <1>2, <1>3, <2>7, <2>8, <2>9 DEF ShapeInv
<1> QED  BY <1>4, <1>5

LEMMA CompiledKind ==
  ASSUME NEW w
  PROVE  smtok_compile_word(w).op = w \/ smtok_compile_word(w).op \notin Marks
<1>1. \A k \in {"I", "NUM", "DEFER", "EXEC", "VAR", "DICT"} : k \notin Marks
  BY DEF Marks, LoopWords, Bracket
<1>2. \A v : smtok("I", v).op \notin Marks /\ smtok("NUM", v).op \notin Marks
             /\ smtok("DEFER", v).op \notin Marks /\ smtok("EXEC", v).op \notin Marks
             /\ smtok("VAR", v).op \notin Marks /\ smtok("DICT", v).op \notin Marks
             /\ smtok(w, v).op = w
  BY <1>1 DEF smtok
<1> QED  BY <1>2 DEF smtok_compile_word

(* A name or a word that the compiler looks up.                            *)
LEMMA PlainWords ==
  ASSUME Held, status = "parse", line # << >>, NextWord, session' = session,
         Head(line) \notin ControlWords
  PROVE  Head(line) \notin Marks
<1>1. Head(line) \notin {">r", "SEXEC"}
  BY ReadOn
<1> QED  BY <1>1, MarksAreWords

(* ":" stands where no loop is open, and the new program is empty.         *)
LEMMA ColonNameShape ==
  ASSUME Held, session' = session, parse_colon_name
  PROVE  ShapeInv'
<1>1. status = "parse" /\ state = "COLON_EXPECTING_NAME" /\ line # << >>
  BY DEF parse_colon_name, Given
<1>2. /\ session # << >> /\ WellFormed(Top(session)) /\ Orderly(Top(session))
      /\ PlaceInv /\ StateInv /\ SessionInv
      /\ Len(All) \in Nat /\ Shaped(All) /\ HeapInv
      /\ \A p \in Programs : Shaped(Code(p)) /\ (p # current_PROG => Ended(p))
      /\ current_PROG # NoProgram => Follows(Code(current_PROG), npcp_array, All, Read)
  BY <1>1, WhileParsing
<1>3. CASE ~(program_Stack_top <= ProgStack)
  <2>1. status' = "crashed"
    BY <1>3 DEF parse_colon_name, Crash
  <2> QED  BY <1>2, <2>1 DEF ShapeInv, Dead
<1>4. CASE program_Stack_top <= ProgStack
  <2>1. /\ \E place : program_create(place)
        /\ current_PROG' = Len(heap) + 1 /\ NextWord
    BY <1>4 DEF parse_colon_name
  <2>2. /\ Len(heap) \in Nat /\ Len(heap') = Len(heap) + 1
        /\ \A p \in Programs : heap'[p] = heap[p] /\ Len(heap[p]) \in Nat
        /\ heap'[current_PROG'] = << >>
    BY <1>2, <2>1, CreateStep, HeapFacts
  <2>3. /\ All' = All /\ Read \in Nat /\ Read < Len(All) /\ Head(line) = All[Read + 1]
        /\ Read' \in Nat /\ Read + 1 <= Read'
        /\ \A k \in (Read + 2) .. Read' : All[k] \notin Marks
    BY <1>1, <2>1, ReadOn
  <2>4. Head(line) \notin Marks
    <3>1. "COLON_EXPECTING_NAME" # "EXPECTING_ANY"
      OBVIOUS
    <3>2. Head(line) \notin ControlWords
      BY <1>1, <1>2, <3>1, WordFits
    <3> QED  BY <1>1, <2>1, <3>2, PlainWords
  <2>5. Depth(All, Read) = 0 /\ ~IfOpen(All, Read)
    <3>1. "COLON_EXPECTING_NAME" # "EXPECTING_ANY" /\ ":" \in {":", ";"}
      BY Zenon
    <3>2. Read \in 1 .. Len(All) /\ All[Read] = ":"
      BY <1>1, <1>2, <2>3, <3>1 DEF StateInv
    <3>3. Depth(All, Read) = 0
      BY <1>2, <3>1, <3>2, WellFormedAll
    <3>4. ~IfOpen(All, Read)
      BY <1>1, <1>2, WordFits
    <3> QED  BY <3>3, <3>4
  <2>6. current_PROG # NoProgram => Ended(current_PROG)
    <3>1. current_PROG # NoProgram => ~EndsOpen(current_PROG)
      BY <1>1, <2>5 DEF Held, OrderInv, CurrentInv
    <3> QED  BY <1>2, <2>5, <3>1 DEF Ended, Follows, npcp_array
  <2>7. Depth(All, Read') = 0
    <3>1. Read \in Nat /\ Read' \in Nat /\ Read <= Read'
      BY <2>3
    <3>2. \A k \in (Read + 1) .. Read' : All[k] \notin LoopWords
      BY <2>3, <2>4, MarksAreWords
    <3> QED  BY <2>5, <3>1, <3>2, DepthSame
  <2>8. \A p \in Programs : Shaped(Code(p))' /\ Ended(p)'
    <3>1. \A p \in Programs : p # NoProgram
      BY DEF Programs, NoProgram
    <3> QED  BY <1>2, <2>2, <2>6, <3>1, ShapeKept
  <2>9. /\ npcp_array' = 0 /\ Code(current_PROG)' = << >>
    BY <2>2 DEF npcp_array, Code
  <2>10. /\ Shaped(<< >>)
         /\ Follows(<< >>, 0, All, Read')
    <3>1. Depth(<< >>, 0) = 0
      BY DepthNext
    <3>2. Shaped(<< >>)
      BY <3>1 DEF Shaped
    <3> QED  BY <2>7, <3>1, <3>2 DEF Follows, LastJump
  <2>11. \A p \in Programs' : p \in Programs \/ p = current_PROG'
    BY <2>1, <2>2 DEF Programs
  <2>12. Follows(Code(current_PROG), npcp_array, All, Read)'
    BY <2>3, <2>9, <2>10
  <2>13. Shaped(Code(current_PROG))'
    BY <2>9, <2>10
  <2>14. \A p \in Programs' : Shaped(Code(p))' /\ (p # current_PROG' => Ended(p)')
    BY <2>8, <2>11, <2>13
  <2>15. status' = "parse"
    BY <1>1, <2>1 DEF NextWord
  <2> QED  BY <1>2, <2>12, <2>14, <2>15 DEF ShapeInv
<1> QED  BY <1>3, <1>4

(* ";" stands where no loop is open, and goes back to a program that is    *)
(* ended, or to none.                                                      *)
LEMMA SemicolonShape ==
  ASSUME Held, session' = session, semicolon
  PROVE  ShapeInv'
<1>1. status = "parse" /\ state = "EXPECTING_ANY" /\ line # << >> /\ Head(line) = ";"
  BY DEF semicolon, Parsing, Given
<1>2. /\ session # << >> /\ WellFormed(Top(session)) /\ Orderly(Top(session))
      /\ PlaceInv /\ StateInv /\ SessionInv
      /\ Len(All) \in Nat /\ Shaped(All) /\ HeapInv
      /\ \A p \in Programs : Shaped(Code(p)) /\ (p # current_PROG => Ended(p))
      /\ current_PROG # NoProgram => Follows(Code(current_PROG), npcp_array, All, Read)
  BY <1>1, WhileParsing
<1>3. CASE ~NextWord
  <2>1. status' \in Dead
    BY <1>3 DEF semicolon, Crash, Dead
  <2> QED  BY <1>2, <2>1 DEF ShapeInv
<1>4. CASE NextWord
  <2>1. /\ heap' = heap /\ status' = "parse"
        /\ current_PROG' # NoProgram => /\ program_stack # << >>
                                        /\ current_PROG' = program_stack[Len(program_stack)]
    BY <1>1, <1>4 DEF semicolon, Crash, NextWord, heapVars
  <2>2. current_PROG' # NoProgram => current_PROG' \in Programs /\ current_PROG' # current_PROG
    <3> SUFFICES ASSUME current_PROG' # NoProgram
                 PROVE  current_PROG' \in Programs /\ current_PROG' # current_PROG
      OBVIOUS
    <3>1. /\ Len(program_stack) \in Nat \ {0}
          /\ program_stack[Len(program_stack)] \in Interruptible
      BY <2>1, TopType DEF Top, Held, TypeInv, ReaderInv
    <3>2. current_PROG' < current_PROG /\ current_PROG' \in Programs
      BY <2>1, <3>1 DEF Held, OrderInv, SessionOrder, Rising, Interruptible
    <3> QED  BY <1>2, <3>2 DEF Programs
  <2>3. /\ All' = All /\ Read \in Nat /\ Read < Len(All) /\ Head(line) = All[Read + 1]
        /\ Read' \in Nat /\ Read + 1 <= Read'
        /\ \A k \in (Read + 2) .. Read' : All[k] \notin Marks
    BY <1>1, <1>4, ReadOn
  <2>4. Depth(All, Read) = 0 /\ Depth(All, Read') = 0
    <3>1. PICK n, m : n = Read /\ m = Read'
      OBVIOUS
    <3>2. n \in Nat /\ m \in Nat /\ n + 1 \in 1 .. Len(All) /\ n <= n + 1 /\ n + 1 <= m
      BY <1>2, <2>3, <3>1
    <3>3. Depth(All, n + 1) = 0
      <4>1. All[n + 1] = ";"
        BY <1>1, <2>3, <3>1
      <4> QED  BY <1>2, <3>2, <4>1, WellFormedAll
    <3>4. \A k \in (n + 1) .. (n + 1) : All[k] \notin LoopWords
      <4>1. ";" \notin LoopWords
        BY DEF LoopWords
      <4>2. All[n + 1] = ";"
        BY <1>1, <2>3, <3>1
      <4>3. \A k \in (n + 1) .. (n + 1) : k = n + 1
        BY <3>2
      <4> QED  BY <4>1, <4>2, <4>3
    <3>5. Depth(All, n + 1) = Depth(All, n)
      BY <3>2, <3>4, DepthSame
    <3>6. \A k \in (n + 1 + 1) .. m : All[k] \notin LoopWords
      <4>1. \A k \in (n + 2) .. m : All[k] \notin LoopWords
        BY <2>3, <3>1, MarksAreWords
      <4>2. n + 1 + 1 = n + 2
        BY <3>2
      <4> QED  BY <4>1, <4>2
    <3>7. Depth(All, m) = Depth(All, n + 1)
      BY <3>2, <3>6, DepthSame
    <3> QED  BY <3>1, <3>3, <3>5, <3>7
  <2>5. current_PROG # NoProgram => Ended(current_PROG)
    <3>1. Head(line) \in {":", ";"}
      BY <1>1
    <3>2. ~IfOpen(All, Read)
      BY <1>1, <1>2, <3>1, WordFits, Zenon
    <3>3. current_PROG # NoProgram => ~EndsOpen(current_PROG)
      BY <1>1, <3>2 DEF Held, OrderInv, CurrentInv
    <3> QED  BY <1>2, <2>4, <3>3 DEF Ended, Follows, npcp_array
  <2>6. \A p \in Programs : Shaped(Code(p)) /\ Ended(p)
    BY <1>2, <2>5 DEF Programs, NoProgram
  <2>7. \A p \in Programs' : Shaped(Code(p))' /\ Ended(p)'
    BY <2>1, <2>6 DEF Programs, Code, Ended, EndsOpen, LastBracket
  <2>8. ASSUME current_PROG' # NoProgram
        PROVE  Follows(Code(current_PROG), npcp_array, All, Read)'
    <3>1. PICK p \in Programs : p = current_PROG' /\ Ended(p)
      BY <2>2, <2>6, <2>8
    <3>2. Depth(Code(p), Len(heap[p])) = 0 /\ \A i : ~LastJump(Code(p), Len(heap[p]), i)
      <4>1. Len(heap[p]) \in Nat
        BY <1>2, HeapFacts
      <4> QED  BY <3>1, <4>1, CodeProperties DEF Ended
    <3>3. Follows(Code(p), Len(heap[p]), All, Read')
      BY <2>4, <3>2 DEF Follows
    <3>4. Code(current_PROG)' = Code(p) /\ npcp_array' = Len(heap[p])
      BY <2>1, <3>1 DEF Code, npcp_array
    <3> QED  BY <2>3, <3>3, <3>4
  <2> QED  BY <1>2, <2>7, <2>8 DEF ShapeInv, NoProgram
<1> QED  BY <1>3, <1>4

LEMMA CompileShape ==
  ASSUME Held, Compile
  PROVE  ShapeInv'
<1>0. ParseWord /\ session' = session /\ status = "parse"
  <2>1. status = "parse"
    BY DEF Compile, ParseWord, if_create, else_create, then_create, do_create, loop_create,
       begin_create, again_create, until_create, BackTo, exit_create, parse_colon,
       parse_colon_name, semicolon, parse_variable, parse_variable_name, parse_string,
       parse_string_expecting_quote, comment, parse_mark, skip_word, program_add, null_PROG,
       Compiling, Parsing, Given
  <2> QED  BY <2>1 DEF Compile
<1>1. /\ SessionInv /\ Orderly(Top(session)) /\ PlaceInv /\ StateInv
      /\ HeapInv /\ current_PROG \in Interruptible /\ WellFormed(Top(session))
  BY <1>0, WhileParsing
<1>2. CASE Crash
  <2>1. status' = "crashed"
    BY <1>2 DEF Crash
  <2> QED  BY <1>0, <1>1, <2>1 DEF ShapeInv, Dead
<1>3. CASE /\ \/ if_create \/ else_create \/ do_create \/ loop_create \/ begin_create
              \/ again_create \/ until_create \/ exit_create
           /\ ~Crash
  <2>1. /\ line # << >> /\ NextWord /\ current_PROG' = current_PROG /\ current_PROG # NoProgram
        /\ \E v : Emit(smtok(Head(line), v))
    BY <1>3 DEF if_create, else_create, do_create, loop_create, begin_create, again_create,
       until_create, BackTo, exit_create, settled, Compiling, Parsing, Given
  <2>2. PICK v : Emit(smtok(Head(line), v))
    BY <2>1
  <2>3. Grew(smtok(Head(line), v)) /\ smtok(Head(line), v).op = Head(line)
    BY <1>1, <2>1, <2>2, EmitGrows DEF smtok, Interruptible
  <2> QED  BY <1>0, <2>1, <2>3, WordShape
<1>4. CASE then_create /\ ~Crash
  <2>1. /\ line # << >> /\ Head(line) = "THEN" /\ NextWord /\ current_PROG' = current_PROG /\ Completable
    BY <1>4 DEF then_create, settled, Compiling, Parsing, Given
  <2>2. Grew(smtok("THEN", npcp_array)) /\ smtok("THEN", npcp_array).op = "THEN"
    BY <1>4, <2>1, ThenGrows DEF Held, smtok
  <2> QED  BY <1>0, <2>1, <2>2, WordShape
<1>5. CASE parse_colon_name
  BY <1>0, <1>5, ColonNameShape
<1>6. CASE semicolon
  BY <1>0, <1>6, SemicolonShape
<1>7. CASE parse_colon \/ parse_variable
  <2>1. /\ line # << >> /\ Head(line) \in {":", "VARIABLE", "CREATE"} /\ NextWord /\ heap' = heap
        /\ current_PROG' = current_PROG
    BY <1>7 DEF parse_colon, parse_variable, Parsing, Given, heapVars, Naming
  <2>2. Head(line) \notin Marks
    BY <2>1 DEF Marks, LoopWords, Bracket
  <2> QED  BY <1>0, <2>1, <2>2, WordShape
<1>8. CASE parse_variable_name
  <2>1. /\ line # << >> /\ NextWord /\ heap' = heap /\ state # "EXPECTING_ANY"
        /\ current_PROG' = current_PROG
    BY <1>8 DEF parse_variable_name, Given, heapVars, Naming
  <2>2. Head(line) \notin ControlWords
    BY <1>1, <2>1, WordFits
  <2>3. Head(line) \notin Marks
    BY <1>0, <2>1, <2>2, PlainWords
  <2> QED  BY <1>0, <2>1, <2>3, WordShape
<1>9. ASSUME NEW w \in Words \ ControlWords, program_add(w)
      PROVE  ShapeInv'
  <2>1. /\ line # << >> /\ Head(line) = w /\ NextWord /\ current_PROG' = current_PROG
        /\ heap' = heap \/ (current_PROG # NoProgram /\ Emit(smtok_compile_word(w)))
    BY <1>9 DEF program_add, settled, Parsing, Given
  <2>2. Head(line) \notin Marks
    BY <1>0, <1>9, <2>1, PlainWords
  <2>3. CASE heap' = heap
    BY <1>0, <2>1, <2>2, <2>3, WordShape
  <2>4. CASE current_PROG # NoProgram /\ Emit(smtok_compile_word(w))
    <3>1. Grew(smtok_compile_word(w))
      BY <1>1, <2>1, <2>4, EmitGrows DEF Interruptible
    <3>2. smtok_compile_word(w).op = Head(line) \/ smtok_compile_word(w).op \notin Marks
      BY <2>1, CompiledKind
    <3> QED  BY <1>0, <2>1, <2>2, <3>1, <3>2, WordShape
  <2> QED  BY <2>1, <2>3, <2>4
<1>10. ~comment /\ ~parse_string /\ ~parse_mark /\ ~parse_string_expecting_quote /\ ~skip_word
  <2>1. line # << >> => Head(line) \notin DOMAIN Closing \cup DOMAIN EndQuote
    BY <1>1, WordFits
  <2>2. checks \subseteq DOMAIN Closing /\ Quote \in DOMAIN EndQuote
    BY CompilerAssumption DEF Held, TypeInv, ReaderInv, AllChecks
  <2>3. ~comment /\ ~parse_string /\ ~parse_mark
    BY <2>1, <2>2 DEF comment, parse_string, parse_mark, Parsing, Given
  <2>4. /\ state # "STRING_EXPECTING_QUOTE"
        /\ state \notin {Skipping[mark] : mark \in DOMAIN Closing}
    BY <1>1 DEF StateInv, Naming, Skipping, Closing
  <2> QED  BY <2>3, <2>4 DEF parse_string_expecting_quote, skip_word, Given
<1> QED  BY <1>0, <1>2, <1>3, <1>4, <1>5, <1>6, <1>7, <1>8, <1>9, <1>10 DEF ParseWord, null_PROG

(* A new line is at depth 0, as is its empty MAIN.                         *)
LEMMA ParseShape ==
  ASSUME WellFormedSession, Held, parse
  PROVE  ShapeInv'
<1>1. PICK l \in NextLines : session' = Append(session, l) /\ line' = strtok(Append(l, NL))
  BY DEF parse
<1>2. session' # << >> /\ Top(session') = l /\ WellFormed(l) /\ l \in Source
  <2>1. SessionInv /\ Len(session) \in Nat
    BY LenProperties DEF Held, TypeInv, SessionInv
  <2>2. l \in Source /\ l \in Lines
    BY <2>1, NextLine
  <2>3. /\ Append(session, l) # << >>
        /\ Len(Append(session, l)) = Len(session) + 1
        /\ Append(session, l)[Len(session) + 1] = l
    BY <2>1, <2>2, AppendProperties DEF SessionInv
  <2>4. WellFormed(l)
    BY <2>2 DEF WellFormedSession
  <2> QED  BY <1>1, <2>2, <2>3, <2>4 DEF Top
<1>3. /\ \E place : program_create(place)
      /\ current_PROG' = Len(heap) + 1 /\ status = "prompt" /\ status' = "parse"
  BY DEF parse
<1>4. /\ Len(heap) \in Nat /\ Len(heap') = Len(heap) + 1
      /\ \A p \in Programs : heap'[p] = heap[p] /\ Len(heap[p]) \in Nat
      /\ heap'[current_PROG'] = << >>
  <2>1. HeapInv
    BY DEF Held, TypeInv
  <2> QED  BY <1>3, <2>1, CreateStep, HeapFacts
<1>5. Depth(All', Read') = 0
  <2>1. All' = Append(l, NL) /\ All' \in Source /\ Len(All') \in Nat
    BY <1>1, <1>2, AppendProperties, LenProperties DEF All, Source
  <2>2. PICK m \in 0 .. Len(All') : line' = Rest(All', m) /\ \A k \in 1 .. m : All'[k] = NL
    BY <1>1, <2>1, StrtokSkips
  <2>3. Read' = m
    <3>1. Len(line') = Len(All') - m
      BY <2>1, <2>2, RestProperties
    <3> QED  BY <2>1, <2>2, <3>1 DEF Read
  <2>4. \A k \in (0 + 1) .. m : All'[k] \notin LoopWords
    BY <2>2, MarksAreWords
  <2>5. Depth(All', m) = Depth(All', 0)
    BY <2>2, <2>4, DepthSame
  <2> QED  BY <2>3, <2>5, DepthNext
<1>6. npcp_array' = 0 /\ Code(current_PROG)' = << >>
  BY <1>4 DEF npcp_array, Code
<1>7. Shaped(<< >>) /\ Follows(<< >>, 0, All', Read')
  <2>1. Depth(<< >>, 0) = 0
    BY DepthNext
  <2>2. Shaped(<< >>)
    BY <2>1 DEF Shaped
  <2> QED  BY <1>5, <2>1, <2>2 DEF Follows, LastJump
<1>8. \A p \in Programs : Shaped(Code(p))' /\ Ended(p)'
  <2>1. \A p \in Programs : Shaped(Code(p)) /\ Ended(p)
    BY <1>3 DEF Held, ShapeInv, Dead
  <2> QED  BY <1>4, <2>1, ShapeKept
<1>9. \A p \in Programs' : p \in Programs \/ p = current_PROG'
  BY <1>3, <1>4 DEF Programs
<1>10. Follows(Code(current_PROG), npcp_array, All, Read)' /\ Shaped(Code(current_PROG))'
  BY <1>6, <1>7
<1>11. \A p \in Programs' : Shaped(Code(p))' /\ (p # current_PROG' => Ended(p)')
  BY <1>8, <1>9, <1>10
<1> QED  BY <1>2, <1>3, <1>10, <1>11 DEF ShapeInv

(* At the end of its line the current program is ended too.                *)
LEMMA StartShape ==
  ASSUME Held, Start
  PROVE  ShapeInv'
<1>1. status = "parse" /\ line = << >> /\ status' = "run" /\ UNCHANGED <<heap, session>>
  BY DEF Start, run_task, heapVars
<1>2. /\ SessionInv /\ session # << >> /\ WellFormed(Top(session)) /\ PlaceInv /\ Len(All) \in Nat
      /\ \A p \in Programs : Shaped(Code(p)) /\ (p # current_PROG => Ended(p))
      /\ current_PROG # NoProgram => Follows(Code(current_PROG), npcp_array, All, Read)
  BY <1>1, WhileParsing
<1>3. Read = Len(All)
  BY <1>1, <1>2 DEF Read
<1>4. current_PROG # NoProgram => Ended(current_PROG)
  <2>1. Depth(All, Read) = 0 /\ ~IfOpen(All, Read)
    BY <1>2, <1>3, WellFormedAll
  <2>2. current_PROG # NoProgram => ~EndsOpen(current_PROG)
    BY <1>1, <2>1 DEF Held, OrderInv, CurrentInv
  <2> QED  BY <1>2, <2>1, <2>2 DEF Ended, Follows, npcp_array
<1>5. \A p \in Programs : Shaped(Code(p)) /\ Ended(p)
  BY <1>2, <1>4 DEF Programs, NoProgram
<1>6. \A p \in Programs' : Shaped(Code(p))' /\ Ended(p)'
  BY <1>1, <1>5 DEF Programs, Code, Ended, EndsOpen, LastBracket
<1> QED  BY <1>1, <1>2, <1>6 DEF ShapeInv

LEMMA ShapeSteps ==
  ASSUME WellFormedSession, Held, [Next]_vars
  PROVE  ShapeInv'
<1>1. CASE UNCHANGED vars
  <2>1. UNCHANGED <<heap, current_PROG, status, session, line>>
    BY <1>1 DEF vars, heapVars, compilerVars
  <2>2. ShapeInv
    BY DEF Held
  <2> QED  BY <2>1, <2>2 DEF ShapeInv, Programs, Code, Ended, EndsOpen, LastBracket, npcp_array, All, Read
<1>2. CASE parse
  BY <1>2, ParseShape
<1>3. CASE Compile
  BY <1>3, CompileShape
<1>4. CASE Start
  BY <1>4, StartShape
<1>5. CASE Run
  <2>1. UNCHANGED session /\ status' # "parse"
    BY <1>5, RunCrashes DEF Run, Held
  <2>2. heap' = heap /\ status = "run"
    BY <1>5 DEF Run, Execute, cb_ef_number, ef_primitive, d_variable_store, d_string_exec, ef_do,
       ef_i_cb, ef_loop_end, ef_begin, ef_again, ef_until, ef_if, ef_else, ef_then, ef_exit,
       ef_dict_entry, ef_defer, ef_exec, Return, Finish, Fetch, Overrun, Jump, Goto, heapVars,
       Executes, Running
  <2>3. \A p \in Programs : Shaped(Code(p)) /\ Ended(p)
    BY <2>2 DEF Held, ShapeInv, Dead
  <2>4. \A p \in Programs' : Shaped(Code(p))' /\ Ended(p)'
    BY <2>2, <2>3 DEF Programs, Code, Ended, EndsOpen, LastBracket
  <2>5. session # << >> => WellFormed(Top(session))
    BY DEF Held, ShapeInv
  <2> QED  BY <2>1, <2>4, <2>5 DEF ShapeInv
<1> QED  BY <1>1, <1>2, <1>3, <1>4, <1>5 DEF Next

LEMMA ShapeHolds ==
  ASSUME WellFormedSession
  PROVE  Spec => []Held
<1>1. OrderlySession
  BY DEF WellFormedSession, OrderlySession, WellFormed
<1>2. Init => ShapeInv
  <2>1. Init => session = << >> /\ heap = << >> /\ status = "prompt"
    BY DEF Init
  <2>2. ASSUME session = << >>, heap = << >>, status = "prompt"
        PROVE  ShapeInv
    BY <2>2 DEF ShapeInv, Programs
  <2> QED  BY <2>1, <2>2
<1>3. TypeInv /\ LineInv /\ OrderInv /\ ShapeInv /\ [Next]_vars => ShapeInv'
  BY ShapeSteps DEF Held
<1> QED  BY <1>1, <1>2, <1>3, OrderHolds, PTL DEF Spec, Held

(* Every program that runs in a session of well-formed lines is well made, *)
(* however its words were compiled and wherever its definition stood: its  *)
(* loops close what they open, no conditional reaches into a loop or out   *)
(* of one, and none is left open (compiler.c, parser.c).                   *)
THEOREM WellFormedProgramsAreWellMade ==
  ASSUME WellFormedSession
  PROVE  Spec => []ProgramsWellMade
<1>1. Held => ProgramsWellMade
  <2> SUFFICES ASSUME Held, status = "run", NEW p \in Programs
               PROVE  Shaped(Code(p)) /\ Complete(Code(p))
    BY DEF ProgramsWellMade
  <2>1. Shaped(Code(p)) /\ Ended(p) /\ Len(heap[p]) \in Nat
    BY HeapFacts DEF Held, TypeInv, ShapeInv, Dead
  <2>2. Len(Code(p)) = Len(heap[p]) /\ \A i : ~LastJump(Code(p), Len(heap[p]), i)
    BY <2>1, CodeProperties DEF Ended
  <2>3. Complete(Code(p))
    BY <2>1, <2>2 DEF Complete, Ended, LastJump, Jumping
  <2> QED  BY <2>1, <2>3
<1> QED  BY <1>1, ShapeHolds, PTL
-----------------------------------------------------------------------------
(***************************************************************************)
(* Addresses.  The arrays lie apart, so an address is in one at most.      *)
(***************************************************************************)
BaseInv == \A p \in Programs : base[p] \in {Stride * (p - 1), -(Stride * (p - 1))}

LEMMA Multiples ==
  ASSUME NEW s \in Nat, NEW a \in Nat, NEW b \in Nat, a < b
  PROVE  s * a \in Nat /\ s * b \in Nat /\ s * a + s <= s * b
<1>1. PICK c \in Nat : b = a + 1 + c
  <2>1. b - a - 1 \in Nat /\ b = a + 1 + (b - a - 1)
    OBVIOUS
  <2> QED  BY <2>1
<1>2. s * b = s * a + s + s * c
  BY <1>1
<1>3. s * a \in Nat /\ s * c \in Nat /\ s * b \in Nat
  OBVIOUS
<1> QED  BY <1>2, <1>3

LEMMA BaseSteps ==
  ASSUME TypeInv, BaseInv, [Next]_vars
  PROVE  BaseInv'
<1>1. HeapInv /\ Len(heap) \in Nat /\ DOMAIN heap = 1 .. Len(heap)
  BY HeapFacts DEF TypeInv
<1>2. CASE UNCHANGED base /\ Len(heap') = Len(heap)
  BY <1>2 DEF BaseInv, Programs
<1>3. CASE \E place : program_create(place)
  <2>1. PICK v \in {Stride * Len(heap), -(Stride * Len(heap))} : base' = Append(base, v)
    BY <1>3 DEF program_create
  <2>2. Len(heap') = Len(heap) + 1
    BY <1>1, <1>3, CreateStep
  <2>3. base \in Seq(Int) /\ Len(base) = Len(heap)
    BY <1>1 DEF HeapInv
  <2>4. v \in Int
    <3>1. Stride \in Int /\ Len(heap) \in Int
      BY <1>1, ProgramAssumption
    <3> QED  BY <3>1
  <2>5. /\ \A p \in 1 .. Len(heap) : base'[p] = base[p]
        /\ base'[Len(heap) + 1] = v
    BY <2>1, <2>3, <2>4, AppendProperties
  <2>6. v \in {Stride * (Len(heap) + 1 - 1), -(Stride * (Len(heap) + 1 - 1))}
    <3>1. Len(heap) + 1 - 1 = Len(heap)
      BY <1>1
    <3> QED  BY <3>1
  <2>7. ASSUME NEW p \in 1 .. (Len(heap) + 1)
        PROVE  base'[p] \in {Stride * (p - 1), -(Stride * (p - 1))}
    <3>1. CASE p = Len(heap) + 1
      BY <2>5, <2>6, <3>1
    <3>2. CASE p # Len(heap) + 1
      <4>1. p \in 1 .. Len(heap)
        BY <1>1, <3>2
      <4> QED  BY <2>5, <4>1 DEF BaseInv, Programs
    <3> QED  BY <3>1, <3>2
  <2> QED  BY <2>2, <2>7 DEF BaseInv, Programs
<1>4. CASE UNCHANGED vars \/ Start \/ Run
  <2>1. heap' = heap /\ base' = base
    BY <1>4 DEF vars, Start, run_task, Run, Execute, cb_ef_number, ef_primitive, d_variable_store,
       d_string_exec, ef_do, ef_i_cb, ef_loop_end, ef_begin, ef_again, ef_until, ef_if, ef_else,
       ef_then, ef_exit, ef_dict_entry, ef_defer, ef_exec, Return, Finish, Fetch, Overrun, Jump,
       Goto, heapVars
  <2> QED  BY <1>2, <2>1
<1>5. CASE parse
  BY <1>3, <1>5 DEF parse
<1>6. CASE Compile /\ \A place : ~program_create(place)
  <2>1. base' = base
    BY <1>6 DEF Compile, ParseWord, if_create, else_create, then_create, do_create, loop_create,
       begin_create, again_create, until_create, BackTo, exit_create, parse_colon,
       parse_colon_name, semicolon, parse_variable, parse_variable_name, parse_string,
       parse_string_expecting_quote, comment, parse_mark, skip_word, program_add, settled, Crash,
       null_PROG, heapVars
  <2>2. CASE heap' = heap
    BY <1>2, <2>1, <2>2
  <2>3. ASSUME NEW tok, current_PROG \in Programs, Emit(tok)
        PROVE  BaseInv'
    <3>1. Programs' = Programs
      BY <1>1, <2>3, EmitGrows DEF Grew
    <3> QED  BY <2>1, <3>1 DEF BaseInv
  <2>4. CASE then_create /\ Completable /\ current_PROG \in Programs
    <3>1. OpenInv
      BY DEF TypeInv
    <3>2. Programs' = Programs
      BY <1>1, <2>4, <3>1, ThenGrows DEF Grew
    <3> QED  BY <2>1, <3>2 DEF BaseInv
  <2> QED  BY <1>6, <2>2, <2>3, <2>4, HeapSteps
<1> QED  BY <1>3, <1>4, <1>5, <1>6 DEF Next

(* The arrays lie apart, so an address is in one at most.                  *)
LEMMA Apart ==
  ASSUME HeapInv, BaseInv, ArraysFit, NEW p \in Programs, NEW q \in Programs,
         NEW a, a \in base[p] .. End(p), a \in base[q] .. End(q)
  PROVE  p = q
<1>1. ASSUME NEW v \in Programs, NEW w \in Programs, v < w,
             a \in base[v] .. End(v), a \in base[w] .. End(w)
      PROVE  FALSE
  <2>1. Stride \in Nat /\ v - 1 \in Nat /\ w - 1 \in Nat /\ v - 1 < w - 1
    BY <1>1, ProgramAssumption DEF Programs
  <2>2. PICK x \in Nat, y \in Nat : x = Stride * (v - 1) /\ y = Stride * (w - 1) /\ x + Stride <= y
    BY <2>1, Multiples
  <2>3. base[v] \in {x, -x} /\ base[w] \in {y, -y}
    BY <1>1, <2>2 DEF BaseInv
  <2>4. /\ Len(heap[v]) \in Nat /\ Len(heap[w]) \in Nat
        /\ Len(heap[v]) < Stride /\ Len(heap[w]) < Stride
    BY <1>1, HeapFacts DEF ArraysFit
  <2>5. /\ a \in Int /\ base[v] <= a /\ a <= base[v] + Len(heap[v])
        /\ base[w] <= a /\ a <= base[w] + Len(heap[w])
    BY <1>1, <2>2, <2>3 DEF End
  <2>6. /\ x \in Nat /\ y \in Nat /\ Stride \in Nat /\ x + Stride <= y
        /\ base[v] \in Int /\ base[v] <= x /\ base[v] >= -x
    BY <2>1, <2>2, <2>3
  <2> DEFINE i == base[v]
             j == base[w]
             m == Len(heap[v])
             n == Len(heap[w])
  <2>7. /\ i \in Int /\ i <= x /\ i >= -x /\ a \in Int
        /\ m \in Nat /\ n \in Nat /\ m < Stride /\ n < Stride
        /\ i <= a /\ a <= i + m /\ j <= a /\ a <= j + n
    BY <2>4, <2>5, <2>6
  <2>8. j = y \/ j = -y
    BY <2>3
  <2> HIDE DEF i, j, m, n
  <2>9. j # y
    BY <2>6, <2>7
  <2>10. j # -y
    BY <2>6, <2>7
  <2> QED  BY <2>8, <2>9, <2>10
<1>2. p \in Int /\ q \in Int
  BY DEF Programs
<1>3. ~(p < q) /\ ~(q < p)
  BY <1>1
<1> QED  BY <1>2, <1>3

(* What pcp points to in an array is that program's token.                 *)
LEMMA TokenIs ==
  ASSUME HeapInv, BaseInv, ArraysFit, NEW p \in Programs, NEW a \in Array(p)
  PROVE  /\ Points(a) /\ Token(a) = heap[p][a - base[p] + 1]
         /\ a - base[p] + 1 \in 1 .. Len(heap[p])
         /\ a \in base[p] .. End(p) /\ a + 1 \in base[p] .. End(p)
         /\ a \in Int /\ base[p] \in Int /\ Len(heap[p]) \in Nat
         /\ Code(p)[a - base[p] + 1] = Token(a).op
<1>1. base[p] \in Int /\ Len(heap[p]) \in Nat
  BY HeapFacts
<1>2. /\ a \in Int /\ base[p] <= a /\ a < base[p] + Len(heap[p])
      /\ End(p) = base[p] + Len(heap[p])
  BY <1>1 DEF Array, End
<1>3. a - base[p] + 1 \in 1 .. Len(heap[p]) /\ a \in base[p] .. End(p) /\ a + 1 \in base[p] .. End(p)
  BY <1>1, <1>2
<1>4. Points(a)
  BY DEF Points
<1>5. \A q \in Programs : a \in Array(q) => q = p
  <2>1. ASSUME NEW q \in Programs, a \in Array(q)
        PROVE  q = p
    <3>1. a \in base[q] .. End(q)
      <4>1. base[q] \in Int /\ Len(heap[q]) \in Nat
        BY HeapFacts
      <4> QED  BY <2>1, <4>1 DEF Array, End
    <3> QED  BY <1>3, <3>1, Apart
  <2> QED  BY <2>1
<1>6. (CHOOSE q \in Programs : a \in Array(q)) = p
  BY <1>5
<1>7. Token(a) = heap[p][a - base[p] + 1]
  BY <1>6 DEF Token
<1>8. Code(p)[a - base[p] + 1] = heap[p][a - base[p] + 1].op
  BY <1>3 DEF Code
<1> QED  BY <1>1, <1>2, <1>3, <1>4, <1>7, <1>8
-----------------------------------------------------------------------------
(***************************************************************************)
(* The machine as it runs.  The return stack and pcp behind it are one     *)
(* trail of addresses: for every call in progress the loops open in it,    *)
(* outermost first, each as deep as its number, and then where the call    *)
(* stands: at pcp, or at the token that made the next call.                *)
(***************************************************************************)
At(p, a, d) == a \in base[p] .. End(p) /\ Depth(Code(p), a - base[p]) = d

(* The call f owns trail[lo + 1 .. hi]; an EXEC's is the one token.        *)
Active(f, lo, hi, trail) ==
  IF f.kind = "EXEC" THEN hi = lo + 1
  ELSE /\ At(f.prog, trail[hi], (hi - lo) - 1)
       /\ \A j \in 1 .. ((hi - lo) - 1) : At(f.prog, trail[lo + j], j)

CallToken(kind) == IF kind = "DICT" THEN "DICT" ELSE "EXEC"
Calling(f, kind, a) ==
  f.kind # "EXEC" =>
    a \in Array(f.prog) /\ Code(f.prog)[a - base[f.prog] + 1] = CallToken(kind)

Stacked(c, fs, trail) ==
  /\ c \in [1 .. (Len(fs) + 1) -> Nat]
  /\ c[1] = 0 /\ c[Len(fs) + 1] = Len(trail)
  /\ \A k \in 1 .. (Len(fs) + 1) : k - 1 <= c[k]
  /\ \A j, k \in 1 .. (Len(fs) + 1) : j < k => c[j] < c[k]
  /\ \A k \in 2 .. Len(fs) : fs[k].kind \in {"DICT", "EXEC"}
  /\ \A k \in 1 .. Len(fs) : Active(fs[k], c[k], c[k + 1], trail)
  /\ \A k \in 1 .. (Len(fs) - 1) : Calling(fs[k], fs[k + 1].kind, trail[c[k + 1]])

Trail == Append(r_stack, pcp)
RunInv ==
  /\ status \in {"prompt", "parse"} => r_stack = << >>
  /\ status = "run" => \E c : Stacked(c, frames, Trail)

(* Calls of the same kinds, of the same programs.                          *)
Alike(f, g) == g.kind = f.kind /\ g.prog = f.prog

(* The innermost call moves.                                               *)
LEMMA Moved ==
  ASSUME NEW fs, NEW gs, NEW n \in Nat \ {0}, Len(fs) = n, Len(gs) = n,
         \A k \in 1 .. n : Alike(fs[k], gs[k]),
         NEW c, NEW s, NEW t, Stacked(c, fs, s), Len(t) \in Nat, c[n] < Len(t),
         \A i \in 1 .. c[n] : t[i] = s[i],
         Active(fs[n], c[n], Len(t), t)
  PROVE  \E e : Stacked(e, gs, t)
<1> DEFINE e == [c EXCEPT ![n + 1] = Len(t)]
<1>1. /\ c \in [1 .. (n + 1) -> Nat] /\ c[1] = 0
      /\ \A k \in 1 .. (n + 1) : k - 1 <= c[k]
      /\ \A j, k \in 1 .. (n + 1) : j < k => c[j] < c[k]
      /\ \A k \in 2 .. n : fs[k].kind \in {"DICT", "EXEC"}
      /\ \A k \in 1 .. n : Active(fs[k], c[k], c[k + 1], s)
      /\ \A k \in 1 .. (n - 1) : Calling(fs[k], fs[k + 1].kind, s[c[k + 1]])
  BY DEF Stacked
<1>2. /\ e \in [1 .. (n + 1) -> Nat] /\ e[n + 1] = Len(t)
      /\ \A k \in 1 .. n : e[k] = c[k] /\ e[k] \in Nat
  BY <1>1
<1> HIDE DEF e
<1>3. e[1] = 0 /\ (\A k \in 1 .. (n + 1) : k - 1 <= e[k])
  <2>1. 1 \in 1 .. n /\ n \in 1 .. (n + 1) /\ n - 1 <= c[n] /\ c[n] \in Nat
    BY <1>1
  <2>2. n <= Len(t)
    BY <2>1
  <2>3. \A k \in 1 .. (n + 1) : k \in 1 .. n \/ k = n + 1
    OBVIOUS
  <2>4. e[1] = 0
    BY <1>1, <1>2, <2>1
  <2>5. ASSUME NEW k \in 1 .. (n + 1)
        PROVE  k - 1 <= e[k]
    <3>1. CASE k = n + 1
      <4>1. k - 1 = n
        BY <3>1
      <4> QED  BY <1>2, <2>2, <3>1, <4>1
    <3>2. CASE k \in 1 .. n
      BY <1>1, <1>2, <3>2
    <3> QED  BY <2>3, <3>1, <3>2
  <2> QED  BY <2>4, <2>5
<1>4. \A j, k \in 1 .. (n + 1) : j < k => e[j] < e[k]
  <2>1. ASSUME NEW j \in 1 .. (n + 1), NEW k \in 1 .. (n + 1), j < k
        PROVE  e[j] < e[k]
    <3>1. CASE k = n + 1
      <4>0. j \in 1 .. n /\ n \in 1 .. (n + 1) /\ (j = n \/ j < n)
        BY <2>1, <3>1
      <4>1. (j = n \/ c[j] < c[n]) /\ c[j] \in Nat /\ c[n] \in Nat
        BY <1>1, <4>0
      <4> QED  BY <1>2, <3>1, <4>0, <4>1
    <3>2. CASE k # n + 1
      BY <1>1, <1>2, <2>1, <3>2
    <3> QED  BY <3>1, <3>2
  <2> QED  BY <2>1
<1>5. \A k \in 2 .. n : gs[k].kind \in {"DICT", "EXEC"}
  <2>1. ASSUME NEW k \in 2 .. n
        PROVE  gs[k].kind \in {"DICT", "EXEC"}
    <3>1. k \in 1 .. n
      OBVIOUS
    <3>2. gs[k].kind = fs[k].kind
      BY <3>1, Zenon DEF Alike
    <3>3. fs[k].kind \in {"DICT", "EXEC"}
      BY <1>1
    <3> QED  BY <3>2, <3>3, Zenon
  <2> QED  BY <2>1
<1>6. ASSUME NEW k \in 1 .. n
      PROVE  Active(gs[k], e[k], e[k + 1], t)
  <2>1. Alike(fs[k], gs[k])
    OBVIOUS
  <2>2. CASE k = n
    BY <1>2, <2>1, <2>2 DEF Active, Alike
  <2>3. CASE k # n
    <3>1. /\ k \in 1 .. (n + 1) /\ k + 1 \in 1 .. (n + 1) /\ n \in 1 .. (n + 1)
          /\ k + 1 \in 1 .. n /\ c[k] \in Nat /\ c[k + 1] \in Nat /\ c[n] \in Nat
          /\ (k + 1 = n \/ c[k + 1] < c[n]) /\ c[k] < c[k + 1]
      BY <1>1, <2>3
    <3>2. t[c[k + 1]] = s[c[k + 1]]
      BY <3>1, SMTT(30)
    <3>3. ASSUME NEW j \in 1 .. ((c[k + 1] - c[k]) - 1)
          PROVE  t[c[k] + j] = s[c[k] + j]
      <4>1. c[k] + j \in 1 .. c[n]
        BY <3>1
      <4> QED  BY <4>1
    <3>4. Active(fs[k], c[k], c[k + 1], s)
      BY <1>1
    <3>5. Active(gs[k], c[k], c[k + 1], t)
      BY <2>1, <3>2, <3>3, <3>4 DEF Active, Alike
    <3> QED  BY <1>2, <3>1, <3>5
  <2> QED  BY <2>2, <2>3
<1>7. \A k \in 1 .. (n - 1) : Calling(gs[k], gs[k + 1].kind, t[e[k + 1]])
  <2>1. ASSUME NEW k \in 1 .. (n - 1)
        PROVE  Calling(gs[k], gs[k + 1].kind, t[e[k + 1]])
    <3>1. /\ k + 1 \in 1 .. (n + 1) /\ n \in 1 .. (n + 1) /\ k \in 1 .. n /\ k \in 1 .. (n + 1)
          /\ k + 1 \in 1 .. n /\ c[k] \in Nat /\ c[k + 1] \in Nat /\ c[n] \in Nat
          /\ (k + 1 = n \/ c[k + 1] < c[n]) /\ c[k] < c[k + 1]
      BY <1>1
    <3>2. c[k + 1] \in 1 .. c[n]
      BY <3>1
    <3>3. t[e[k + 1]] = s[c[k + 1]]
      BY <1>2, <3>1, <3>2
    <3>4. Alike(fs[k], gs[k]) /\ Alike(fs[k + 1], gs[k + 1])
      BY <3>1
    <3>5. Calling(fs[k], fs[k + 1].kind, s[c[k + 1]])
      BY <1>1
    <3> QED  BY <3>3, <3>4, <3>5 DEF Calling, Alike
  <2> QED  BY <2>1
<1>8. Stacked(e, gs, t)
  BY <1>2, <1>3, <1>4, <1>5, <1>6, <1>7 DEF Stacked
<1> QED  BY <1>8

(* A call is made.                                                         *)
LEMMA CallMade ==
  ASSUME NEW fs, NEW gs, NEW n \in Nat \ {0}, Len(fs) = n, Len(gs) = n + 1,
         \A k \in 1 .. n : Alike(fs[k], gs[k]),
         gs[n + 1].kind \in {"DICT", "EXEC"},
         NEW c, NEW s, NEW t, Stacked(c, fs, s),
         NEW m \in Nat, Len(s) = m, Len(t) = m + 1,
         \A i \in 1 .. m : t[i] = s[i],
         Active(gs[n + 1], m, m + 1, t),
         Calling(fs[n], gs[n + 1].kind, s[m])
  PROVE  \E e : Stacked(e, gs, t)
<1> DEFINE e == [k \in 1 .. (n + 2) |-> IF k = n + 2 THEN m + 1 ELSE c[k]]
<1>1. /\ c \in [1 .. (n + 1) -> Nat] /\ c[1] = 0 /\ c[n + 1] = m
      /\ \A k \in 1 .. (n + 1) : k - 1 <= c[k]
      /\ \A j, k \in 1 .. (n + 1) : j < k => c[j] < c[k]
      /\ \A k \in 2 .. n : fs[k].kind \in {"DICT", "EXEC"}
      /\ \A k \in 1 .. n : Active(fs[k], c[k], c[k + 1], s)
      /\ \A k \in 1 .. (n - 1) : Calling(fs[k], fs[k + 1].kind, s[c[k + 1]])
  BY DEF Stacked
<1>2. /\ e \in [1 .. (n + 2) -> Nat] /\ e[n + 2] = m + 1
      /\ \A k \in 1 .. (n + 1) : e[k] = c[k] /\ e[k] \in Nat
  BY <1>1
<1>3. n + 1 + 1 = n + 2 /\ 1 \in 1 .. (n + 1) /\ n \in 1 .. (n + 1) /\ n + 1 \in 1 .. (n + 1)
  OBVIOUS
<1> HIDE DEF e
<1>4. \A k \in 1 .. (n + 1) : c[k] <= m
  <2>1. ASSUME NEW k \in 1 .. (n + 1)
        PROVE  c[k] <= m
    <3>1. k = n + 1 \/ k < n + 1
      OBVIOUS
    <3>2. k = n + 1 \/ c[k] < c[n + 1]
      BY <1>1, <1>3, <3>1
    <3> QED  BY <1>1, <1>3, <3>2
  <2> QED  BY <2>1
<1>5. e[1] = 0 /\ \A k \in 1 .. (n + 2) : k - 1 <= e[k]
  <2>1. n <= m
    BY <1>1, <1>3
  <2>2. ASSUME NEW k \in 1 .. (n + 2)
        PROVE  k - 1 <= e[k]
    <3>1. CASE k = n + 2
      <4>1. k - 1 = n + 1
        BY <3>1
      <4> QED  BY <1>2, <2>1, <3>1, <4>1
    <3>2. CASE k # n + 2
      <4>1. k \in 1 .. (n + 1)
        BY <3>2
      <4> QED  BY <1>1, <1>2, <4>1
    <3> QED  BY <3>1, <3>2
  <2> QED  BY <1>1, <1>2, <1>3, <2>2
<1>6. ASSUME NEW j \in 1 .. (n + 2), NEW k \in 1 .. (n + 2), j < k
      PROVE  e[j] < e[k]
  <2>1. j \in 1 .. (n + 1)
    BY <1>6
  <2>2. CASE k = n + 2
    BY <1>1, <1>2, <1>4, <2>1, <2>2
  <2>3. CASE k # n + 2
    <3>1. k \in 1 .. (n + 1)
      BY <2>3
    <3> QED  BY <1>1, <1>2, <1>6, <2>1, <3>1
  <2> QED  BY <2>2, <2>3
<1>7. ASSUME NEW k \in 2 .. (n + 1)
      PROVE  gs[k].kind \in {"DICT", "EXEC"}
  <2>1. CASE k = n + 1
    BY <2>1
  <2>2. CASE k # n + 1
    <3>1. k \in 2 .. n /\ k \in 1 .. n
      BY <2>2
    <3>2. Alike(fs[k], gs[k]) /\ fs[k].kind \in {"DICT", "EXEC"}
      BY <1>1, <3>1
    <3> QED  BY <3>2 DEF Alike
  <2> QED  BY <2>1, <2>2
<1>8. ASSUME NEW k \in 1 .. (n + 1)
      PROVE  Active(gs[k], e[k], e[k + 1], t)
  <2>1. CASE k = n + 1
    BY <1>1, <1>2, <1>3, <2>1
  <2>2. CASE k # n + 1
    <3>1. k \in 1 .. n /\ k + 1 \in 1 .. (n + 1) /\ k < k + 1
      BY <2>2
    <3>2. c[k] \in Nat /\ c[k + 1] \in Nat /\ c[k] < c[k + 1] /\ c[k + 1] <= m
      BY <1>1, <1>4, <3>1
    <3>3. t[c[k + 1]] = s[c[k + 1]]
      BY <3>2
    <3>4. ASSUME NEW j \in 1 .. ((c[k + 1] - c[k]) - 1)
          PROVE  t[c[k] + j] = s[c[k] + j]
      <4>1. c[k] + j \in 1 .. m
        BY <3>2, SMTT(30)
      <4> QED  BY <4>1
    <3>5. Active(fs[k], c[k], c[k + 1], s) /\ Alike(fs[k], gs[k])
      BY <1>1, <3>1
    <3>6. Active(gs[k], c[k], c[k + 1], t)
      BY <3>3, <3>4, <3>5 DEF Active, Alike
    <3> QED  BY <1>2, <3>1, <3>6
  <2> QED  BY <2>1, <2>2
<1>9. ASSUME NEW k \in 1 .. n
      PROVE  Calling(gs[k], gs[k + 1].kind, t[e[k + 1]])
  <2>1. k + 1 \in 1 .. (n + 1) /\ k \in 1 .. (n + 1) /\ k < k + 1
    OBVIOUS
  <2>2. c[k + 1] \in 1 .. m /\ e[k + 1] = c[k + 1]
    BY <1>1, <1>2, <1>4, <2>1
  <2>3. t[e[k + 1]] = s[c[k + 1]] /\ Alike(fs[k], gs[k])
    BY <2>2
  <2>4. CASE k = n
    BY <1>1, <2>3, <2>4 DEF Calling, Alike
  <2>5. CASE k # n
    <3>1. k \in 1 .. (n - 1) /\ k + 1 \in 1 .. n
      BY <2>5
    <3>2. Calling(fs[k], fs[k + 1].kind, s[c[k + 1]]) /\ Alike(fs[k + 1], gs[k + 1])
      BY <1>1, <3>1
    <3> QED  BY <2>3, <3>2 DEF Calling, Alike
  <2> QED  BY <2>4, <2>5
<1>10. n + 1 - 1 = n
  OBVIOUS
<1>11. Stacked(e, gs, t)
  BY <1>2, <1>3, <1>5, <1>6, <1>7, <1>8, <1>9, <1>10 DEF Stacked
<1> QED  BY <1>11

(* A call returns: its caller goes on.                                     *)
LEMMA CallReturned ==
  ASSUME NEW fs, NEW gs, NEW n \in Nat \ {0}, Len(fs) = n + 1, Len(gs) = n,
         \A k \in 1 .. n : gs[k] = fs[k],
         NEW c, NEW s, NEW t, Stacked(c, fs, s),
         NEW m \in Nat, c[n + 1] = m, Len(t) = m,
         \A i \in 1 .. (m - 1) : t[i] = s[i],
         Active(fs[n], c[n], m, t)
  PROVE  \E e : Stacked(e, gs, t)
<1> DEFINE e == [k \in 1 .. (n + 1) |-> c[k]]
<1>1. /\ c \in [1 .. (n + 2) -> Nat] /\ c[1] = 0
      /\ \A k \in 1 .. (n + 2) : k - 1 <= c[k]
      /\ \A j, k \in 1 .. (n + 2) : j < k => c[j] < c[k]
      /\ \A k \in 2 .. (n + 1) : fs[k].kind \in {"DICT", "EXEC"}
      /\ \A k \in 1 .. (n + 1) : Active(fs[k], c[k], c[k + 1], s)
      /\ \A k \in 1 .. n : Calling(fs[k], fs[k + 1].kind, s[c[k + 1]])
  <2>1. n + 1 + 1 = n + 2 /\ n + 1 - 1 = n
    OBVIOUS
  <2> QED  BY <2>1 DEF Stacked
<1>2. /\ e \in [1 .. (n + 1) -> Nat]
      /\ \A k \in 1 .. (n + 1) : e[k] = c[k] /\ e[k] \in Nat /\ k \in 1 .. (n + 2)
  BY <1>1, SMTT(30)
<1> HIDE DEF e
<1>3. n + 1 \in 1 .. (n + 1) /\ n + 1 \in 1 .. (n + 2) /\ 1 \in 1 .. (n + 1)
  OBVIOUS
<1>4. \A k \in 1 .. n : c[k] < m /\ c[k] \in Nat
  BY <1>1, <1>2, <1>3
<1>5. ASSUME NEW k \in 1 .. n
      PROVE  Active(gs[k], e[k], e[k + 1], t)
  <2>1. CASE k = n
    BY <1>2, <1>3, <2>1
  <2>2. CASE k # n
    <3>1. k + 1 \in 1 .. n /\ k \in 1 .. (n + 1) /\ k + 1 \in 1 .. (n + 1) /\ k < k + 1
      BY <2>2
    <3>2. c[k] \in Nat /\ c[k + 1] \in Nat /\ c[k] < c[k + 1] /\ c[k + 1] < m
      BY <1>1, <1>2, <1>4, <3>1
    <3>3. t[c[k + 1]] = s[c[k + 1]]
      BY <3>2
    <3>4. ASSUME NEW j \in 1 .. ((c[k + 1] - c[k]) - 1)
          PROVE  t[c[k] + j] = s[c[k] + j]
      <4>1. c[k] + j \in 1 .. (m - 1)
        BY <3>2
      <4> QED  BY <4>1
    <3>5. Active(fs[k], c[k], c[k + 1], s)
      BY <1>1, <3>1
    <3>6. Active(fs[k], c[k], c[k + 1], t)
      BY <3>3, <3>4, <3>5 DEF Active
    <3> QED  BY <1>2, <3>1, <3>6
  <2> QED  BY <2>1, <2>2
<1>6. ASSUME NEW k \in 1 .. (n - 1)
      PROVE  Calling(gs[k], gs[k + 1].kind, t[e[k + 1]])
  <2>1. k \in 1 .. n /\ k + 1 \in 1 .. n /\ k + 1 \in 1 .. (n + 1) /\ k \in 1 .. (n + 1) /\ k < k + 1
    OBVIOUS
  <2>2. c[k] \in Nat /\ c[k + 1] \in Nat /\ c[k + 1] < m /\ e[k + 1] = c[k + 1]
    BY <1>2, <1>4, <2>1
  <2>3. c[k] < c[k + 1]
    BY <1>1, <1>2, <2>1
  <2>4. c[k + 1] \in 1 .. (m - 1)
    BY <2>2, <2>3
  <2>5. t[e[k + 1]] = s[c[k + 1]] /\ gs[k] = fs[k] /\ gs[k + 1] = fs[k + 1]
    BY <2>1, <2>2, <2>4
  <2>6. Calling(fs[k], fs[k + 1].kind, s[c[k + 1]])
    BY <1>1, <2>1
  <2> QED  BY <2>5, <2>6
<1>7. e[1] = 0 /\ e[n + 1] = m
  BY <1>1, <1>2, <1>3
<1>8. \A k \in 1 .. (n + 1) : k - 1 <= e[k]
  BY <1>1, <1>2
<1>9. \A j, k \in 1 .. (n + 1) : j < k => e[j] < e[k]
  BY <1>1, <1>2
<1>10. \A k \in 2 .. n : gs[k].kind \in {"DICT", "EXEC"}
  BY <1>1
<1>11. Stacked(e, gs, t)
  BY <1>2, <1>5, <1>6, <1>7, <1>8, <1>9, <1>10 DEF Stacked
<1> QED  BY <1>11
-----------------------------------------------------------------------------
(***************************************************************************)
(* Where a handler sends pcp.                                              *)
(***************************************************************************)
Steady == Held /\ BaseInv /\ ArraysFit /\ JumpsLand /\ Disciplined

LEMMA Innermost ==
  ASSUME TypeInv, status = "run"
  PROVE  /\ Len(frames) \in Nat \ {0} /\ frame = frames[Len(frames)]
         /\ \A k \in 1 .. Len(frames) : frames[k] \in Frames(Programs)
         /\ frame.prog \in Programs /\ frames[1].kind = "MAIN"
         /\ Len(Called) = Len(frames)
         /\ \A k \in 1 .. Len(frames) : Alike(frames[k], Called[k])
         /\ HeapInv /\ pcp \in Int /\ r_stack \in Seq(Int) /\ Len(r_stack) \in Nat
         /\ Len(Trail) = Len(r_stack) + 1 /\ Trail[Len(r_stack) + 1] = pcp
         /\ \A i \in 1 .. Len(r_stack) : Trail[i] = r_stack[i]
<1>1. frames \in Seq(Frames(Programs)) /\ frames # << >> /\ frames[1].kind = "MAIN"
  BY DEF TypeInv, CallInv
<1>2. Len(frames) \in Nat \ {0} /\ \A k \in 1 .. Len(frames) : frames[k] \in Frames(Programs)
  BY <1>1, EmptySeq, ElementOfSeq
<1>3. frame = frames[Len(frames)] /\ frame.prog \in Programs
  BY <1>2 DEF frame, Top, Frames
<1> DEFINE e == [frames[Len(frames)] EXCEPT !.done = TRUE]
<1>4. e \in Frames(Programs) /\ Alike(frames[Len(frames)], e)
  <2>1. frames[Len(frames)] \in Frames(Programs)
    BY <1>2
  <2> QED  BY <2>1 DEF Frames, Alike
<1>5. Called = [frames EXCEPT ![Len(frames)] = e]
  BY DEF Called
<1> HIDE DEF e
<1>6. /\ Len(Called) = Len(frames)
      /\ \A k \in 1 .. Len(frames) : Called[k] = IF k = Len(frames) THEN e ELSE frames[k]
  BY <1>1, <1>4, <1>5, TopReplaced
<1>7. \A k \in 1 .. Len(frames) : Alike(frames[k], Called[k])
  BY <1>4, <1>6 DEF Alike
<1>8. pcp \in Int /\ r_stack \in Seq(Int) /\ HeapInv /\ Len(r_stack) \in Nat
  BY LenProperties DEF TypeInv, TaskInv
<1>9. /\ Len(Trail) = Len(r_stack) + 1 /\ Trail[Len(r_stack) + 1] = pcp
      /\ \A i \in 1 .. Len(r_stack) : Trail[i] = r_stack[i]
  BY <1>8, AppendProperties DEF Trail
<1> QED  BY <1>1, <1>2, <1>3, <1>6, <1>7, <1>8, <1>9

LEMMA OnToken ==
  ASSUME Steady, NEW op, Executes(op)
  PROVE  /\ status = "run"
         /\ frame.kind = "EXEC" => op \notin LoopWords
         /\ op \notin {">r", "SEXEC"}
         /\ frame.kind # "EXEC" /\ pcp \in base[frame.prog] .. End(frame.prog) =>
              /\ pcp \in Array(frame.prog)
              /\ Token(pcp) = heap[frame.prog][pcp - base[frame.prog] + 1]
              /\ Code(frame.prog)[pcp - base[frame.prog] + 1] = op
<1>1. TypeInv /\ status = "run" /\ HeapInv /\ Points(pcp) /\ Token(pcp).op = op
  BY Executing DEF Steady, Held, TypeInv
<1>2. frame.kind = "EXEC" => op \notin LoopWords
  BY <1>1 DEF Steady, Disciplined, ExecTakesWords, Executes
<1>3. op \notin {">r", "SEXEC"}
  <2>1. PICK p \in Programs : pcp \in Array(p)
    BY <1>1 DEF Points
  <2>2. /\ pcp - base[p] + 1 \in 1 .. Len(heap[p])
        /\ Code(p)[pcp - base[p] + 1] = op
    BY <1>1, <2>1, TokenIs DEF Steady
  <2>3. Shaped(Code(p)) /\ Len(Code(p)) = Len(heap[p])
    BY <1>1, HeapFacts, CodeProperties DEF Steady, Held, ShapeInv, Dead
  <2> QED  BY <2>2, <2>3 DEF Shaped
<1>4. ASSUME frame.kind # "EXEC", pcp \in base[frame.prog] .. End(frame.prog)
      PROVE  /\ pcp \in Array(frame.prog)
             /\ Token(pcp) = heap[frame.prog][pcp - base[frame.prog] + 1]
             /\ Code(frame.prog)[pcp - base[frame.prog] + 1] = op
  <2>1. pcp < End(frame.prog)
    BY <1>4 DEF Executes, Running, GoesOn
  <2>2. frame.prog \in Programs
    BY <1>1, Innermost
  <2>3. base[frame.prog] \in Int /\ Len(heap[frame.prog]) \in Nat
    BY <1>1, <2>2, HeapFacts
  <2>4. pcp \in Array(frame.prog)
    BY <1>4, <2>1, <2>3 DEF Array, End
  <2> QED  BY <1>1, <2>2, <2>4, TokenIs DEF Steady
<1> QED  BY <1>1, <1>2, <1>3, <1>4

LEMMA AtNext ==
  ASSUME HeapInv, NEW p \in Programs, NEW a \in Array(p), NEW d, At(p, a, d)
  PROVE  d \in Int /\ At(p, a + 1, d + Delta(Code(p)[a - base[p] + 1]))
<1>1. base[p] \in Int /\ Len(heap[p]) \in Nat
  BY HeapFacts
<1>2. PICK n \in Nat : a = base[p] + n /\ n < Len(heap[p])
  <2>1. a - base[p] \in Nat /\ a = base[p] + (a - base[p]) /\ a - base[p] < Len(heap[p])
    BY <1>1 DEF Array, End
  <2> QED  BY <2>1
<1>3. a - base[p] = n /\ (a + 1) - base[p] = n + 1 /\ a + 1 \in base[p] .. End(p)
  BY <1>1, <1>2 DEF End
<1>4. Depth(Code(p), n) = d /\ Depth(Code(p), n) \in Int
  BY <1>3, DepthNext DEF At
<1>5. Depth(Code(p), n + 1) = Depth(Code(p), n) + Delta(Code(p)[n + 1])
  BY DepthNext
<1>6. Depth(Code(p), (a + 1) - base[p]) = d + Delta(Code(p)[a - base[p] + 1])
  <2>1. Depth(Code(p), n + 1) = d + Delta(Code(p)[n + 1])
    BY <1>4, <1>5
  <2> QED  BY <1>3, <2>1
<1>7. At(p, a + 1, d + Delta(Code(p)[a - base[p] + 1]))
  BY <1>3, <1>6, Zenon DEF At
<1> QED  BY <1>4, <1>7

(* To the next token.                                                      *)
LEMMA NextPlace ==
  ASSUME Steady, NEW op, Executes(op), frame.kind # "EXEC", NEW d, At(frame.prog, pcp, d)
  PROVE  d \in Int /\ At(frame.prog, pcp + 1, d + Delta(op))
<1>1. TypeInv /\ status = "run" /\ HeapInv
  BY OnToken DEF Steady, Held, TypeInv
<1>2. frame.prog \in Programs /\ pcp \in base[frame.prog] .. End(frame.prog)
  BY <1>1, Innermost DEF At
<1>3. pcp \in Array(frame.prog) /\ Code(frame.prog)[pcp - base[frame.prog] + 1] = op
  BY <1>2, OnToken
<1> QED  BY <1>1, <1>2, <1>3, AtNext

(* ' skips a word that is no loop's.                                       *)
LEMMA TickPlace ==
  ASSUME Steady, Executes("DEFER"), frame.kind # "EXEC", NEW d, At(frame.prog, pcp, d)
  PROVE  At(frame.prog, pcp + 2, d)
<1>1. TypeInv /\ status = "run" /\ HeapInv
  BY OnToken DEF Steady, Held, TypeInv
<1>2. PICK p \in Programs : p = frame.prog
  BY <1>1, Innermost
<1>3. pcp \in base[p] .. End(p)
  BY <1>2 DEF At
<1>4. pcp \in Array(p) /\ pcp \in Int
  BY <1>1, <1>2, <1>3, OnToken, Innermost
<1>5. pcp + 1 \in Array(p) /\ Token(pcp + 1).op \notin LoopWords
  BY <1>4 DEF Steady, Disciplined, TicksTakeWords
<1>6. PICK a \in Array(p) : a = pcp + 1 /\ Token(a).op \notin LoopWords
  BY <1>5
<1>7. d \in Int /\ At(p, pcp + 1, d)
  <2>1. Delta("DEFER") = 0
    BY DEF Delta
  <2>2. d \in Int /\ At(p, pcp + 1, d + Delta("DEFER"))
    BY <1>2, NextPlace
  <2> QED  BY <2>1, <2>2
<1>8. Code(p)[a - base[p] + 1] = Token(a).op
  BY <1>1, TokenIs DEF Steady
<1>9. Delta(Token(a).op) = 0
  BY <1>6 DEF Delta, LoopWords
<1>10. At(p, a + 1, d + Delta(Code(p)[a - base[p] + 1]))
  BY <1>1, <1>6, <1>7, AtNext
<1>11. a + 1 = pcp + 2 /\ d + Delta(Code(p)[a - base[p] + 1]) = d
  BY <1>4, <1>6, <1>7, <1>8, <1>9
<1> QED  BY <1>2, <1>10, <1>11

(* EXIT stands outside loops, as the end of the program does.              *)
LEMMA ExitPlace ==
  ASSUME Steady, Executes("EXIT"), frame.kind # "EXEC", NEW d, At(frame.prog, pcp, d)
  PROVE  At(frame.prog, End(frame.prog), d)
<1>1. TypeInv /\ status = "run" /\ HeapInv
  BY OnToken DEF Steady, Held, TypeInv
<1>2. PICK p \in Programs : p = frame.prog
  BY <1>1, Innermost
<1>3. pcp \in base[p] .. End(p)
  BY <1>2 DEF At
<1>4. pcp \in Array(p) /\ Code(p)[pcp - base[p] + 1] = "EXIT"
  BY <1>1, <1>2, <1>3, OnToken
<1>5. /\ pcp - base[p] + 1 \in 1 .. Len(heap[p]) /\ base[p] \in Int /\ Len(heap[p]) \in Nat
      /\ pcp \in Int
  BY <1>1, <1>4, TokenIs DEF Steady
<1>6. Shaped(Code(p)) /\ Len(Code(p)) = Len(heap[p]) /\ Depth(Code(p), Len(heap[p])) = 0
  BY <1>1, <1>5, CodeProperties DEF Steady, Held, ShapeInv, Ended, Dead
<1>7. Depth(Code(p), pcp - base[p] + 1) = 0
  BY <1>4, <1>5, <1>6 DEF Shaped
<1>8. d = 0
  <2>1. d \in Int /\ At(p, pcp + 1, d + Delta("EXIT"))
    BY <1>2, NextPlace
  <2>2. Delta("EXIT") = 0 /\ (pcp + 1) - base[p] = pcp - base[p] + 1
    BY <1>5 DEF Delta
  <2>3. Depth(Code(p), pcp - base[p] + 1) = d + Delta("EXIT")
    <3>1. Depth(Code(p), (pcp + 1) - base[p]) = d + Delta("EXIT")
      BY <2>1, Zenon DEF At
    <3> QED  BY <2>2, <3>1
  <2> QED  BY <1>7, <2>1, <2>2, <2>3
<1>9. End(p) \in base[p] .. End(p) /\ End(p) - base[p] = Len(heap[p])
  BY <1>5 DEF End
<1> QED  BY <1>2, <1>6, <1>8, <1>9 DEF At

(* Every IF and ELSE has a bracket behind it, as deep as it is itself.     *)
LEMMA NextBracket ==
  ASSUME Steady, status = "run", NEW p \in Programs, NEW i \in 1 .. Len(heap[p]),
         Code(p)[i] \in {"IF", "ELSE"}
  PROVE  \E j \in (i + 1) .. Len(heap[p]) : Closes(p, i, j) /\ Paired(Code(p), i, j)
<1>1. /\ Len(heap[p]) \in Nat /\ Len(Code(p)) = Len(heap[p])
      /\ \A k \in 1 .. Len(heap[p]) : Code(p)[k] = heap[p][k].op
      /\ Shaped(Code(p)) /\ ~LastJump(Code(p), Len(heap[p]), i)
  <2>1. Len(heap[p]) \in Nat
    BY HeapFacts DEF Steady, Held, TypeInv
  <2> QED  BY <2>1, CodeProperties DEF Steady, Held, ShapeInv, Ended, Dead
<1> DEFINE found == {j \in (i + 1) .. Len(heap[p]) : Code(p)[j] \in Bracket}
<1>2. found # {} /\ found \in SUBSET Nat
  BY <1>1 DEF LastJump, Jumping
<1>3. PICK j \in found : \A k \in found : j <= k
  BY <1>2, LeastOfNaturals
<1>4. /\ j \in (i + 1) .. Len(heap[p]) /\ j \in 1 .. Len(heap[p]) /\ i < j
      /\ Code(p)[j] \in Bracket
  BY <1>3
<1>5. \A k \in (i + 1) .. (j - 1) : k \in 1 .. Len(heap[p]) /\ Code(p)[k] \notin Bracket
  BY <1>1, <1>3, <1>4
<1>6. Closes(p, i, j)
  BY <1>1, <1>4, <1>5 DEF Closes
<1>7. Paired(Code(p), i, j)
  BY <1>1, <1>4, <1>5 DEF Shaped
<1> QED  BY <1>4, <1>6, <1>7

(* IF with a false flag and ELSE go to the THEN that closes them.          *)
LEMMA BranchPlace ==
  ASSUME Steady, NEW op \in {"IF", "ELSE"}, Executes(op), frame.kind # "EXEC",
         op = "IF" => Top(d_stack) # F_TRUE,
         NEW d, At(frame.prog, pcp, d)
  PROVE  At(frame.prog, pcp + Token(pcp).val, d)
<1>1. TypeInv /\ status = "run" /\ HeapInv
  BY OnToken DEF Steady, Held, TypeInv
<1>2. PICK p \in Programs : p = frame.prog
  BY <1>1, Innermost
<1>3. pcp \in base[p] .. End(p)
  BY <1>2 DEF At
<1>4. /\ pcp \in Array(p) /\ Code(p)[(pcp - base[p]) + 1] = op
      /\ Token(pcp) = heap[p][(pcp - base[p]) + 1]
      /\ base[p] \in Int /\ Len(heap[p]) \in Nat /\ pcp \in Int
      /\ (pcp - base[p]) + 1 \in 1 .. Len(heap[p])
  BY <1>1, <1>2, <1>3, OnToken, TokenIs DEF Steady
<1>5. PICK i \in 1 .. Len(heap[p]) : i = (pcp - base[p]) + 1
  BY <1>4
<1>6. Code(p)[i] = op /\ Token(pcp) = heap[p][i] /\ heap[p][i].op = op
  <2>1. Code(p)[i] = heap[p][i].op
    BY <1>4, CodeProperties
  <2> QED  BY <1>4, <1>5, <2>1
<1>7. PICK j \in (i + 1) .. Len(heap[p]) : Closes(p, i, j) /\ Paired(Code(p), i, j)
  BY <1>1, <1>6, NextBracket
<1>8. heap[p][j].op = Code(p)[j] /\ j \in DOMAIN heap[p] /\ i \in DOMAIN heap[p] /\ j \in Nat
  <2>1. j \in 1 .. Len(heap[p]) /\ i \in 1 .. Len(heap[p])
    BY <1>7
  <2>2. DOMAIN heap[p] = 1 .. Len(heap[p])
    BY <1>1, HeapFacts, LenProperties
  <2> QED  BY <1>4, <2>1, <2>2, CodeProperties
<1>9. Code(p)[j] = "THEN"
  <2>1. CASE op = "IF" /\ Code(p)[j] = "ELSE"
    <3>1. pcp = base[p] + i - 1
      BY <1>4, <1>5
    <3>2. Top(d_stack) = F_TRUE
      BY <1>7, <1>8, <2>1, <3>1 DEF Steady, Disciplined, ElseAfterTrue
    <3> QED  BY <2>1, <3>2
  <2> QED  BY <1>6, <1>7, <2>1 DEF Paired
<1>10. Token(pcp).val = j - i
  BY <1>1, <1>6, <1>7, <1>8, <1>9 DEF Steady, JumpsLand
<1>11. Depth(Code(p), i - 1) = d /\ i - 1 \in Nat /\ j - 1 \in Nat
  <2>1. pcp - base[p] = i - 1
    BY <1>4, <1>5
  <2>2. Depth(Code(p), pcp - base[p]) = d
    BY <1>2, Zenon DEF At
  <2> QED  BY <1>7, <2>1, <2>2
<1>12. Depth(Code(p), i) = Depth(Code(p), i - 1) + Delta(Code(p)[i]) /\ Depth(Code(p), i - 1) \in Int
  <2>1. PICK n \in Nat : n = i - 1 /\ i = n + 1
    BY <1>11
  <2> QED  BY <2>1, DepthNext
<1>13. Depth(Code(p), j) = Depth(Code(p), j - 1) + Delta(Code(p)[j]) /\ Depth(Code(p), j - 1) \in Int
  <2>1. PICK n \in Nat : n = j - 1 /\ j = n + 1
    BY <1>11
  <2> QED  BY <2>1, DepthNext
<1>14. Delta(Code(p)[i]) = 0 /\ Delta(Code(p)[j]) = 0
  BY <1>6, <1>9 DEF Delta
<1>15. Depth(Code(p), j - 1) = d
  BY <1>7, <1>11, <1>12, <1>13, <1>14 DEF Paired
<1>16. /\ pcp + Token(pcp).val \in base[p] .. End(p)
       /\ (pcp + Token(pcp).val) - base[p] = j - 1
  <2>1. PICK k \in Int : k = pcp + Token(pcp).val /\ k = (pcp + j) - i
    <3>1. (pcp + j) - i \in Int /\ (pcp + j) - i = pcp + (j - i)
      BY <1>4, <1>8
    <3> QED  BY <1>10, <3>1
  <2>2. k - base[p] = j - 1 /\ k >= base[p] /\ k <= base[p] + Len(heap[p])
    <3>1. i \in Int /\ j \in Int /\ 1 <= j /\ j <= Len(heap[p])
      BY <1>4
    <3> DEFINE b == base[p]
               N == Len(heap[p])
    <3>2. b \in Int /\ N \in Int /\ pcp \in Int
      BY <1>4
    <3>3. i = (pcp - b) + 1 /\ k = (pcp + j) - i /\ j <= N
      BY <1>5, <2>1, <3>1, Zenon
    <3> HIDE DEF b, N
    <3>4. k - b = j - 1 /\ k >= b /\ k <= b + N
      BY <3>1, <3>2, <3>3
    <3> QED  BY <3>4 DEF b, N
  <2>3. base[p] + Len(heap[p]) \in Int
    BY <1>4
  <2> QED  BY <1>4, <2>1, <2>2, <2>3 DEF End
<1> QED  BY <1>2, <1>15, <1>16 DEF At
-----------------------------------------------------------------------------
(***************************************************************************)
(* The handlers.                                                           *)
(***************************************************************************)
Runs == \E c : Stacked(c, frames', Trail')

(* A handler that goes on at the depth it was at.                          *)
LEMMA GoesTo ==
  ASSUME TypeInv, status = "run", RunInv, NEW to \in Int,
         frames' = Called, pcp' = to, r_stack' = r_stack,
         frame.kind # "EXEC" => \A d : At(frame.prog, pcp, d) => At(frame.prog, to, d)
  PROVE  Runs
<1>1. PICK c : Stacked(c, frames, Trail)
  BY DEF RunInv
<1> DEFINE n == Len(frames)
           m == Len(r_stack)
<1>2. PICK t : t = Trail'
  OBVIOUS
<1>3. /\ Len(t) = m + 1 /\ t[m + 1] = to /\ m \in Nat
      /\ \A i \in 1 .. m : t[i] = r_stack[i]
  BY <1>2, Innermost, AppendProperties DEF Trail
<1>4. /\ n \in Nat \ {0} /\ Len(Called) = n /\ frame = frames[n]
      /\ \A k \in 1 .. n : Alike(frames[k], Called[k])
      /\ Len(Trail) = m + 1 /\ Trail[m + 1] = pcp /\ \A i \in 1 .. m : Trail[i] = r_stack[i]
  BY Innermost
<1> HIDE DEF n, m
<1>5. /\ c[n + 1] = m + 1 /\ c[n] \in Nat /\ c[n] < m + 1
      /\ Active(frame, c[n], m + 1, Trail)
  BY <1>1, <1>4 DEF Stacked, n
<1>6. \A i \in 1 .. c[n] : t[i] = Trail[i]
  BY <1>3, <1>4, <1>5
<1>7. Active(frame, c[n], m + 1, t)
  <2>1. CASE frame.kind = "EXEC"
    BY <1>5, <2>1 DEF Active
  <2>2. CASE frame.kind # "EXEC"
    <3>1. At(frame.prog, pcp, ((m + 1) - c[n]) - 1)
      BY <1>4, <1>5, <2>2 DEF Active
    <3>2. At(frame.prog, to, ((m + 1) - c[n]) - 1)
      BY <2>2, <3>1
    <3>3. \A j \in 1 .. (((m + 1) - c[n]) - 1) : t[c[n] + j] = Trail[c[n] + j]
      BY <1>3, <1>4, <1>5
    <3> QED  BY <1>3, <1>5, <2>2, <3>2, <3>3 DEF Active
  <2> QED  BY <2>1, <2>2
<1>8. \E e : Stacked(e, Called, t)
  <2>1. Len(frames) = n /\ Len(t) \in Nat /\ c[n] < Len(t)
    BY <1>3, <1>5 DEF n
  <2>2. Active(frames[n], c[n], Len(t), t)
    BY <1>3, <1>4, <1>7
  <2> QED  BY <1>1, <1>4, <1>6, <2>1, <2>2, Moved
<1> QED  BY <1>2, <1>8 DEF Runs

(* The trail of the innermost call.                                        *)
LEMMA InnermostTrail ==
  ASSUME TypeInv, status = "run", NEW c, Stacked(c, frames, Trail),
         NEW n, n = Len(frames), NEW m, m = Len(r_stack)
  PROVE  /\ n \in Nat \ {0} /\ m \in Nat /\ c[n + 1] = m + 1 /\ c[n] \in Nat /\ c[n] < m + 1
         /\ n - 1 <= c[n]
         /\ frame = frames[n] /\ Active(frame, c[n], m + 1, Trail)
         /\ frame.kind = "EXEC" => m = c[n]
         /\ frame.kind # "EXEC" =>
              /\ At(frame.prog, pcp, m - c[n])
              /\ \A j \in 1 .. (m - c[n]) : At(frame.prog, r_stack[c[n] + j], j)
<1>1. /\ n \in Nat \ {0} /\ frame = frames[n] /\ m \in Nat
      /\ Len(Trail) = m + 1 /\ Trail[m + 1] = pcp /\ \A i \in 1 .. m : Trail[i] = r_stack[i]
  BY Innermost
<1>2. /\ c[n + 1] = m + 1 /\ c[n] \in Nat /\ c[n] < m + 1 /\ n - 1 <= c[n]
      /\ Active(frame, c[n], m + 1, Trail)
  BY <1>1 DEF Stacked
<1>3. ((m + 1) - c[n]) - 1 = m - c[n]
  BY <1>1, <1>2
<1>4. \A j \in 1 .. (m - c[n]) : Trail[c[n] + j] = r_stack[c[n] + j]
  BY <1>1, <1>2
<1>5. frame.kind = "EXEC" => m = c[n]
  BY <1>1, <1>2 DEF Active
<1>6. frame.kind # "EXEC" =>
        /\ At(frame.prog, pcp, m - c[n])
        /\ \A j \in 1 .. (m - c[n]) : At(frame.prog, r_stack[c[n] + j], j)
  BY <1>1, <1>2, <1>3, <1>4 DEF Active
<1> QED  BY <1>1, <1>2, <1>5, <1>6

(* A loop that ends or goes round is open.                                 *)
LEMMA LoopIsOpen ==
  ASSUME Steady, NEW op \in {"LOOP", "AGAIN", "UNTIL"}, Executes(op), NEW d, At(frame.prog, pcp, d)
  PROVE  d \in Int /\ 1 <= d /\ At(frame.prog, pcp + 1, d - 1)
<1>1. TypeInv /\ status = "run" /\ HeapInv /\ frame.kind # "EXEC"
  BY OnToken DEF Steady, Held, TypeInv, LoopWords
<1>2. PICK p \in Programs : p = frame.prog
  BY <1>1, Innermost
<1>3. d \in Int /\ At(p, pcp + 1, d + Delta(op))
  BY <1>1, <1>2, NextPlace
<1>4. d + Delta(op) = d - 1
  BY <1>3 DEF Delta
<1>5. (pcp + 1) - base[p] \in 0 .. Len(heap[p])
  <2>1. pcp + 1 \in base[p] .. End(p)
    BY <1>3 DEF At
  <2>2. base[p] \in Int /\ Len(heap[p]) \in Nat /\ End(p) = base[p] + Len(heap[p]) /\ pcp \in Int
    BY <1>1, HeapFacts, Innermost DEF End
  <2> QED  BY <2>1, <2>2
<1>6. Shaped(Code(p)) /\ Len(Code(p)) = Len(heap[p])
  <2>1. Len(heap[p]) \in Nat
    BY <1>1, HeapFacts
  <2> QED  BY <1>1, <2>1, CodeProperties DEF Steady, Held, ShapeInv, Dead
<1>7. Depth(Code(p), (pcp + 1) - base[p]) >= 0
  BY <1>5, <1>6 DEF Shaped
<1>8. Depth(Code(p), (pcp + 1) - base[p]) = d - 1
  BY <1>3, <1>4 DEF At
<1> QED  BY <1>2, <1>3, <1>4, <1>7, <1>8

(* The three ways in which a loop's word changes the trail.                *)
LEMMA LoopEnters ==
  ASSUME Steady, RunInv, NEW op \in {"DO", "BEGIN"}, Executes(op),
         frames' = Called, pcp' = pcp + 1, r_stack' = Append(r_stack, pcp + 1)
  PROVE  Runs
<1>1. TypeInv /\ status = "run" /\ frame.kind # "EXEC"
  BY OnToken DEF Steady, Held, LoopWords
<1>2. PICK c : Stacked(c, frames, Trail)
  BY <1>1 DEF RunInv
<1>3. PICK n, m, t : n = Len(frames) /\ m = Len(r_stack) /\ t = Trail'
  OBVIOUS
<1>4. /\ n \in Nat \ {0} /\ m \in Nat /\ c[n] \in Nat /\ c[n] < m + 1
      /\ frame = frames[n] /\ At(frame.prog, pcp, m - c[n])
      /\ \A j \in 1 .. (m - c[n]) : At(frame.prog, r_stack[c[n] + j], j)
  BY <1>1, <1>2, <1>3, InnermostTrail
<1>5. /\ r_stack \in Seq(Int) /\ pcp \in Int /\ Len(Called) = n
      /\ \A k \in 1 .. n : Alike(frames[k], Called[k])
      /\ \A i \in 1 .. m : Trail[i] = r_stack[i]
  BY <1>1, <1>3, Innermost
<1>6. /\ Len(t) = m + 2 /\ t[m + 2] = pcp + 1 /\ t[m + 1] = pcp + 1
      /\ \A i \in 1 .. m : t[i] = r_stack[i]
  <2>1. PICK r : r = r_stack' /\ r = Append(r_stack, pcp + 1)
    OBVIOUS
  <2>2. /\ r \in Seq(Int) /\ Len(r) = m + 1 /\ r[m + 1] = pcp + 1
        /\ \A i \in 1 .. m : r[i] = r_stack[i]
    BY <1>3, <1>5, <2>1, AppendProperties
  <2>3. t = Append(r, pcp + 1)
    BY <1>3, <2>1 DEF Trail
  <2>4. Len(t) = m + 1 + 1 /\ t[m + 1 + 1] = pcp + 1 /\ \A i \in 1 .. (m + 1) : t[i] = r[i]
    BY <1>4, <1>5, <2>2, <2>3, AppendProperties
  <2>5. m + 1 + 1 = m + 2 /\ m + 1 \in 1 .. (m + 1) /\ \A i \in 1 .. m : i \in 1 .. (m + 1)
    BY <1>4
  <2> QED  BY <2>2, <2>4, <2>5
<1>7. At(frame.prog, pcp + 1, (m - c[n]) + 1)
  <2>1. At(frame.prog, pcp + 1, (m - c[n]) + Delta(op))
    BY <1>1, <1>4, NextPlace
  <2>2. Delta(op) = 1
    BY DEF Delta
  <2> QED  BY <2>1, <2>2
<1>8. Active(frames[n], c[n], m + 2, t)
  <2>1. ((m + 2) - c[n]) - 1 = (m - c[n]) + 1
    BY <1>4
  <2>2. ASSUME NEW j \in 1 .. ((m - c[n]) + 1)
        PROVE  At(frame.prog, t[c[n] + j], j)
    <3>1. CASE j = (m - c[n]) + 1
      <4>1. c[n] + j = m + 1
        BY <1>4, <3>1
      <4> QED  BY <1>6, <1>7, <3>1, <4>1
    <3>2. CASE j # (m - c[n]) + 1
      <4>1. j \in 1 .. (m - c[n]) /\ c[n] + j \in 1 .. m
        BY <1>4, <3>2, SMTT(30)
      <4> QED  BY <1>4, <1>6, <4>1
    <3> QED  BY <3>1, <3>2
  <2> QED  BY <1>1, <1>4, <1>6, <1>7, <2>1, <2>2 DEF Active
<1>9. \A i \in 1 .. c[n] : t[i] = Trail[i]
  BY <1>4, <1>5, <1>6
<1>10. Len(t) \in Nat /\ c[n] < Len(t)
  BY <1>4, <1>6
<1>11. Active(frames[n], c[n], Len(t), t)
  BY <1>6, <1>8
<1>12. \E e : Stacked(e, Called, t)
  BY <1>2, <1>3, <1>4, <1>5, <1>9, <1>10, <1>11, Moved
<1> QED  BY <1>3, <1>12 DEF Runs

LEMMA LoopTurns ==
  ASSUME Steady, RunInv, NEW op \in {"LOOP", "AGAIN", "UNTIL"}, Executes(op),
         frames' = Called, pcp' = Top(r_stack), r_stack' = r_stack
  PROVE  Runs
<1>1. TypeInv /\ status = "run" /\ frame.kind # "EXEC"
  BY OnToken DEF Steady, Held, LoopWords
<1>2. PICK c : Stacked(c, frames, Trail)
  BY <1>1 DEF RunInv
<1>3. PICK n, m, t : n = Len(frames) /\ m = Len(r_stack) /\ t = Trail'
  OBVIOUS
<1>4. /\ n \in Nat \ {0} /\ m \in Nat /\ c[n] \in Nat /\ c[n] < m + 1
      /\ frame = frames[n] /\ At(frame.prog, pcp, m - c[n])
      /\ \A j \in 1 .. (m - c[n]) : At(frame.prog, r_stack[c[n] + j], j)
  BY <1>1, <1>2, <1>3, InnermostTrail
<1>5. /\ r_stack \in Seq(Int) /\ Len(Called) = n
      /\ \A k \in 1 .. n : Alike(frames[k], Called[k])
      /\ \A i \in 1 .. m : Trail[i] = r_stack[i]
  BY <1>1, <1>3, Innermost
<1>6. 1 <= m - c[n]
  BY <1>4, LoopIsOpen
<1>7. At(frame.prog, r_stack[m], m - c[n]) /\ Top(r_stack) = r_stack[m]
  <2>1. m - c[n] \in 1 .. (m - c[n]) /\ c[n] + (m - c[n]) = m
    BY <1>4, <1>6
  <2>2. At(frame.prog, r_stack[c[n] + (m - c[n])], m - c[n])
    BY <1>4, <2>1
  <2> QED  BY <1>3, <2>1, <2>2 DEF Top
<1>8. /\ Len(t) = m + 1 /\ t[m + 1] = r_stack[m]
      /\ \A i \in 1 .. m : t[i] = r_stack[i]
  <2>1. t = Append(r_stack, r_stack[m])
    BY <1>3, <1>7 DEF Trail
  <2>2. r_stack[m] \in Int
    BY <1>3, <1>4, <1>5, <1>6, ElementOfSeq
  <2> QED  BY <1>3, <1>5, <2>1, <2>2, AppendProperties
<1>9. Active(frames[n], c[n], m + 1, t)
  <2>1. ((m + 1) - c[n]) - 1 = m - c[n]
    BY <1>4
  <2>2. \A j \in 1 .. (m - c[n]) : t[c[n] + j] = r_stack[c[n] + j]
    BY <1>4, <1>8
  <2> QED  BY <1>1, <1>4, <1>7, <1>8, <2>1, <2>2 DEF Active
<1>10. (\A i \in 1 .. c[n] : t[i] = Trail[i]) /\ Len(t) \in Nat /\ c[n] < Len(t)
  BY <1>4, <1>5, <1>8
<1>11. Active(frames[n], c[n], Len(t), t)
  BY <1>8, <1>9
<1>12. \E e : Stacked(e, Called, t)
  BY <1>2, <1>3, <1>4, <1>5, <1>10, <1>11, Moved
<1> QED  BY <1>3, <1>12 DEF Runs

LEMMA LoopLeaves ==
  ASSUME Steady, RunInv, NEW op \in {"LOOP", "AGAIN", "UNTIL"}, Executes(op),
         frames' = Called, pcp' = pcp + 1, r_stack' = Popped(r_stack, 1)
  PROVE  Runs
<1>1. TypeInv /\ status = "run" /\ frame.kind # "EXEC"
  BY OnToken DEF Steady, Held, LoopWords
<1>2. PICK c : Stacked(c, frames, Trail)
  BY <1>1 DEF RunInv
<1>3. PICK n, m, t : n = Len(frames) /\ m = Len(r_stack) /\ t = Trail'
  OBVIOUS
<1>4. /\ n \in Nat \ {0} /\ m \in Nat /\ c[n] \in Nat /\ c[n] < m + 1
      /\ frame = frames[n] /\ At(frame.prog, pcp, m - c[n])
      /\ \A j \in 1 .. (m - c[n]) : At(frame.prog, r_stack[c[n] + j], j)
  BY <1>1, <1>2, <1>3, InnermostTrail
<1>5. /\ r_stack \in Seq(Int) /\ pcp \in Int /\ Len(Called) = n
      /\ \A k \in 1 .. n : Alike(frames[k], Called[k])
      /\ \A i \in 1 .. m : Trail[i] = r_stack[i]
  BY <1>1, <1>3, Innermost
<1>6. 1 <= m - c[n] /\ At(frame.prog, pcp + 1, (m - c[n]) - 1)
  BY <1>4, LoopIsOpen
<1>7. /\ Len(t) = m /\ t[m] = pcp + 1
      /\ \A i \in 1 .. (m - 1) : t[i] = r_stack[i]
  <2>1. PICK r : r = r_stack' /\ r = Popped(r_stack, 1)
    OBVIOUS
  <2>2. r \in Seq(Int) /\ Len(r) = m - 1 /\ \A i \in 1 .. (m - 1) : r[i] = r_stack[i]
    <3>1. 1 \in Nat /\ 1 <= Len(r_stack)
      BY <1>3, <1>4, <1>6
    <3>2. /\ Popped(r_stack, 1) \in Seq(Int)
          /\ Len(Popped(r_stack, 1)) = Len(r_stack) - 1
          /\ \A i \in 1 .. (Len(r_stack) - 1) : Popped(r_stack, 1)[i] = r_stack[i]
      BY <1>5, <3>1, PoppedProperties
    <3> QED  BY <1>3, <2>1, <3>2
  <2>3. t = Append(r, pcp + 1)
    BY <1>3, <2>1 DEF Trail
  <2>4. Len(t) = m - 1 + 1 /\ t[m - 1 + 1] = pcp + 1 /\ \A i \in 1 .. (m - 1) : t[i] = r[i]
    BY <1>4, <1>5, <1>6, <2>2, <2>3, AppendProperties
  <2>5. m - 1 + 1 = m
    BY <1>4
  <2> QED  BY <2>2, <2>4, <2>5
<1>8. Active(frames[n], c[n], m, t)
  <2>1. \A j \in 1 .. ((m - c[n]) - 1) : j \in 1 .. (m - c[n]) /\ t[c[n] + j] = r_stack[c[n] + j]
    BY <1>4, <1>7
  <2>2. \A j \in 1 .. ((m - c[n]) - 1) : At(frame.prog, t[c[n] + j], j)
    BY <1>4, <2>1
  <2> QED  BY <1>1, <1>4, <1>6, <1>7, <2>2 DEF Active
<1>9. (\A i \in 1 .. c[n] : t[i] = Trail[i]) /\ Len(t) \in Nat /\ c[n] < Len(t)
  BY <1>4, <1>5, <1>6, <1>7
<1>10. Active(frames[n], c[n], Len(t), t)
  BY <1>7, <1>8
<1>11. \E e : Stacked(e, Called, t)
  BY <1>2, <1>3, <1>4, <1>5, <1>9, <1>10, Moved
<1> QED  BY <1>3, <1>11 DEF Runs

(* DICT and EXEC: the call stands at its token until it is returned to.    *)
LEMMA CallsWord ==
  ASSUME Steady, RunInv, NEW kind \in {"DICT", "EXEC"}, Executes(CallToken(kind)),
         NEW p, NEW to \in Int, frames' = Append(Called, Frame(kind, p)), pcp' = to,
         r_stack' = Append(r_stack, pcp),
         kind = "DICT" => At(p, to, 0)
  PROVE  Runs
<1>1. TypeInv /\ status = "run"
  BY OnToken DEF Steady, Held
<1>2. PICK c : Stacked(c, frames, Trail)
  BY <1>1 DEF RunInv
<1>3. PICK n, m, t, g : n = Len(frames) /\ m = Len(r_stack) /\ t = Trail' /\ g = frames'
  OBVIOUS
<1>4. /\ n \in Nat \ {0} /\ m \in Nat /\ frame = frames[n]
      /\ frame.kind # "EXEC" => At(frame.prog, pcp, m - c[n])
  BY <1>1, <1>2, <1>3, InnermostTrail
<1>5. /\ r_stack \in Seq(Int) /\ pcp \in Int /\ Len(Called) = n /\ Called \in Seq(Frames(Programs))
      /\ \A k \in 1 .. n : Alike(frames[k], Called[k])
      /\ Len(Trail) = m + 1 /\ Trail[m + 1] = pcp
      /\ \A i \in 1 .. m : Trail[i] = r_stack[i]
  <2>1. Called \in Seq(Frames(Programs))
    BY <1>1, CalledFrames DEF TypeInv, CallInv
  <2> QED  BY <1>1, <1>3, <2>1, Innermost
<1> DEFINE f == Frame(kind, p)
<1>6. f.kind = kind /\ f.prog = p
  BY DEF Frame
<1> HIDE DEF f
<1>7. Len(g) = n + 1 /\ g[n + 1] = f /\ \A k \in 1 .. n : g[k] = Called[k]
  <2>1. g = Append(Called, f)
    BY <1>3 DEF f
  <2>2. Len(Append(Called, f)) = Len(Called) + 1
    BY <1>5
  <2>3. /\ Append(Called, f)[Len(Called) + 1] = f
        /\ \A k \in 1 .. Len(Called) : Append(Called, f)[k] = Called[k]
    BY <1>5
  <2> QED  BY <1>5, <2>1, <2>2, <2>3
<1>8. \A k \in 1 .. n : Alike(frames[k], g[k])
  BY <1>5, <1>7
<1>9. /\ Len(t) = (m + 1) + 1 /\ t[(m + 1) + 1] = to
      /\ \A i \in 1 .. (m + 1) : t[i] = Trail[i]
  <2>1. t = Append(Trail, to)
    BY <1>3 DEF Trail
  <2>2. Trail \in Seq(Int)
    BY <1>5, AppendProperties DEF Trail
  <2> QED  BY <1>5, <2>1, <2>2, AppendProperties
<1>10. Active(g[n + 1], m + 1, (m + 1) + 1, t)
  <2>1. (((m + 1) + 1) - (m + 1)) - 1 = 0 /\ 1 .. 0 = {}
    BY <1>4
  <2> QED  BY <1>6, <1>7, <1>9, <2>1 DEF Active
<1>11. Calling(frames[n], kind, Trail[m + 1])
  <2>1. frame.kind # "EXEC" => pcp \in base[frame.prog] .. End(frame.prog)
    BY <1>4 DEF At
  <2>2. frame.kind # "EXEC" =>
          /\ pcp \in Array(frame.prog)
          /\ Code(frame.prog)[pcp - base[frame.prog] + 1] = CallToken(kind)
    BY <2>1, OnToken
  <2> QED  BY <1>4, <1>5, <2>2 DEF Calling
<1>12. m + 1 \in Nat /\ g[n + 1].kind = kind
  BY <1>4, <1>6, <1>7
<1>13. \E e : Stacked(e, g, t)
  <2>1. PICK q \in Nat : q = m + 1
    BY <1>12
  <2>2. /\ Len(frames) = n /\ Len(Trail) = q /\ Len(t) = q + 1
        /\ \A i \in 1 .. q : t[i] = Trail[i]
    BY <1>3, <1>5, <1>9, <2>1
  <2>3. Active(g[n + 1], q, q + 1, t)
    BY <1>10, <2>1
  <2>4. Calling(frames[n], g[n + 1].kind, Trail[q])
    BY <1>11, <1>12, <2>1
  <2>5. g[n + 1].kind \in {"DICT", "EXEC"}
    BY <1>12
  <2> QED  BY <1>2, <1>4, <1>7, <1>8, <2>2, <2>3, <2>4, <2>5, CallMade, ZenonT(40)
<1> QED  BY <1>3, <1>13 DEF Runs

(* The end of the innermost call: no loop of it is open any more.          *)
LEMMA NothingOpen ==
  ASSUME Steady, status = "run", ~GoesOn, NEW c, Stacked(c, frames, Trail),
         NEW n, n = Len(frames), NEW m, m = Len(r_stack)
  PROVE  m = c[n]
<1>1. TypeInv /\ HeapInv
  BY DEF Steady, Held, TypeInv
<1>2. /\ m \in Nat /\ c[n] \in Nat
      /\ frame.kind = "EXEC" => m = c[n]
      /\ frame.kind # "EXEC" => At(frame.prog, pcp, m - c[n])
  BY <1>1, InnermostTrail
<1>3. CASE frame.kind # "EXEC"
  <2>1. PICK p \in Programs : p = frame.prog
    BY <1>1, Innermost
  <2>2. base[p] \in Int /\ Len(heap[p]) \in Nat /\ End(p) = base[p] + Len(heap[p]) /\ pcp \in Int
    BY <1>1, HeapFacts, Innermost DEF End
  <2>3. pcp \in base[p] .. End(p) /\ Depth(Code(p), pcp - base[p]) = m - c[n]
    BY <1>2, <1>3, <2>1 DEF At
  <2>4. ~(pcp < End(p))
    BY <1>3, <2>1 DEF GoesOn
  <2>5. pcp - base[p] = Len(heap[p])
    BY <2>2, <2>3, <2>4, SMTT(30)
  <2>6. Depth(Code(p), Len(heap[p])) = 0
    BY DEF Steady, Held, ShapeInv, Ended, Dead
  <2> QED  BY <1>2, <2>3, <2>5, <2>6
<1> QED  BY <1>2, <1>3

LEMMA WordReturns ==
  ASSUME Steady, RunInv, Return, status' = "run"
  PROVE  Runs
<1>1. /\ TypeInv /\ HeapInv /\ status = "run" /\ ~GoesOn /\ Len(frames) > 1
      /\ frames' = Popped(frames, 1)
  BY DEF Steady, Held, TypeInv, Return
<1>2. PICK c : Stacked(c, frames, Trail)
  BY <1>1 DEF RunInv
<1>3. PICK n, m, t, g : n = Len(frames) - 1 /\ m = Len(r_stack) /\ t = Trail' /\ g = frames'
  OBVIOUS
<1>4. /\ Len(frames) \in Nat \ {0} /\ frame = frames[Len(frames)]
      /\ r_stack \in Seq(Int) /\ m \in Nat /\ Len(Trail) = m + 1
      /\ \A i \in 1 .. m : Trail[i] = r_stack[i]
      /\ \A k \in 1 .. Len(frames) : frames[k] \in Frames(Programs)
  BY <1>1, <1>3, Innermost
<1>5. n \in Nat \ {0} /\ Len(frames) = n + 1 /\ frame = frames[n + 1] /\ frames[n].prog \in Programs
  <2>1. n \in Nat \ {0} /\ Len(frames) = n + 1 /\ n \in 1 .. Len(frames)
    BY <1>1, <1>3, <1>4
  <2> QED  BY <1>4, <2>1 DEF Frames
<1>6. /\ c[n + 1] = m /\ c[n] \in Nat /\ c[n] < m /\ frame.kind \in {"DICT", "EXEC"}
      /\ Active(frames[n], c[n], m, Trail) /\ Calling(frames[n], frame.kind, Trail[m])
  <2>1. m = c[n + 1]
    BY <1>1, <1>2, <1>3, <1>5, NothingOpen
  <2>2. /\ n \in 1 .. (Len(frames) + 1) /\ n + 1 \in 1 .. (Len(frames) + 1) /\ n < n + 1
        /\ n \in 1 .. Len(frames) /\ n + 1 \in 2 .. Len(frames) /\ n \in 1 .. (Len(frames) - 1)
    BY <1>5
  <2>3. /\ c[n] \in Nat /\ c[n] < c[n + 1] /\ frames[n + 1].kind \in {"DICT", "EXEC"}
        /\ Active(frames[n], c[n], c[n + 1], Trail)
        /\ Calling(frames[n], frames[n + 1].kind, Trail[c[n + 1]])
    BY <1>2, <2>2 DEF Stacked
  <2> QED  BY <1>5, <2>1, <2>3
<1>7. Top(r_stack) = r_stack[m] /\ r_stack[m] \in Int /\ m \in 1 .. m /\ Trail[m] = r_stack[m]
      /\ r_stack # << >>
  <2>1. m \in 1 .. m /\ Len(r_stack) # 0
    BY <1>3, <1>4, <1>6
  <2> QED  BY <1>3, <1>4, <2>1, ElementOfSeq DEF Top
<1>8. pcp' = Top(r_stack) + 1 /\ r_stack' = Popped(r_stack, 1)
  <2>1. frame.kind # "SEXEC"
    BY <1>6
  <2> QED  BY <1>7, <2>1 DEF Return
<1>9. /\ Len(t) = m /\ t[m] = r_stack[m] + 1
      /\ \A i \in 1 .. (m - 1) : t[i] = Trail[i]
  <2>1. PICK r : r = Popped(r_stack, 1)
    OBVIOUS
  <2>2. r \in Seq(Int) /\ Len(r) = m - 1 /\ \A i \in 1 .. (m - 1) : r[i] = r_stack[i]
    <3>1. 1 \in Nat /\ 1 <= Len(r_stack)
      BY <1>3, <1>4, <1>6
    <3>2. /\ Popped(r_stack, 1) \in Seq(Int)
          /\ Len(Popped(r_stack, 1)) = Len(r_stack) - 1
          /\ \A i \in 1 .. (Len(r_stack) - 1) : Popped(r_stack, 1)[i] = r_stack[i]
      BY <1>4, <3>1, PoppedProperties
    <3> QED  BY <1>3, <2>1, <3>2
  <2>3. t = Append(r, r_stack[m] + 1)
    BY <1>3, <1>7, <1>8, <2>1 DEF Trail
  <2>4. Len(t) = m - 1 + 1 /\ t[m - 1 + 1] = r_stack[m] + 1 /\ \A i \in 1 .. (m - 1) : t[i] = r[i]
    BY <1>4, <1>6, <1>7, <2>2, <2>3, AppendProperties
  <2>5. m - 1 + 1 = m /\ \A i \in 1 .. (m - 1) : i \in 1 .. m
    BY <1>4
  <2> QED  BY <1>4, <2>2, <2>4, <2>5
<1>10. Active(frames[n], c[n], m, t)
  <2>1. CASE frames[n].kind = "EXEC"
    BY <1>6, <2>1 DEF Active
  <2>2. CASE frames[n].kind # "EXEC"
    <3>1. PICK p, a : p \in Programs /\ p = frames[n].prog /\ a = Trail[m]
      BY <1>5
    <3>2. At(p, a, (m - c[n]) - 1) /\ \A j \in 1 .. ((m - c[n]) - 1) : At(p, Trail[c[n] + j], j)
      BY <1>6, <2>2, <3>1 DEF Active
    <3>3. a \in Array(p) /\ Code(p)[a - base[p] + 1] = CallToken(frame.kind)
      BY <1>6, <2>2, <3>1 DEF Calling
    <3>4. /\ (m - c[n]) - 1 \in Int
          /\ At(p, a + 1, ((m - c[n]) - 1) + Delta(Code(p)[a - base[p] + 1]))
      BY <1>1, <3>1, <3>2, <3>3, AtNext
    <3>5. Delta(CallToken(frame.kind)) = 0
      BY DEF Delta, CallToken
    <3>6. At(p, t[m], (m - c[n]) - 1)
      <4>1. At(p, a + 1, (m - c[n]) - 1)
        BY <3>3, <3>4, <3>5
      <4>2. t[m] = a + 1
        BY <1>7, <1>9, <3>1
      <4> QED  BY <4>1, <4>2
    <3>7. ASSUME NEW j \in 1 .. ((m - c[n]) - 1)
          PROVE  t[c[n] + j] = Trail[c[n] + j]
      <4>1. c[n] + j \in 1 .. (m - 1)
        BY <1>4, <1>6
      <4> QED  BY <1>9, <4>1
    <3> QED  BY <2>2, <3>1, <3>2, <3>6, <3>7 DEF Active
  <2> QED  BY <2>1, <2>2
<1>11. Len(g) = n /\ \A k \in 1 .. n : g[k] = frames[k]
  <2>1. 1 \in Nat /\ 1 <= Len(frames) /\ frames \in Seq(Frames(Programs))
    BY <1>1, <1>4 DEF TypeInv, CallInv
  <2>2. /\ Len(Popped(frames, 1)) = Len(frames) - 1
        /\ \A k \in 1 .. (Len(frames) - 1) : Popped(frames, 1)[k] = frames[k]
    BY <2>1, PoppedProperties
  <2> QED  BY <1>1, <1>3, <2>2
<1>12. \E e : Stacked(e, g, t)
  <2>1. n \in Nat \ {0} /\ m \in Nat /\ Len(frames) = n + 1 /\ c[n + 1] = m
    BY <1>4, <1>5, <1>6
  <2>2. Len(t) = m /\ \A i \in 1 .. (m - 1) : t[i] = Trail[i]
    BY <1>9
  <2> QED  BY <1>2, <1>10, <1>11, <2>1, <2>2, CallReturned
<1> QED  BY <1>3, <1>12 DEF Runs

LEMMA LineFinishes ==
  ASSUME Steady, RunInv, Finish
  PROVE  r_stack' = << >>
<1>1. /\ TypeInv /\ status = "run" /\ ~GoesOn /\ Len(frames) = 1 /\ r_stack' = r_stack
  BY DEF Steady, Held, Finish
<1>2. PICK c : Stacked(c, frames, Trail)
  BY <1>1 DEF RunInv
<1>3. Len(r_stack) = c[1]
  BY <1>1, <1>2, NothingOpen
<1>4. c[1] = 0
  BY <1>2 DEF Stacked
<1>5. r_stack \in Seq(Int)
  BY <1>1, Innermost
<1> QED  BY <1>1, <1>3, <1>4, <1>5, EmptySeq
-----------------------------------------------------------------------------
(***************************************************************************)
(* Every step.                                                             *)
(***************************************************************************)
LEMMA PlainStep ==
  ASSUME Steady, RunInv, NEW op, Executes(op), op \notin LoopWords,
         frames' = Called, pcp' = pcp + 1, r_stack' = r_stack
  PROVE  Runs
<1>1. TypeInv /\ status = "run" /\ pcp + 1 \in Int
  BY OnToken, Innermost DEF Steady, Held
<1>2. Delta(op) = 0
  BY DEF Delta, LoopWords
<1>3. ASSUME NEW d, frame.kind # "EXEC", At(frame.prog, pcp, d)
      PROVE  At(frame.prog, pcp + 1, d)
  <2>1. d \in Int /\ At(frame.prog, pcp + 1, d + Delta(op))
    BY <1>3, NextPlace
  <2> QED  BY <1>2, <2>1
<1> QED  BY <1>1, <1>3, GoesTo

LEMMA ProgramStart ==
  ASSUME HeapInv, NEW p \in Programs
  PROVE  At(p, base[p], 0) /\ base[p] \in Int
<1>1. base[p] \in Int /\ Len(heap[p]) \in Nat
  BY HeapFacts
<1>2. base[p] - base[p] = 0 /\ base[p] \in base[p] .. End(p)
  BY <1>1 DEF End
<1> QED  BY <1>1, <1>2, DepthNext DEF At

(* A handler that does not touch the loops.                                *)
LEMMA WordRuns ==
  ASSUME Steady, RunInv,
         cb_ef_number \/ ef_primitive \/ d_variable_store \/ ef_i_cb \/ ef_then
  PROVE  Runs
<1>1. CASE cb_ef_number
  <2>1. PICK op \in {"NUM", "STR", "VAR"} : Executes(op)
    BY <1>1 DEF cb_ef_number
  <2>2. op \notin LoopWords
    BY DEF LoopWords
  <2> QED  BY <1>1, <2>1, <2>2, PlainStep DEF cb_ef_number, Jump, Goto
<1>2. CASE ef_i_cb
  <2>1. "I" \notin LoopWords
    BY DEF LoopWords
  <2> QED  BY <1>2, <2>1, PlainStep DEF ef_i_cb, Jump, Goto
<1>3. CASE ef_then
  <2>1. "THEN" \notin LoopWords
    BY DEF LoopWords
  <2> QED  BY <1>3, <2>1, PlainStep DEF ef_then, Jump, Goto
<1>4. CASE d_variable_store
  <2>1. PICK op \in {"!", "!!", "ALLOT"} : Executes(op)
    BY <1>4 DEF d_variable_store
  <2>2. op \notin LoopWords
    BY DEF LoopWords
  <2> QED  BY <1>4, <2>1, <2>2, PlainStep DEF d_variable_store, Goto
<1>5. CASE ef_primitive
  <2>1. ~Executes(">r")
    BY OnToken
  <2>2. PICK op \in Pure \cup {".", "@", "@@"} : Executes(op) /\ r_stack' = r_stack
    BY <1>5, <2>1 DEF ef_primitive
  <2>3. op \notin LoopWords
    BY DEF LoopWords, Pure
  <2> QED  BY <1>5, <2>2, <2>3, PlainStep DEF ef_primitive, Jump, Goto
<1> QED  BY <1>1, <1>2, <1>3, <1>4, <1>5

LEMMA BranchRuns ==
  ASSUME Steady, RunInv, ef_if \/ ef_else \/ ef_exit \/ ef_defer
  PROVE  Runs
<1>1. TypeInv
  BY DEF Steady, Held
<1>2. CASE ef_if
  <2>1. Executes("IF") /\ frames' = Called /\ r_stack' = r_stack
    BY <1>2 DEF ef_if, Jump, Goto
  <2>2. status = "run" /\ Token(pcp).val \in Int /\ pcp \in Int
    BY <1>1, <2>1, Executing
  <2>3. CASE Top(d_stack) = F_TRUE
    <3>1. pcp' = pcp + 1 /\ "IF" \notin LoopWords
      BY <1>2, <2>3 DEF ef_if, Jump, Goto, LoopWords
    <3> QED  BY <2>1, <3>1, PlainStep
  <2>4. CASE Top(d_stack) # F_TRUE
    <3>1. pcp' = pcp + Token(pcp).val /\ pcp + Token(pcp).val \in Int
      BY <1>2, <2>2, <2>4 DEF ef_if, Jump, Goto
    <3>2. frame.kind # "EXEC" =>
            \A d : At(frame.prog, pcp, d) => At(frame.prog, pcp + Token(pcp).val, d)
      BY <2>1, <2>4, BranchPlace
    <3> QED  BY <1>1, <2>1, <2>2, <3>1, <3>2, GoesTo
  <2> QED  BY <2>3, <2>4
<1>3. CASE ef_else
  <2>1. /\ Executes("ELSE") /\ frames' = Called /\ r_stack' = r_stack
        /\ pcp' = pcp + Token(pcp).val
    BY <1>3 DEF ef_else, Jump, Goto
  <2>2. status = "run" /\ Token(pcp).val \in Int /\ pcp \in Int
    BY <1>1, <2>1, Executing
  <2>3. pcp + Token(pcp).val \in Int
    BY <2>2
  <2>4. frame.kind # "EXEC" =>
          \A d : At(frame.prog, pcp, d) => At(frame.prog, pcp + Token(pcp).val, d)
    <3>1. "ELSE" # "IF"
      OBVIOUS
    <3> QED  BY <2>1, <3>1, BranchPlace
  <2> QED  BY <1>1, <2>1, <2>2, <2>3, <2>4, GoesTo
<1>4. CASE ef_exit
  <2>1. Executes("EXIT") /\ frames' = Called /\ r_stack' = r_stack /\ pcp' = End(frame.prog)
    BY <1>4 DEF ef_exit, Jump, Goto
  <2>2. status = "run" /\ End(frame.prog) \in Int
    <3>1. status = "run"
      BY <1>1, <2>1, Executing
    <3>2. base[frame.prog] \in Int /\ Len(heap[frame.prog]) \in Nat
      BY <1>1, <3>1, Innermost, HeapFacts
    <3> QED  BY <3>1, <3>2 DEF End
  <2>3. frame.kind # "EXEC" =>
          \A d : At(frame.prog, pcp, d) => At(frame.prog, End(frame.prog), d)
    BY <2>1, ExitPlace
  <2> QED  BY <1>1, <2>1, <2>2, <2>3, GoesTo
<1>5. CASE ef_defer
  <2>1. Executes("DEFER") /\ frames' = Called /\ r_stack' = r_stack /\ pcp' = pcp + 2
    BY <1>5 DEF ef_defer, Jump, Goto
  <2>2. status = "run" /\ pcp + 2 \in Int
    BY <1>1, <2>1, Executing
  <2>3. frame.kind # "EXEC" => \A d : At(frame.prog, pcp, d) => At(frame.prog, pcp + 2, d)
    BY <2>1, TickPlace
  <2> QED  BY <1>1, <2>1, <2>2, <2>3, GoesTo
<1> QED  BY <1>2, <1>3, <1>4, <1>5

LEMMA LoopRuns ==
  ASSUME Steady, RunInv, ef_do \/ ef_begin \/ ef_loop_end \/ ef_again \/ ef_until
  PROVE  Runs
<1>1. CASE ef_do
  BY <1>1, LoopEnters DEF ef_do, Jump, Goto
<1>2. CASE ef_begin
  BY <1>2, LoopEnters DEF ef_begin, Jump, Goto
<1>3. CASE ef_loop_end
  <2>1. CASE LoopIsOver
    BY <1>3, <2>1, LoopLeaves DEF ef_loop_end, Jump, Goto
  <2>2. CASE ~LoopIsOver
    BY <1>3, <2>2, LoopTurns DEF ef_loop_end, Jump, Goto
  <2> QED  BY <2>1, <2>2
<1>4. CASE ef_again
  BY <1>4, LoopTurns DEF ef_again, Jump, Goto
<1>5. CASE ef_until
  <2>1. CASE Top(d_stack) = F_TRUE
    BY <1>5, <2>1, LoopLeaves DEF ef_until, Jump, Goto
  <2>2. CASE Top(d_stack) # F_TRUE
    BY <1>5, <2>2, LoopTurns DEF ef_until, Jump, Goto
  <2> QED  BY <2>1, <2>2
<1> QED  BY <1>1, <1>2, <1>3, <1>4, <1>5

LEMMA CallRuns ==
  ASSUME Steady, RunInv, ef_dict_entry \/ ef_exec
  PROVE  Runs
<1>1. TypeInv /\ HeapInv
  BY DEF Steady, Held, TypeInv
<1>2. CASE ef_dict_entry
  <2>1. /\ Executes("DICT") /\ r_stack' = Append(r_stack, pcp)
        /\ frames' = Append(Called, Frame("DICT", Token(pcp).val)) /\ pcp' = base[Token(pcp).val]
    BY <1>2 DEF ef_dict_entry
  <2>2. Token(pcp).val \in Programs
    BY <1>1, <2>1, Executing
  <2>3. At(Token(pcp).val, base[Token(pcp).val], 0) /\ base[Token(pcp).val] \in Int
    BY <1>1, <2>2, ProgramStart
  <2>4. CallToken("DICT") = "DICT"
    BY DEF CallToken
  <2> QED  BY <2>1, <2>3, <2>4, CallsWord
<1>3. CASE ef_exec
  <2>1. /\ Executes("EXEC") /\ r_stack' = Append(r_stack, pcp)
        /\ frames' = Append(Called, Frame("EXEC", frame.prog)) /\ pcp' = Top(d_stack)
    BY <1>3 DEF ef_exec
  <2>2. Top(d_stack) \in Int
    BY <1>1, <2>1, Executing, DataStack DEF WithinStacks, Operands
  <2>3. CallToken("EXEC") = "EXEC"
    BY DEF CallToken
  <2> QED  BY <2>1, <2>2, <2>3, CallsWord
<1> QED  BY <1>2, <1>3

LEMMA RunKeepsHeap ==
  ASSUME Run
  PROVE  heap' = heap /\ base' = base
BY DEF Run, Execute, cb_ef_number, ef_primitive, d_variable_store, d_string_exec, ef_do, ef_i_cb,
   ef_loop_end, ef_begin, ef_again, ef_until, ef_if, ef_else, ef_then, ef_exit, ef_dict_entry,
   ef_defer, ef_exec, Return, Finish, Fetch, Overrun, Jump, Goto, heapVars

(* Once the handler is done the trail is as it must be.                    *)
LEMMA RunsOn ==
  ASSUME heap' = heap, base' = base, Runs, status' # "prompt", status' # "parse"
  PROVE  RunInv'
<1>1. PICK c : Stacked(c, frames', Trail')
  BY DEF Runs
<1>2. \A p : Code(p)' = Code(p) /\ End(p)' = End(p) /\ Array(p)' = Array(p)
  BY DEF Code, End, Array
<1>3. \A p, a, d : At(p, a, d)' <=> At(p, a, d)
  BY <1>2 DEF At
<1>4. \A f, lo, hi, t : Active(f, lo, hi, t)' <=> Active(f, lo, hi, t)
  BY <1>3 DEF Active
<1>5. \A f, kind, a : Calling(f, kind, a)' <=> Calling(f, kind, a)
  BY <1>2 DEF Calling
<1>6. ASSUME NEW e, NEW fs, NEW t
      PROVE  Stacked(e, fs, t)' <=> Stacked(e, fs, t)
  <2>1. (\A k \in 1 .. Len(fs) : Active(fs[k], e[k], e[k + 1], t))'
          <=> (\A k \in 1 .. Len(fs) : Active(fs[k], e[k], e[k + 1], t))
    BY <1>4, Zenon
  <2>2. (\A k \in 1 .. (Len(fs) - 1) : Calling(fs[k], fs[k + 1].kind, t[e[k + 1]]))'
          <=> (\A k \in 1 .. (Len(fs) - 1) : Calling(fs[k], fs[k + 1].kind, t[e[k + 1]]))
    BY <1>5, Zenon
  <2> QED  BY <2>1, <2>2, Zenon DEF Stacked
<1>7. Stacked(c, frames, Trail)'
  BY <1>1, <1>6
<1> QED  BY <1>7 DEF RunInv

LEMMA MachineSteps ==
  ASSUME Steady, RunInv, Run
  PROVE  RunInv'
<1>1. TypeInv /\ heap' = heap /\ base' = base /\ status' # "parse"
  BY RunKeepsHeap, RunCrashes DEF Steady, Held
<1>2. CASE Finish
  <2>1. r_stack' = << >> /\ status' = "prompt"
    BY <1>2, LineFinishes DEF Finish
  <2> QED  BY <2>1 DEF RunInv
<1>3. CASE Fetch \/ Overrun
  <2>1. status' \in {"crashed", "stray", "exited"}
    BY <1>3 DEF Fetch, Overrun
  <2> QED  BY <2>1 DEF RunInv
<1>4. ASSUME Execute, ~Finish, ~Fetch, ~Overrun
      PROVE  status' # "prompt"
  <2>1. status = "run"
    BY <1>4 DEF Execute, cb_ef_number, ef_primitive, d_variable_store, d_string_exec, ef_do, ef_i_cb,
       ef_loop_end, ef_begin, ef_again, ef_until, ef_if, ef_else, ef_then, ef_exit,
       ef_dict_entry, ef_defer, ef_exec, Return, Executes, Running
  <2>2. status' \in {status, "stray"}
    BY <1>4 DEF Execute, cb_ef_number, ef_primitive, d_variable_store, d_string_exec, ef_do, ef_i_cb,
       ef_loop_end, ef_begin, ef_again, ef_until, ef_if, ef_else, ef_then, ef_exit,
       ef_dict_entry, ef_defer, ef_exec, Return, LoopsBecome
  <2> QED  BY <2>1, <2>2
<1>5. CASE Runs /\ status' # "prompt"
  BY <1>1, <1>5, RunsOn
<1>6. CASE Return
  <2>1. CASE status' = "run"
    BY <1>5, <1>6, <2>1, WordReturns
  <2>2. CASE status' # "run"
    <3>1. status = "run" /\ status' \in {status, "stray"}
      BY <1>6 DEF Return
    <3> QED  BY <2>2, <3>1 DEF RunInv
  <2> QED  BY <2>1, <2>2
<1>7. ~d_string_exec
  <2>1. ~Executes("SEXEC")
    BY OnToken
  <2> QED  BY <2>1 DEF d_string_exec
<1>8. CASE /\ \/ cb_ef_number \/ ef_primitive \/ d_variable_store \/ ef_i_cb \/ ef_then
              \/ ef_if \/ ef_else \/ ef_exit \/ ef_defer
              \/ ef_do \/ ef_begin \/ ef_loop_end \/ ef_again \/ ef_until
              \/ ef_dict_entry \/ ef_exec
           /\ ~Finish /\ ~Fetch /\ ~Overrun
  <2>1. Runs
    BY <1>8, WordRuns, BranchRuns, LoopRuns, CallRuns
  <2>2. Execute
    BY <1>8 DEF Execute
  <2> QED  BY <1>4, <1>5, <1>8, <2>1, <2>2
<1> QED  BY <1>2, <1>3, <1>6, <1>7, <1>8 DEF Run, Execute

LEMMA RunSteps ==
  ASSUME Steady, RunInv, [Next]_vars
  PROVE  RunInv'
<1>1. CASE UNCHANGED vars
  <2>1. heap' = heap /\ base' = base /\ status' = status /\ r_stack' = r_stack
        /\ pcp' = pcp /\ frames' = frames
    BY <1>1 DEF vars, heapVars, taskVars
  <2>2. CASE status = "run"
    <3>1. Trail' = Trail
      BY <2>1 DEF Trail
    <3>2. Runs
      BY <2>1, <2>2, <3>1 DEF Runs, RunInv
    <3> QED  BY <2>1, <2>2, <3>2, RunsOn
  <2>3. CASE status # "run"
    BY <2>1, <2>3 DEF RunInv
  <2> QED  BY <2>2, <2>3
<1>2. CASE parse
  <2>1. status = "prompt" /\ status' = "parse" /\ MainTask
    BY <1>2 DEF parse
  <2>2. r_stack' = << >>
    BY <2>1 DEF MainTask, RunInv
  <2> QED  BY <2>1, <2>2 DEF RunInv
<1>3. CASE Compile
  <2>1. status = "parse" /\ status' # "run"
    BY <1>3 DEF Compile, ParseWord, if_create, else_create, then_create, do_create, loop_create,
       begin_create, again_create, until_create, BackTo, exit_create, parse_colon,
       parse_colon_name, semicolon, parse_variable, parse_variable_name, parse_string,
       parse_string_expecting_quote, comment, parse_mark, skip_word, program_add, settled, Crash,
       null_PROG, Compiling, Parsing, Given, NextWord
  <2>2. r_stack' = r_stack
    BY <1>3 DEF Compile, taskVars
  <2> QED  BY <2>1, <2>2 DEF RunInv
<1>4. CASE Start
  <2>1. /\ status = "parse" /\ status' = "run" /\ pcp' = base[program]
        /\ frames' = <<Frame("MAIN", program)>> /\ r_stack' = r_stack
        /\ heap' = heap /\ base' = base
    BY <1>4 DEF Start, run_task, heapVars
  <2>2. r_stack = << >> /\ HeapInv /\ program \in Programs
    BY <2>1 DEF RunInv, Steady, Held, TypeInv, CallInv
  <2>3. PICK g, t, a : g = frames' /\ t = Trail' /\ a = base[program]
    OBVIOUS
  <2>4. At(program, a, 0)
    BY <2>2, <2>3, ProgramStart
  <2>5. Len(g) = 1 /\ g[1].kind = "MAIN" /\ g[1].prog = program
    BY <2>1, <2>3 DEF Frame
  <2>6. t = <<a>> /\ Len(t) = 1 /\ t[1] = a
    BY <2>1, <2>2, <2>3 DEF Trail
  <2>7. PICK c : c = [k \in 1 .. 2 |-> k - 1]
    OBVIOUS
  <2>8. c \in [1 .. 2 -> Nat] /\ c[1] = 0 /\ c[2] = 1
    BY <2>7
  <2>9. Active(g[1], 0, 1, t)
    <3>1. (1 - 0) - 1 = 0 /\ 1 .. 0 = {}
      OBVIOUS
    <3>2. g[1].kind # "EXEC"
      BY <2>5
    <3> QED  BY <2>4, <2>5, <2>6, <3>1, <3>2 DEF Active
  <2>10. Stacked(c, g, t)
    <3>1. \A k \in 1 .. (Len(g) + 1) : k = 1 \/ k = 2
      BY <2>5
    <3>2. /\ c \in [1 .. (Len(g) + 1) -> Nat] /\ c[1] = 0 /\ c[Len(g) + 1] = Len(t)
          /\ \A k \in 1 .. (Len(g) + 1) : k - 1 <= c[k]
          /\ \A j, k \in 1 .. (Len(g) + 1) : j < k => c[j] < c[k]
      BY <2>5, <2>6, <2>8, <3>1
    <3>3. \A k \in 1 .. Len(g) : Active(g[k], c[k], c[k + 1], t)
      <4>1. ASSUME NEW k \in 1 .. Len(g)
            PROVE  k = 1 /\ k + 1 = 2
        BY <2>5
      <4> QED  BY <2>8, <2>9, <4>1
    <3>4. 2 .. Len(g) = {} /\ 1 .. (Len(g) - 1) = {}
      BY <2>5
    <3> QED  BY <3>2, <3>3, <3>4 DEF Stacked
  <2>11. Runs
    BY <2>3, <2>10 DEF Runs
  <2> QED  BY <2>1, <2>11, RunsOn
<1>5. CASE Run
  BY <1>5, MachineSteps
<1> QED  BY <1>1, <1>2, <1>3, <1>4, <1>5 DEF Next

LEMMA RunHolds ==
  ASSUME WellFormedSession
  PROVE  Spec /\ []Disciplined => [](Steady /\ RunInv)
<1>1. Init => BaseInv /\ RunInv
  <2>1. Init => heap = << >> /\ status = "prompt" /\ r_stack = << >>
    BY DEF Init, RuntimeInit
  <2>2. heap = << >> => Programs = {}
    BY DEF Programs
  <2> QED  BY <2>1, <2>2 DEF BaseInv, RunInv
<1>2. Held /\ JumpsLand /\ Disciplined /\ BaseInv => Steady
  BY DEF Steady, Disciplined, WithinMemory
<1>3. Held /\ JumpsLand /\ Disciplined /\ BaseInv /\ RunInv /\ [Next]_vars => BaseInv' /\ RunInv'
  BY <1>2, BaseSteps, RunSteps DEF Held
<1>4. OrderlySession
  BY DEF WellFormedSession, OrderlySession, WellFormed
<1>5. Spec => []JumpsLand
  BY <1>4, OrderlySessionsLand
<1> QED  BY <1>1, <1>2, <1>3, <1>5, ShapeHolds, PTL DEF Spec

(* Programs compiled from well-formed lines keep pcp to themselves: a LOOP *)
(* goes back to its own DO, whatever words its body calls, a jump lands in *)
(* its program, and every word returns into the program that called it     *)
(* (runtime.c), as long as ', EXEC and IF ... ELSE are used as Disciplined *)
(* says; the machine checks none of it.                                    *)
THEOREM WellFormedProgramsStay ==
  ASSUME WellFormedSession
  PROVE  Spec /\ []Disciplined => []StaysInProgram
<1>1. Steady /\ RunInv => StaysInProgram
  <2> SUFFICES ASSUME Steady, RunInv, status = "run", frame.kind # "EXEC"
               PROVE  pcp \in base[frame.prog] .. End(frame.prog)
    BY DEF StaysInProgram
  <2>1. PICK c : Stacked(c, frames, Trail)
    BY DEF RunInv
  <2>2. At(frame.prog, pcp, Len(r_stack) - c[Len(frames)])
    BY <2>1, InnermostTrail DEF Steady, Held
  <2> QED  BY <2>2 DEF At
<1> QED  BY <1>1, RunHolds, PTL

(* Only the end of a nested call takes a call away and leaves one.         *)
LEMMA OnlyReturns ==
  ASSUME TypeInv, [Next]_vars, Len(frames') < Len(frames), frames' # << >>, frame.kind # "SEXEC"
  PROVE  Return
<1>1. Len(frames) \in Nat /\ frames \in Seq(Frames(Programs))
  BY LenProperties DEF TypeInv, CallInv
<1>2. frames' # frames
  BY <1>1
<1>3. status = "run"
  <2>1. CASE status \in {"prompt", "parse"}
    BY <1>1, <2>1, EmptySeq DEF TypeInv, CallInv
  <2>2. CASE status \in Dead
    <3>1. UNCHANGED frames
      BY <2>2 DEF Next, vars, taskVars, parse, Compile, Start, Run, Execute, cb_ef_number,
         ef_primitive, d_variable_store, d_string_exec, ef_do, ef_i_cb, ef_loop_end, ef_begin,
         ef_again, ef_until, ef_if, ef_else, ef_then, ef_exit, ef_dict_entry, ef_defer, ef_exec,
         Return, Finish, Fetch, Overrun, Executes, Running, Dead
    <3> QED  BY <1>2, <3>1
  <2> QED  BY <2>1, <2>2 DEF TypeInv, CallInv
<1>4. Execute
  BY <1>2, <1>3 DEF Next, vars, taskVars, parse, Compile, Start, Run
<1>5. /\ Len(Called) = Len(frames)
      /\ \A f : Len(Append(Called, f)) = Len(frames) + 1
  <2>1. Len(Called) = Len(frames) /\ Called \in Seq(Frames(Programs))
    BY <1>1, <1>3, Innermost, CalledFrames DEF TypeInv, CallInv
  <2> QED  BY <2>1
<1>6. frames' # Called /\ \A f : frames' # Append(Called, f)
  BY <1>1, <1>5
<1> QED
  BY <1>2, <1>4, <1>6 DEF Execute, cb_ef_number, ef_primitive, d_variable_store, d_string_exec, ef_do,
     ef_i_cb, ef_loop_end, ef_begin, ef_again, ef_until, ef_if, ef_else, ef_then, ef_exit,
     ef_dict_entry, ef_defer, ef_exec, Finish, Fetch, Overrun, Jump, Goto, taskVars

(* And every call returns to the token behind the one that made it: LOOP   *)
(* and the calls share r_stack, and neither takes the other's entry.       *)
THEOREM WellFormedProgramsReturn ==
  ASSUME WellFormedSession
  PROVE  Spec /\ []Disciplined => ReturnsToCaller
<1> DEFINE Back ==
      LET caller == Top(frames')
      IN  caller.kind # "EXEC" =>
            /\ pcp' - 1 \in Array(caller.prog)
            /\ Token(pcp' - 1).op = IF frame.kind = "DICT" THEN "DICT" ELSE "EXEC"
<1>1. ASSUME Steady, RunInv, [Next]_vars,
             Len(frames') < Len(frames), frames' # << >>, status' = "run", frame.kind # "SEXEC"
      PROVE  Back
  <2>1. /\ TypeInv /\ HeapInv /\ Return /\ status = "run" /\ ~GoesOn /\ Len(frames) > 1
        /\ frames' = Popped(frames, 1)
    BY <1>1, OnlyReturns DEF Steady, Held, TypeInv, Return
  <2>2. PICK c : Stacked(c, frames, Trail)
    BY <1>1, <2>1 DEF RunInv
  <2>3. PICK n, m : n = Len(frames) - 1 /\ m = Len(r_stack)
    OBVIOUS
  <2>4. /\ n \in Nat \ {0} /\ Len(frames) = n + 1 /\ frame = frames[n + 1]
        /\ frames[n].prog \in Programs
        /\ frames \in Seq(Frames(Programs)) /\ r_stack \in Seq(Int) /\ m \in Nat
        /\ \A i \in 1 .. m : Trail[i] = r_stack[i]
    <3>1. /\ Len(frames) \in Nat /\ frame = frames[Len(frames)]
          /\ \A k \in 1 .. Len(frames) : frames[k] \in Frames(Programs)
      BY <2>1, Innermost
    <3>2. n \in Nat \ {0} /\ Len(frames) = n + 1 /\ n \in 1 .. Len(frames)
      BY <2>1, <2>3, <3>1
    <3>3. frames[n].prog \in Programs
      BY <3>1, <3>2 DEF Frames
    <3> QED  BY <2>1, <2>3, <3>1, <3>2, <3>3, Innermost DEF TypeInv, CallInv
  <2>5. /\ c[n + 1] = m /\ 1 <= m /\ frame.kind \in {"DICT", "EXEC"}
        /\ Calling(frames[n], frame.kind, Trail[m])
    <3>1. m = c[n + 1]
      BY <1>1, <2>1, <2>2, <2>3, <2>4, NothingOpen
    <3>2. /\ n + 1 \in 1 .. (Len(frames) + 1) /\ n + 1 \in 2 .. Len(frames)
          /\ n \in 1 .. (Len(frames) - 1) /\ (n + 1) - 1 = n
      BY <2>4
    <3>3. /\ (n + 1) - 1 <= c[n + 1] /\ frames[n + 1].kind \in {"DICT", "EXEC"}
          /\ Calling(frames[n], frames[n + 1].kind, Trail[c[n + 1]])
      BY <2>2, <3>2 DEF Stacked
    <3> QED  BY <2>4, <3>1, <3>2, <3>3
  <2>6. Top(r_stack) = r_stack[m] /\ r_stack[m] \in Int /\ Trail[m] = r_stack[m] /\ r_stack # << >>
    <3>1. m \in 1 .. m /\ Len(r_stack) # 0
      BY <2>3, <2>4, <2>5
    <3> QED  BY <2>3, <2>4, <3>1, ElementOfSeq DEF Top
  <2>7. pcp' - 1 = r_stack[m]
    <3>1. pcp' = r_stack[m] + 1
      BY <2>1, <2>5, <2>6 DEF Return
    <3> QED  BY <2>6, <3>1
  <2>8. Top(frames') = frames[n]
    <3>1. 1 \in Nat /\ 1 <= Len(frames)
      BY <2>1, <2>4
    <3>2. /\ Len(Popped(frames, 1)) = Len(frames) - 1
          /\ \A k \in 1 .. (Len(frames) - 1) : Popped(frames, 1)[k] = frames[k]
      BY <2>4, <3>1, PoppedProperties
    <3>3. frames' = Popped(frames, 1)
      BY <2>1 DEF Return
    <3>4. Len(frames) - 1 = n /\ n \in 1 .. n
      BY <2>4
    <3>5. Len(frames') = n /\ frames'[n] = frames[n]
      BY <3>2, <3>3, <3>4
    <3> QED  BY <3>5 DEF Top
  <2>9. ASSUME frames[n].kind # "EXEC"
        PROVE  /\ r_stack[m] \in Array(frames[n].prog)
               /\ Token(r_stack[m]).op = CallToken(frame.kind)
    <3>1. PICK p, a : p \in Programs /\ p = frames[n].prog /\ a = r_stack[m]
      BY <2>4
    <3>2. a \in Array(p) /\ Code(p)[a - base[p] + 1] = CallToken(frame.kind)
      BY <2>5, <2>6, <2>9, <3>1 DEF Calling
    <3>3. Code(p)[a - base[p] + 1] = Token(a).op
      BY <1>1, <2>1, <3>1, <3>2, TokenIs DEF Steady
    <3> QED  BY <3>1, <3>2, <3>3
  <2> QED  BY <2>7, <2>8, <2>9 DEF CallToken
<1>2. Steady /\ RunInv /\ [Next]_vars =>
        [Len(frames') < Len(frames) /\ frames' # << >> /\ status' = "run" /\ frame.kind # "SEXEC"
           => Back]_vars
  BY <1>1
<1>3. Spec /\ []Disciplined =>
        [][Len(frames') < Len(frames) /\ frames' # << >> /\ status' = "run" /\ frame.kind # "SEXEC"
             => Back]_vars
  BY <1>2, RunHolds, PTL DEF Spec
<1> QED  BY <1>3 DEF ReturnsToCaller
-----------------------------------------------------------------------------
(***************************************************************************)
(* Words that a session does without: no program holds their tokens.       *)
(***************************************************************************)
Optional == {"BEGIN", "AGAIN", "UNTIL", "ELSE", "'", "EXEC"}
Tag(w) == IF w = "'" THEN "DEFER" ELSE w

SessionOmits(W) ==
  \A l \in Lines : \A k \in 1 .. Len(l) : l[k] \notin W

Omitted(W) ==
  /\ session # << >> => \A k \in 1 .. Len(Top(session)) : Top(session)[k] \notin W
  /\ \A p \in Programs : \A i \in 1 .. Len(heap[p]) : \A w \in W : heap[p][i].op # Tag(w)

(* The token comes from the word that was read.                            *)
Says(tok) ==
  \A w \in Optional : tok.op = Tag(w) => line # << >> /\ Head(line) = w

LEMMA WordSays ==
  ASSUME NEW w \in Words \ ControlWords, Parsing(w)
  PROVE  Says(smtok_compile_word(w))
<1>1. line # << >> /\ Head(line) = w
  BY DEF Parsing, Given
<1>2. w \in Builtins => w \notin {"BEGIN", "AGAIN", "UNTIL", "ELSE", "DEFER", "EXEC"}
  BY ForthAssumption DEF Pure, VarDepth
<1>3. \A v : /\ smtok("I", v).op = "I" /\ smtok("NUM", v).op = "NUM" /\ smtok("DEFER", v).op = "DEFER"
             /\ smtok("EXEC", v).op = "EXEC" /\ smtok("VAR", v).op = "VAR" /\ smtok("DICT", v).op = "DICT"
             /\ smtok(w, v).op = w
  BY DEF smtok
<1>4. \/ smtok_compile_word(w).op \in {"I", "NUM", "VAR", "DICT"}
      \/ w = "'" /\ smtok_compile_word(w).op = "DEFER"
      \/ w = "EXEC" /\ smtok_compile_word(w).op = "EXEC"
      \/ w \in Builtins /\ smtok_compile_word(w).op = w
  BY <1>3 DEF smtok_compile_word
<1>5. \A x \in Optional : Tag(x) \in {"BEGIN", "AGAIN", "UNTIL", "ELSE", "DEFER", "EXEC"}
  BY DEF Optional, Tag
<1>6. \A x \in Optional : /\ Tag(x) \notin {"I", "NUM", "VAR", "DICT"}
                          /\ Tag(x) = "DEFER" => x = "'"
                          /\ Tag(x) = "EXEC" => x = "EXEC"
  BY DEF Optional, Tag
<1> QED  BY <1>1, <1>2, <1>4, <1>5, <1>6 DEF Says

LEMMA TokensSay ==
  ASSUME Held, Compile
  PROVE  \/ heap' = heap
         \/ \E place : program_create(place)
         \/ \E tok : Grew(tok) /\ Says(tok)
<1>1. ParseWord /\ status = "parse"
  <2>1. status = "parse"
    BY DEF Compile, ParseWord, if_create, else_create, then_create, do_create, loop_create,
       begin_create, again_create, until_create, BackTo, exit_create, parse_colon,
       parse_colon_name, semicolon, parse_variable, parse_variable_name, parse_string,
       parse_string_expecting_quote, comment, parse_mark, skip_word, program_add, null_PROG,
       Compiling, Parsing, Given
  <2> QED  BY <2>1 DEF Compile
<1>2. HeapInv /\ current_PROG \in Interruptible /\ Orderly(Top(session)) /\ PlaceInv /\ StateInv /\ SessionInv
  BY <1>1, WhileParsing
<1>3. CASE heap' = heap
  BY <1>3
<1>4. ASSUME NEW tok, Emit(tok), current_PROG # NoProgram, line # << >>,
             tok.op = Head(line), Head(line) \in ControlWords
      PROVE  Grew(tok) /\ Says(tok)
  <2>1. Grew(tok)
    BY <1>2, <1>4, EmitGrows DEF Interruptible
  <2>2. Head(line) # "DEFER"
    BY <1>4 DEF ControlWords, StructureWords, Closing, Naming, Quote
  <2>3. \A w \in Optional : Tag(w) # "DEFER" => Tag(w) = w
    BY DEF Optional, Tag
  <2> QED  BY <1>4, <2>1, <2>2, <2>3 DEF Says
<1>5. CASE /\ \/ if_create \/ else_create \/ do_create \/ loop_create \/ begin_create
              \/ again_create \/ until_create \/ exit_create
           /\ heap' # heap
  <2>1. /\ line # << >> /\ Head(line) \in ControlWords /\ current_PROG # NoProgram
        /\ \E v : Emit(smtok(Head(line), v))
    BY <1>5 DEF if_create, else_create, do_create, loop_create, begin_create, again_create,
       until_create, BackTo, exit_create, Crash, heapVars, Compiling, Parsing, Given,
       ControlWords, StructureWords
  <2>2. PICK v : Emit(smtok(Head(line), v))
    BY <2>1
  <2>3. smtok(Head(line), v).op = Head(line)
    BY DEF smtok
  <2> QED  BY <1>4, <2>1, <2>2, <2>3
<1>6. CASE then_create /\ heap' # heap
  <2>1. Completable
    BY <1>6 DEF then_create, Crash, heapVars
  <2>2. Grew(smtok("THEN", npcp_array)) /\ smtok("THEN", npcp_array).op = "THEN"
    BY <1>6, <2>1, ThenGrows DEF Held, smtok
  <2>3. \A w \in Optional : Tag(w) # "THEN"
    BY DEF Optional, Tag
  <2> QED  BY <2>2, <2>3 DEF Says
<1>7. CASE parse_colon_name
  BY <1>7 DEF parse_colon_name, Crash, heapVars
<1>8. CASE semicolon \/ parse_colon \/ parse_variable \/ parse_variable_name
  BY <1>8 DEF semicolon, parse_colon, parse_variable, parse_variable_name, Crash, heapVars
<1>9. ASSUME NEW w \in Words \ ControlWords, program_add(w), heap' # heap
      PROVE  \E tok : Grew(tok) /\ Says(tok)
  <2>1. Parsing(w) /\ Emit(smtok_compile_word(w)) /\ current_PROG # NoProgram
    BY <1>9 DEF program_add
  <2>2. Grew(smtok_compile_word(w))
    BY <1>2, <2>1, EmitGrows DEF Interruptible
  <2> QED  BY <2>1, <2>2, WordSays
<1>10. ~comment /\ ~parse_string /\ ~parse_mark /\ ~parse_string_expecting_quote /\ ~skip_word
  <2>1. line # << >> => Head(line) \notin DOMAIN Closing \cup DOMAIN EndQuote
    BY <1>1, <1>2, WordFits
  <2>2. checks \subseteq DOMAIN Closing /\ Quote \in DOMAIN EndQuote
    BY CompilerAssumption DEF Held, TypeInv, ReaderInv, AllChecks
  <2>3. ~comment /\ ~parse_string /\ ~parse_mark
    BY <2>1, <2>2 DEF comment, parse_string, parse_mark, Parsing, Given
  <2>4. /\ state # "STRING_EXPECTING_QUOTE"
        /\ state \notin {Skipping[mark] : mark \in DOMAIN Closing}
    BY <1>1, <1>2 DEF StateInv, Naming, Skipping, Closing
  <2> QED  BY <2>3, <2>4 DEF parse_string_expecting_quote, skip_word, Given
<1> QED  BY <1>1, <1>3, <1>5, <1>6, <1>7, <1>8, <1>9, <1>10
        DEF ParseWord, null_PROG, Crash, heapVars

(* The word being compiled is one of its line.                             *)
LEMMA HeadOfLine ==
  ASSUME Held, status = "parse", line # << >>
  PROVE  \/ Head(line) = NL
         \/ \E k \in 1 .. Len(Top(session)) : Head(line) = Top(session)[k]
<1>1. SessionInv /\ session # << >> /\ PlaceInv
  BY WhileParsing
<1>2. Read \in Nat /\ Read < Len(All) /\ Head(line) = All[Read + 1]
  BY <1>1, AllIsSound, CurrentWord DEF PlaceInv, All
<1>3. Top(session) \in Source
  BY <1>1, EmptySeq, ElementOfSeq, LenProperties DEF SessionInv, Top
<1>4. /\ Len(Top(session)) \in Nat /\ Len(All) = Len(Top(session)) + 1
      /\ All[Len(Top(session)) + 1] = NL
      /\ \A k \in 1 .. Len(Top(session)) : All[k] = Top(session)[k]
  BY <1>3, AppendProperties, LenProperties DEF All, Source
<1>5. Read + 1 \in 1 .. Len(Top(session)) \/ Read + 1 = Len(Top(session)) + 1
  BY <1>2, <1>4
<1> QED  BY <1>2, <1>4, <1>5

LEMMA OmitSteps ==
  ASSUME NEW W \in SUBSET Optional, SessionOmits(W), Held, Omitted(W), [Next]_vars
  PROVE  Omitted(W)'
<1>1. TypeInv /\ HeapInv /\ Len(heap) \in Nat
  BY HeapFacts DEF Held, TypeInv
<1>2. session' # << >> => \A k \in 1 .. Len(Top(session')) : Top(session')[k] \notin W
  <2>1. CASE session' = session
    BY <2>1 DEF Omitted
  <2>2. CASE parse
    <3>1. PICK l \in NextLines : session' = Append(session, l)
      BY <2>2 DEF parse
    <3>2. SessionInv /\ Len(session) \in Nat
      BY <1>1, LenProperties DEF TypeInv, SessionInv
    <3>3. l \in Source /\ l \in Lines
      BY <3>2, NextLine
    <3>4. Top(session') = l
      <4>1. /\ Len(Append(session, l)) = Len(session) + 1
            /\ Append(session, l)[Len(session) + 1] = l
        BY <3>2, <3>3, AppendProperties DEF SessionInv
      <4> QED  BY <3>1, <4>1 DEF Top
    <3> QED  BY <3>1, <3>3, <3>4 DEF SessionOmits
  <2>3. session' = session \/ parse
    BY DEF Next, vars, Compile, Start, Run
  <2> QED  BY <2>1, <2>2, <2>3
<1>3. CASE heap' = heap
  BY <1>2, <1>3 DEF Omitted, Programs
<1>4. CASE \E place : program_create(place)
  <2>1. /\ Len(heap') = Len(heap) + 1 /\ \A p \in Programs : heap'[p] = heap[p]
        /\ heap'[Len(heap) + 1] = << >>
    BY <1>1, <1>4, CreateStep
  <2>2. ASSUME NEW p \in Programs', NEW i \in 1 .. Len(heap'[p])
        PROVE  p \in Programs /\ i \in 1 .. Len(heap[p]) /\ heap'[p][i] = heap[p][i]
    <3>1. p \in Programs \/ p = Len(heap) + 1
      BY <1>1, <2>1 DEF Programs
    <3>2. p # Len(heap) + 1
      BY <2>1, <2>2
    <3> QED  BY <2>1, <2>2, <3>1, <3>2
  <2> QED  BY <1>2, <2>2 DEF Omitted
<1>5. ASSUME NEW tok, Grew(tok), Says(tok), Compile
      PROVE  Omitted(W)'
  <2>1. status = "parse"
    BY <1>5 DEF Compile, ParseWord, if_create, else_create, then_create, do_create, loop_create,
       begin_create, again_create, until_create, BackTo, exit_create, parse_colon,
       parse_colon_name, semicolon, parse_variable, parse_variable_name, parse_string,
       parse_string_expecting_quote, comment, parse_mark, skip_word, program_add, null_PROG,
       Compiling, Parsing, Given
  <2>2. ASSUME NEW w \in W
        PROVE  tok.op # Tag(w)
    <3>1. SUFFICES ASSUME tok.op = Tag(w) PROVE FALSE
      OBVIOUS
    <3>2. line # << >> /\ Head(line) = w
      BY <1>5, <3>1 DEF Says
    <3>3. session # << >>
      BY <2>1, WhileParsing
    <3>4. w # NL
      BY DEF Optional, NL
    <3> QED  BY <2>1, <3>2, <3>3, <3>4, HeadOfLine DEF Omitted
  <2>3. ASSUME NEW p \in Programs', NEW i \in 1 .. Len(heap'[p])
        PROVE  \A w \in W : heap'[p][i].op # Tag(w)
    <3>1. p \in Programs /\ Len(heap[p]) \in Nat
      BY <1>5 DEF Grew
    <3>2. i \in 1 .. Len(heap[p]) \/ (p = current_PROG /\ i = Len(heap[p]) + 1)
      BY <1>5, <3>1 DEF Grew
    <3>3. CASE i \in 1 .. Len(heap[p])
      BY <1>5, <3>1, <3>3 DEF Grew, Omitted
    <3>4. CASE p = current_PROG /\ i = Len(heap[p]) + 1
      BY <1>5, <2>2, <3>4 DEF Grew
    <3> QED  BY <3>2, <3>3, <3>4
  <2> QED  BY <1>2, <2>3 DEF Omitted
<1>6. heap' = heap \/ (\E place : program_create(place)) \/ Compile
  BY <1>1, HeapSteps DEF Compile, ParseWord
<1> QED  BY <1>3, <1>4, <1>5, <1>6, TokensSay
-----------------------------------------------------------------------------
LEMMA NeverRuns ==
  ASSUME Steady \/ (HeapInv /\ BaseInv /\ ArraysFit), NEW W, Omitted(W), NEW w \in W
  PROVE  ~Executes(Tag(w))
<1>1. HeapInv /\ BaseInv /\ ArraysFit
  BY DEF Steady, Held, TypeInv
<1>2. SUFFICES ASSUME Executes(Tag(w)) PROVE FALSE
  OBVIOUS
<1>3. PICK p \in Programs : pcp \in Array(p)
  BY <1>2 DEF Executes, Points
<1>4. /\ pcp - base[p] + 1 \in 1 .. Len(heap[p])
      /\ Token(pcp) = heap[p][pcp - base[p] + 1] /\ Token(pcp).op = Tag(w)
  BY <1>1, <1>2, <1>3, TokenIs DEF Executes
<1> QED  BY <1>4 DEF Omitted

(* Without EXEC tokens the calls in progress are MAIN's and colon words'.  *)
LEMMA NoExecs ==
  ASSUME TypeInv, BaseInv, ArraysFit, RunInv, status = "run", NEW W, Omitted(W), "EXEC" \in W
  PROVE  frame.kind # "EXEC"
<1>1. PICK c : Stacked(c, frames, Trail)
  BY DEF RunInv
<1>2. PICK n \in Nat \ {0} : n = Len(frames) /\ frame = frames[n]
  BY Innermost
<1>3. HeapInv /\ frames[1].kind = "MAIN" /\ \A k \in 1 .. n : frames[k].prog \in Programs
  <2>1. \A k \in 1 .. n : frames[k] \in Frames(Programs)
    BY <1>2, Innermost
  <2> QED  BY <2>1, Innermost DEF Frames
<1> DEFINE T == {k \in 1 .. n : frames[k].kind = "EXEC"}
<1>4. SUFFICES ASSUME frame.kind = "EXEC" PROVE FALSE
  OBVIOUS
<1>5. T \in SUBSET Nat /\ n \in T
  BY <1>2, <1>4
<1>6. PICK k \in T : \A j \in T : k <= j
  BY <1>5, LeastOfNaturals
<1>7. k # 1
  <2>1. frames[k].kind = "EXEC"
    BY <1>6
  <2>2. "MAIN" # "EXEC"
    OBVIOUS
  <2> QED  BY <1>3, <2>1, <2>2
<1>8. PICK j \in 1 .. (n - 1) : k = j + 1
  <2>1. k \in 1 .. n
    BY <1>6
  <2>2. k - 1 \in 1 .. (n - 1) /\ k = (k - 1) + 1
    BY <1>2, <1>7, <2>1
  <2> QED  BY <2>2
<1>9. frames[j].kind # "EXEC"
  <2>1. j \in 1 .. n /\ ~(k <= j)
    BY <1>2, <1>8
  <2>2. j \notin T
    BY <1>6, <2>1
  <2> QED  BY <2>1, <2>2
<1>10. PICK p, a : p \in Programs /\ p = frames[j].prog /\ a = Trail[c[k]]
  <2>1. j \in 1 .. n
    BY <1>2, <1>8
  <2> QED  BY <1>3, <2>1
<1>11. a \in Array(p) /\ Code(p)[a - base[p] + 1] = CallToken(frames[k].kind)
  <2>1. Calling(frames[j], frames[j + 1].kind, Trail[c[j + 1]])
    BY <1>1, <1>2, <1>8 DEF Stacked
  <2> QED  BY <1>8, <1>9, <1>10, <2>1 DEF Calling
<1>12. CallToken(frames[k].kind) = "EXEC" /\ Tag("EXEC") = "EXEC"
  <2>1. frames[k].kind = "EXEC"
    BY <1>6
  <2> QED  BY <2>1 DEF CallToken, Tag
<1>13. a - base[p] + 1 \in 1 .. Len(heap[p]) /\ heap[p][a - base[p] + 1].op = "EXEC"
  <2>1. /\ a - base[p] + 1 \in 1 .. Len(heap[p])
        /\ Token(a) = heap[p][a - base[p] + 1] /\ Code(p)[a - base[p] + 1] = Token(a).op
    BY <1>3, <1>10, <1>11, TokenIs
  <2> QED  BY <1>11, <1>12, <2>1
<1> QED  BY <1>10, <1>12, <1>13 DEF Omitted

(* Well-formed lines without ELSE, ' and EXEC.                             *)
PlainSession == WellFormedSession /\ SessionOmits({"ELSE", "'", "EXEC"})

LEMMA PlainIsDisciplined ==
  ASSUME TypeInv, BaseInv, RunInv, WithinMemory, Omitted({"ELSE", "'", "EXEC"})
  PROVE  Disciplined
<1>1. HeapInv /\ BaseInv /\ ArraysFit
  BY DEF TypeInv, WithinMemory
<1> DEFINE W == {"ELSE", "'", "EXEC"}
<1>2. Omitted(W) /\ "ELSE" \in W /\ "'" \in W /\ "EXEC" \in W
  OBVIOUS
<1> HIDE DEF W
<1>3. TicksTakeWords
  <2>1. ~Executes(Tag("'"))
    BY <1>1, <1>2, NeverRuns
  <2>2. Tag("'") = "DEFER"
    BY DEF Tag
  <2> QED  BY <2>1, <2>2 DEF TicksTakeWords
<1>4. ExecTakesWords
  <2>1. status = "run" => frame.kind # "EXEC"
    BY <1>1, <1>2, NoExecs
  <2> QED  BY <2>1 DEF ExecTakesWords, Running
<1>5. ElseAfterTrue
  <2>1. Tag("ELSE") = "ELSE"
    BY DEF Tag
  <2>2. \A p \in Programs : \A j \in DOMAIN heap[p] : heap[p][j].op # "ELSE"
    <3>1. \A p \in Programs : DOMAIN heap[p] = 1 .. Len(heap[p])
      <4>1. \A p \in Programs : heap[p] \in Seq(Tokens)
        BY <1>1, HeapFacts
      <4> QED  BY <4>1, LenProperties
    <3> QED  BY <1>2, <2>1, <3>1 DEF Omitted
  <2> QED  BY <2>2 DEF ElseAfterTrue
<1> QED  BY <1>3, <1>4, <1>5 DEF Disciplined

(* Sessions without ELSE, ' and EXEC are disciplined: what the theorems    *)
(* above assume of the running program is then seen from its text (the     *)
(* handlers ef_defer, ef_exec and ef_if of runtime.c).                     *)
THEOREM PlainSessionsAreDisciplined ==
  ASSUME PlainSession
  PROVE  Spec /\ []WithinMemory => []Disciplined
<1> DEFINE W == {"ELSE", "'", "EXEC"}
<1>1. WellFormedSession /\ SessionOmits(W) /\ W \in SUBSET Optional
  BY DEF PlainSession, Optional
<1>2. Init => BaseInv /\ RunInv /\ Omitted(W)
  <2>1. Init => heap = << >> /\ status = "prompt" /\ r_stack = << >> /\ session = << >>
    BY DEF Init, RuntimeInit
  <2>2. heap = << >> => Programs = {}
    BY DEF Programs
  <2> QED  BY <2>1, <2>2 DEF BaseInv, RunInv, Omitted
<1>3. Held /\ BaseInv /\ RunInv /\ WithinMemory /\ Omitted(W) => Disciplined
  BY PlainIsDisciplined DEF Held
<1>4. Held /\ JumpsLand /\ BaseInv /\ WithinMemory /\ Disciplined => Steady
  BY DEF Steady, WithinMemory
<1>5. Held /\ Omitted(W) /\ [Next]_vars => Omitted(W)'
  BY <1>1, OmitSteps
<1> HIDE DEF W
<1>6. Held /\ JumpsLand /\ WithinMemory /\ BaseInv /\ RunInv /\ Omitted(W) /\ [Next]_vars
        => BaseInv' /\ RunInv' /\ Omitted(W)'
  BY <1>3, <1>4, <1>5, BaseSteps, RunSteps DEF Held
<1>7. OrderlySession
  BY <1>1 DEF WellFormedSession, OrderlySession, WellFormed
<1>8. Spec => []JumpsLand
  BY <1>7, OrderlySessionsLand
<1>9. Spec => []Held
  BY <1>1, ShapeHolds
<1> QED  BY <1>2, <1>3, <1>6, <1>8, <1>9, PTL DEF Spec
-----------------------------------------------------------------------------
(***************************************************************************)
(* The loop stacks.  Cells that are no tops, and what the pushes and pops  *)
(* of a loop do to the tops.                                               *)
(***************************************************************************)
Tops == {lu_top, ll_top, ld_top}
Even(m, t) == m[ll_top] = t /\ m[lu_top] = t /\ m[ld_top] = t

LEMMA Cells ==
  /\ Tops \subseteq Ints /\ Stray \notin Tops /\ Stray \notin Ints /\ -1 \notin Ints
  /\ lu_top # ll_top /\ lu_top # ld_top /\ ll_top # ld_top
  /\ \A i \in 0 .. (L - 1) : /\ loop_upper(i) \in Ints \ Tops
                             /\ loop_lower(i) \in Ints \ Tops
                             /\ ld(i) \in Ints \ Tops
  /\ ld(L) = ld_top
<1>1. L \in Nat \ {0}
  BY TaskMemoryAssumption
<1>2. /\ lu_top \in Ints /\ ll_top \in Ints /\ ld_top \in Ints
      /\ lu_top # ll_top /\ lu_top # ld_top /\ ll_top # ld_top
      /\ Stray # lu_top /\ Stray # ll_top /\ Stray # ld_top /\ Stray \notin Ints /\ -1 \notin Ints
  BY <1>1 DEF lu_top, ll_top, ld_top, Ints, Stray
<1>3. ASSUME NEW i \in 0 .. (L - 1)
      PROVE  /\ loop_upper(i) \in Ints /\ loop_lower(i) \in Ints /\ ld(i) \in Ints
             /\ loop_upper(i) # lu_top /\ loop_upper(i) # ll_top /\ loop_upper(i) # ld_top
             /\ loop_lower(i) # lu_top /\ loop_lower(i) # ll_top /\ loop_lower(i) # ld_top
             /\ ld(i) # lu_top /\ ld(i) # ll_top /\ ld(i) # ld_top
  BY <1>1 DEF lu_top, ll_top, ld_top, Ints, loop_upper, loop_lower, ld
<1>4. ld(L) = ld_top
  BY <1>1 DEF ld, ld_top
<1> QED  BY <1>2, <1>3, <1>4 DEF Tops

LEMMA SetCell ==
  ASSUME NEW m \in Loops, NEW i \in Ints, NEW v \in Int
  PROVE  /\ Set(m, i, v) \in Loops /\ Set(m, i, v)[i] = v
         /\ \A j \in Ints : j # i => Set(m, i, v)[j] = m[j]
<1>1. i \in LoopCells /\ i \in Int /\ Ints \subseteq LoopCells
  BY CellNames
<1>2. Set(m, i, v) = [m EXCEPT ![i] = v]
  <2>1. i # -1
    BY Cells
  <2> QED  BY <2>1 DEF Set
<1>3. Set(m, i, v) \in Loops
  BY <1>1, SetType
<1> QED  BY <1>1, <1>2, <1>3 DEF Loops

LEMMA AddCell ==
  ASSUME NEW m \in Loops, NEW i \in Ints, NEW n \in Int
  PROVE  /\ Add(m, i, n) \in Loops /\ Add(m, i, n)[i] = m[i] + n
         /\ \A j \in Ints : j # i => Add(m, i, n)[j] = m[j]
<1>1. i \in LoopCells /\ i # Stray /\ m[i] \in Int
  BY CellNames, Cells DEF Loops
<1>2. Get(m, i) = m[i]
  BY <1>1 DEF Get, InTask
<1>3. Get(m, i) + n = m[i] + n /\ m[i] + n \in Int
  BY <1>1, <1>2
<1> QED  BY <1>3, SetCell DEF Add

LEMMA PopCell ==
  ASSUME NEW m \in Loops, NEW i \in Ints, m[i] >= 0
  PROVE  /\ Pop(m, i) \in Loops /\ Pop(m, i)[i] = m[i] - 1
         /\ \A j \in Ints : j # i => Pop(m, i)[j] = m[j]
<1>1. m[i] \in Int
  BY CellNames DEF Loops
<1>2. Pop(m, i) = Add(m, i, -1)
  BY <1>1 DEF Pop
<1>3. m[i] + (-1) = m[i] - 1
  BY <1>1
<1> QED
  <2>1. -1 \in Int
    OBVIOUS
  <2>2. /\ Add(m, i, -1) \in Loops /\ Add(m, i, -1)[i] = m[i] + (-1)
        /\ \A j \in Ints : j # i => Add(m, i, -1)[j] = m[j]
    BY <2>1, AddCell
  <2> QED  BY <1>2, <1>3, <2>2

(* What happens to a cell that is no top, and to a top.                    *)
LEMMA Aside ==
  ASSUME NEW m \in Loops, NEW i \in Ints \ Tops, NEW v \in Int, NEW top \in Tops
  PROVE  /\ Set(m, i, v) \in Loops /\ Set(m, i, v)[top] = m[top]
         /\ Add(m, i, v) \in Loops /\ Add(m, i, v)[top] = m[top]
<1>1. i \in Ints /\ top \in Ints /\ top # i
  BY Cells
<1> QED  BY <1>1, SetCell, AddCell

LEMMA TopCells ==
  ASSUME NEW m \in Loops, NEW i \in Tops, NEW n \in Int
  PROVE  /\ Add(m, i, n) \in Loops /\ Add(m, i, n)[i] = m[i] + n
         /\ \A j \in Tops : j # i => Add(m, i, n)[j] = m[j]
         /\ m[i] >= 0 => /\ Pop(m, i) \in Loops /\ Pop(m, i)[i] = m[i] - 1
                        /\ \A j \in Tops : j # i => Pop(m, i)[j] = m[j]
<1>1. i \in Ints /\ Tops \subseteq Ints
  BY Cells
<1> QED  BY <1>1, AddCell, PopCell

(* DO pushes an entry on each; in the last entry its direction falls on    *)
(* the top of its own stack.                                               *)
LEMMA EnterTops ==
  ASSUME NEW m \in Loops, NEW t \in 0 .. (L - 1), Even(m, t), NEW lower \in Int, NEW upper \in Int
  PROVE  LET e == EnterLoop(m, lower, upper)
         IN  e[ll_top] = t + 1 /\ (t + 1 < L => Even(e, t + 1))
<1> DEFINE a == Set(m, loop_lower(t), lower)
           b == Add(a, ll_top, 1)
           c == Set(b, loop_upper(t), upper)
           d == Add(c, lu_top, 1)
           w == IF Get(d, lu_tos(d)) - Get(d, ll_tos(d)) > 0 THEN 1 ELSE -1
           f == Set(d, ld(t + 1), w)
           e == Add(f, ld_top, 1)
<1>0. /\ lu_top \in Tops /\ ll_top \in Tops /\ ld_top \in Tops /\ t \in Int /\ L \in Nat
      /\ lu_top # ll_top /\ lu_top # ld_top /\ ll_top # ld_top
      /\ lu_top \in Ints /\ ll_top \in Ints /\ ld_top \in Ints
  BY Cells, TaskMemoryAssumption DEF Tops
<1>1. a \in Loops /\ Even(a, t)
  <2>1. loop_lower(t) \in Ints \ Tops
    BY Cells
  <2> QED  BY <1>0, <2>1, Aside DEF Even
<1>2. b \in Loops /\ b[ll_top] = t + 1 /\ b[lu_top] = t /\ b[ld_top] = t
  <2> HIDE DEF a
  <2>1. Add(a, ll_top, 1) \in Loops
    BY <1>0, <1>1, TopCells
  <2>2. /\ Add(a, ll_top, 1)[ll_top] = a[ll_top] + 1
        /\ Add(a, ll_top, 1)[lu_top] = a[lu_top] /\ Add(a, ll_top, 1)[ld_top] = a[ld_top]
    BY <1>0, <1>1, TopCells
  <2> QED  BY <1>1, <2>1, <2>2 DEF Even
<1>3. c \in Loops /\ c[ll_top] = t + 1 /\ c[lu_top] = t /\ c[ld_top] = t
  <2> HIDE DEF b
  <2>1. loop_upper(t) \in Ints \ Tops
    BY Cells
  <2> QED  BY <1>0, <1>2, <2>1, Aside
<1>4. d \in Loops /\ d[ll_top] = t + 1 /\ d[lu_top] = t + 1 /\ d[ld_top] = t
  <2> HIDE DEF c
  <2>1. 1 \in Int /\ c \in Loops /\ lu_top \in Tops
    BY <1>0, <1>3
  <2>2. /\ Add(c, lu_top, 1) \in Loops /\ Add(c, lu_top, 1)[lu_top] = c[lu_top] + 1
        /\ \A j \in Tops : j # lu_top => Add(c, lu_top, 1)[j] = c[j]
    BY <2>1, TopCells
  <2> QED  BY <1>0, <1>3, <2>2
<1>5. EnterLoop(m, lower, upper) = e
  <2>1. ll_push(m, lower) = b
    BY DEF ll_push, Even
  <2>2. lu_push(b, upper) = d
    <3> HIDE DEF b
    <3> QED  BY <1>2 DEF lu_push
  <2>3. ld_push(d, w) = e
    <3> HIDE DEF d, w
    <3> QED  BY <1>4 DEF ld_push
  <2> HIDE DEF b, d, e
  <2> QED  BY <2>1, <2>2, <2>3 DEF EnterLoop
<1>6. w \in Int
  <2> HIDE DEF d
  <2> QED  OBVIOUS
<1> HIDE DEF d, w
<1>7. ld(t + 1) \in Ints /\ ld(t + 1) # ll_top /\ ld(t + 1) # lu_top /\ (t + 1 < L => ld(t + 1) # ld_top)
  <2>1. CASE t + 1 < L
    <3>1. t + 1 \in 0 .. (L - 1)
      BY <1>0, <2>1
    <3> QED  BY <3>1, Cells DEF Tops
  <2>2. CASE ~(t + 1 < L)
    <3>1. t + 1 = L
      BY <1>0, <2>2
    <3> QED  BY <1>0, <3>1, Cells
  <2> QED  BY <2>1, <2>2
<1>8. f \in Loops /\ f[ll_top] = t + 1 /\ f[lu_top] = t + 1 /\ (t + 1 < L => f[ld_top] = t)
  <2>1. /\ Set(d, ld(t + 1), w) \in Loops
        /\ \A j \in Ints : j # ld(t + 1) => Set(d, ld(t + 1), w)[j] = d[j]
    BY <1>4, <1>6, <1>7, SetCell
  <2> QED  BY <1>0, <1>4, <1>7, <2>1
<1>9. e[ll_top] = t + 1 /\ e[lu_top] = t + 1 /\ (t + 1 < L => e[ld_top] = t + 1)
  <2> HIDE DEF f
  <2>1. 1 \in Int /\ f \in Loops /\ ld_top \in Tops
    BY <1>0, <1>8
  <2>2. /\ Add(f, ld_top, 1) \in Loops /\ Add(f, ld_top, 1)[ld_top] = f[ld_top] + 1
        /\ \A j \in Tops : j # ld_top => Add(f, ld_top, 1)[j] = f[j]
    BY <2>1, TopCells
  <2> QED  BY <1>0, <1>8, <2>2
<1> QED  BY <1>5, <1>9 DEF Even

(* The index that LOOP counts is no top.                                   *)
LEMMA TurnTops ==
  ASSUME NEW m \in Loops, NEW t \in 1 .. L, Even(m, t), NEW n \in Int
  PROVE  Add(m, ll_tos(m), n) \in Loops /\ Even(Add(m, ll_tos(m), n), t)
<1>1. t - 1 \in 0 .. (L - 1)
  BY TaskMemoryAssumption
<1>2. ll_tos(m) = loop_lower(t - 1)
  BY DEF ll_tos, Even
<1>3. ll_tos(m) \in Ints \ Tops
  BY <1>1, <1>2, Cells
<1>4. lu_top \in Tops /\ ll_top \in Tops /\ ld_top \in Tops
  BY DEF Tops
<1> QED  BY <1>3, <1>4, Aside DEF Even

LEMMA LeaveTops ==
  ASSUME NEW m \in Loops, NEW t \in 1 .. L, Even(m, t)
  PROVE  Even(LeaveLoop(m), t - 1)
<1> DEFINE a == Set(m, ll_tos(m), 0)
           b == Set(a, lu_tos(a), 0)
           c == ll_pop(b)
           d == lu_pop(c)
           e == ld_pop(d)
<1>0. /\ lu_top \in Tops /\ ll_top \in Tops /\ ld_top \in Tops /\ t \in Int /\ t >= 0
      /\ lu_top # ll_top /\ lu_top # ld_top /\ ll_top # ld_top
      /\ t - 1 \in 0 .. (L - 1)
  BY Cells, TaskMemoryAssumption DEF Tops
<1>1. a \in Loops /\ Even(a, t)
  <2>1. ll_tos(m) = loop_lower(t - 1)
    BY DEF ll_tos, Even
  <2>2. ll_tos(m) \in Ints \ Tops
    BY <1>0, <2>1, Cells
  <2> QED  BY <1>0, <2>2, Aside DEF Even
<1>2. b \in Loops /\ Even(b, t)
  <2> HIDE DEF a
  <2>1. lu_tos(a) = loop_upper(t - 1)
    BY <1>1 DEF lu_tos, Even
  <2>2. lu_tos(a) \in Ints \ Tops
    BY <1>0, <2>1, Cells
  <2> QED  BY <1>0, <1>1, <2>2, Aside DEF Even
<1>3. c \in Loops /\ c[ll_top] = t - 1 /\ c[lu_top] = t /\ c[ld_top] = t
  <2> HIDE DEF b
  <2>1. b[ll_top] >= 0
    BY <1>0, <1>2 DEF Even
  <2>2. Pop(b, ll_top) \in Loops /\ Pop(b, ll_top)[ll_top] = b[ll_top] - 1
    BY <1>0, <1>2, <2>1, TopCells
  <2>3. Pop(b, ll_top)[lu_top] = b[lu_top]
    BY <1>0, <1>2, <2>1, TopCells
  <2>4. Pop(b, ll_top)[ld_top] = b[ld_top]
    BY <1>0, <1>2, <2>1, TopCells
  <2> QED  BY <1>2, <2>2, <2>3, <2>4 DEF ll_pop, Even
<1>4. d \in Loops /\ d[ll_top] = t - 1 /\ d[lu_top] = t - 1 /\ d[ld_top] = t
  <2> HIDE DEF c
  <2>1. c[lu_top] >= 0
    BY <1>0, <1>3
  <2>2. Pop(c, lu_top) \in Loops /\ Pop(c, lu_top)[lu_top] = c[lu_top] - 1
    BY <1>0, <1>3, <2>1, TopCells
  <2>3. Pop(c, lu_top)[ll_top] = c[ll_top]
    BY <1>0, <1>3, <2>1, TopCells, ZenonT(40)
  <2>4. Pop(c, lu_top)[ld_top] = c[ld_top]
    BY <1>0, <1>3, <2>1, TopCells
  <2> QED  BY <1>3, <2>2, <2>3, <2>4 DEF lu_pop
<1>5. Even(e, t - 1)
  <2> HIDE DEF d
  <2>1. d[ld_top] >= 0 /\ d \in Loops /\ ld_top \in Tops
    BY <1>0, <1>4
  <2>2. /\ Pop(d, ld_top)[ld_top] = d[ld_top] - 1
        /\ \A j \in Tops : j # ld_top => Pop(d, ld_top)[j] = d[j]
    BY <2>1, TopCells
  <2> QED  BY <1>0, <1>4, <2>2 DEF ld_pop, Even
<1>6. LeaveLoop(m) = e
  BY DEF LeaveLoop, Cleared
<1> QED  BY <1>5, <1>6
-----------------------------------------------------------------------------
(***************************************************************************)
(* The loop stacks while lines of DO loops and calls run: an entry on each *)
(* for every loop that is open.                                            *)
(***************************************************************************)
CountedSession == WellFormedSession /\ SessionOmits({"BEGIN", "AGAIN", "UNTIL"})

TopsInv ==
  /\ Even(loops, loops[ll_top])
  /\ status \in {"prompt", "parse"} => loops[ll_top] = 0
  /\ status = "run" => loops[ll_top] = (Len(r_stack) + 1) - Len(frames)

Counts == Steady /\ RunInv /\ TopsInv /\ WithinMemory /\ Omitted({"BEGIN", "AGAIN", "UNTIL"})

LEMMA OpenNow ==
  ASSUME Counts, status = "run", NEW t, t = loops[ll_top]
  PROVE  /\ t \in Nat /\ t <= Len(r_stack) /\ t < L /\ Len(frames) \in Nat \ {0} /\ Len(r_stack) \in Nat
         /\ t = (Len(r_stack) + 1) - Len(frames)
         /\ loops \in Loops /\ Even(loops, t)
<1>1. TypeInv /\ loops \in Loops /\ L \in Nat
  BY TaskMemoryAssumption DEF Counts, Steady, Held, TypeInv, TaskInv
<1>2. PICK c : Stacked(c, frames, Trail)
  BY DEF Counts, RunInv
<1>3. PICK n, m : n = Len(frames) /\ m = Len(r_stack)
  OBVIOUS
<1>4. n \in Nat \ {0} /\ m \in Nat /\ c[n] \in Nat /\ c[n] < m + 1 /\ n - 1 <= c[n]
  BY <1>1, <1>2, <1>3, InnermostTrail
<1>5. t = (m + 1) - n /\ Even(loops, t) /\ t < L
  BY <1>3 DEF Counts, TopsInv, WithinMemory
<1> QED  BY <1>1, <1>3, <1>4, <1>5

(* LOOP stands where a loop is open.                                       *)
LEMMA OneOpen ==
  ASSUME Counts, Executes("LOOP"), NEW t, t = loops[ll_top]
  PROVE  1 <= t
<1>1. TypeInv /\ status = "run" /\ frame.kind # "EXEC"
  BY OnToken DEF Counts, Steady, Held, LoopWords
<1>2. PICK c : Stacked(c, frames, Trail)
  BY <1>1 DEF Counts, RunInv
<1>3. PICK n, m : n = Len(frames) /\ m = Len(r_stack)
  OBVIOUS
<1>4. n \in Nat \ {0} /\ m \in Nat /\ c[n] \in Nat /\ n - 1 <= c[n] /\ At(frame.prog, pcp, m - c[n])
  BY <1>1, <1>2, <1>3, InnermostTrail
<1>5. 1 <= m - c[n]
  BY <1>4, LoopIsOpen DEF Counts
<1>6. t = (m + 1) - n
  BY <1>1, <1>3, OpenNow
<1> QED  BY <1>4, <1>5, <1>6

(* What a handler leaves to be shown.                                      *)
LEMMA SameDepth ==
  ASSUME Counts, status = "run", status' \notin {"prompt", "parse"}, loops' = loops,
         status' = "run" => Len(r_stack') - Len(frames') = Len(r_stack) - Len(frames),
         status' = "run" => Len(r_stack') \in Nat /\ Len(frames') \in Nat
  PROVE  TopsInv'
<1>1. PICK t : t = loops[ll_top]
  OBVIOUS
<1>2. Even(loops, t) /\ t = (Len(r_stack) + 1) - Len(frames) /\ Len(r_stack) \in Nat /\ Len(frames) \in Nat
  BY <1>1, OpenNow
<1>3. Even(loops', t) /\ loops'[ll_top] = t
  BY <1>1, <1>2
<1>4. status' = "run" => t = (Len(r_stack') + 1) - Len(frames')
  BY <1>2
<1> QED  BY <1>3, <1>4 DEF TopsInv, Even

LEMMA CallLengths ==
  ASSUME TypeInv, status = "run"
  PROVE  /\ Len(Called) = Len(frames) /\ Len(frames) \in Nat \ {0} /\ Len(r_stack) \in Nat
         /\ \A f : Len(Append(Called, f)) = Len(frames) + 1
         /\ \A a : Len(Append(r_stack, a)) = Len(r_stack) + 1
         /\ Len(frames) > 1 => Len(Popped(frames, 1)) = Len(frames) - 1
         /\ Len(r_stack) > 0 => Len(Popped(r_stack, 1)) = Len(r_stack) - 1
<1>1. /\ Len(Called) = Len(frames) /\ Called \in Seq(Frames(Programs))
      /\ frames \in Seq(Frames(Programs)) /\ r_stack \in Seq(Int)
      /\ Len(frames) \in Nat \ {0} /\ Len(r_stack) \in Nat
  BY Innermost, CalledFrames DEF TypeInv, CallInv
<1>2. \A f : Len(Append(Called, f)) = Len(frames) + 1
  BY <1>1
<1>3. \A a : Len(Append(r_stack, a)) = Len(r_stack) + 1
  BY <1>1
<1>4. Len(frames) > 1 => Len(Popped(frames, 1)) = Len(frames) - 1
  <2>1. Len(frames) > 1 => 1 \in Nat /\ 1 <= Len(frames)
    BY <1>1
  <2> QED  BY <1>1, <2>1, PoppedProperties
<1>5. Len(r_stack) > 0 => Len(Popped(r_stack, 1)) = Len(r_stack) - 1
  <2>1. Len(r_stack) > 0 => 1 \in Nat /\ 1 <= Len(r_stack)
    BY <1>1
  <2> QED  BY <1>1, <2>1, PoppedProperties
<1> QED  BY <1>1, <1>2, <1>3, <1>4, <1>5

LEMMA EnterCounts ==
  ASSUME Counts, WithinMemory', ef_do
  PROVE  TopsInv'
<1>1. /\ Executes("DO") /\ status = "run" /\ TypeInv /\ d_stack \in Seq(Int) /\ Len(d_stack) \in Nat
      /\ Len(d_stack) >= 2
  <2>1. Executes("DO")
    BY DEF ef_do
  <2>2. TypeInv /\ d_stack \in Seq(Int)
    BY DEF Counts, Steady, Held, TypeInv, TaskInv
  <2>3. Len(d_stack) >= Operands("DO")
    BY <2>1 DEF Executes, WithinStacks
  <2>4. Operands("DO") = 2
    BY DEF Operands
  <2> QED  BY <2>1, <2>2, <2>3, <2>4, LenProperties DEF Executes, Running
<1>2. PICK t : t = loops[ll_top]
  OBVIOUS
<1>3. PICK lower, upper : lower = Top(d_stack) /\ upper = d_stack[Len(d_stack) - 1]
  OBVIOUS
<1>4. lower \in Int /\ upper \in Int
  <2>1. Len(d_stack) \in 1 .. Len(d_stack) /\ Len(d_stack) - 1 \in 1 .. Len(d_stack)
    BY <1>1
  <2> QED  BY <1>1, <1>3, <2>1, ElementOfSeq DEF Top
<1>5. /\ loops' = EnterLoop(loops, lower, upper) /\ status' \in {status, "stray"}
      /\ r_stack' = Append(r_stack, pcp + 1) /\ frames' = Called
  BY <1>3 DEF ef_do, LoopsBecome, Jump, Goto
<1>6. /\ t \in Nat /\ t < L /\ L \in Nat /\ loops \in Loops /\ Even(loops, t)
      /\ t = (Len(r_stack) + 1) - Len(frames) /\ Len(r_stack) \in Nat /\ Len(frames) \in Nat
  BY <1>1, <1>2, OpenNow, TaskMemoryAssumption
<1>7. loops'[ll_top] = t + 1 /\ (t + 1 < L => Even(loops', t + 1))
  <2>1. t \in 0 .. (L - 1)
    BY <1>6
  <2> QED  BY <1>4, <1>5, <1>6, <2>1, EnterTops
<1>8. t + 1 < L
  BY <1>7 DEF WithinMemory
<1>9. Len(r_stack') = Len(r_stack) + 1 /\ Len(frames') = Len(frames)
  BY <1>1, <1>5, CallLengths
<1>10. t + 1 = (Len(r_stack') + 1) - Len(frames')
  BY <1>6, <1>9
<1>11. status' \notin {"prompt", "parse"}
  BY <1>1, <1>5
<1> QED  BY <1>7, <1>8, <1>10, <1>11 DEF TopsInv, Even

LEMMA LoopCounts ==
  ASSUME Counts, ef_loop_end
  PROVE  TopsInv'
<1>1. Executes("LOOP") /\ status = "run" /\ TypeInv
  BY DEF ef_loop_end, Executes, Running, Counts, Steady, Held
<1>2. PICK t : t = loops[ll_top]
  OBVIOUS
<1>3. PICK m : m = Add(loops, ll_tos(loops), 1)
  OBVIOUS
<1>4. /\ t \in Nat /\ 1 <= t /\ t <= Len(r_stack) /\ t < L /\ L \in Nat /\ loops \in Loops
      /\ Even(loops, t)
      /\ t = (Len(r_stack) + 1) - Len(frames) /\ Len(r_stack) \in Nat /\ Len(frames) \in Nat
  BY <1>1, <1>2, OpenNow, OneOpen, TaskMemoryAssumption
<1>5. t \in 1 .. L /\ 1 \in Int
  BY <1>4
<1>6. m \in Loops /\ Even(m, t)
  BY <1>3, <1>4, <1>5, TurnTops
<1>7. Even(LeaveLoop(m), t - 1)
  BY <1>5, <1>6, LeaveTops
<1>8. CASE LoopIsOver
  <2>1. /\ loops' = LeaveLoop(m) /\ status' \in {status, "stray"}
        /\ r_stack' = Popped(r_stack, 1) /\ frames' = Called
    BY <1>3, <1>8 DEF ef_loop_end, LoopsBecome, Jump, Goto
  <2>2. Len(r_stack') = Len(r_stack) - 1 /\ Len(frames') = Len(frames)
    BY <1>1, <1>4, <2>1, CallLengths
  <2>3. t - 1 = (Len(r_stack') + 1) - Len(frames')
    BY <1>4, <2>2
  <2> QED  BY <1>1, <1>7, <2>1, <2>3 DEF TopsInv, Even
<1>9. CASE ~LoopIsOver
  <2>1. loops' = m /\ status' \in {status, "stray"} /\ r_stack' = r_stack /\ frames' = Called
    BY <1>3, <1>9 DEF ef_loop_end, LoopsBecome, Jump, Goto
  <2>2. Len(frames') = Len(frames)
    BY <1>1, <2>1, CallLengths
  <2> QED  BY <1>1, <1>4, <1>6, <2>1, <2>2 DEF TopsInv, Even
<1> QED  BY <1>8, <1>9
-----------------------------------------------------------------------------
LEMMA MachineCounts ==
  ASSUME Counts, WithinMemory', Run
  PROVE  TopsInv'
<1>1. TypeInv /\ RunInv /\ Steady /\ HeapInv /\ BaseInv /\ ArraysFit
  BY DEF Counts, Steady, Held, TypeInv
<1>2. status = "run"
  BY DEF Run, Execute, cb_ef_number, ef_primitive, d_variable_store, d_string_exec, ef_do, ef_i_cb,
     ef_loop_end, ef_begin, ef_again, ef_until, ef_if, ef_else, ef_then, ef_exit,
     ef_dict_entry, ef_defer, ef_exec, Return, Finish, Fetch, Overrun, Executes, Running
<1>3. /\ Len(Called) = Len(frames) /\ Len(frames) \in Nat \ {0} /\ Len(r_stack) \in Nat
      /\ \A f : Len(Append(Called, f)) = Len(frames) + 1
      /\ \A a : Len(Append(r_stack, a)) = Len(r_stack) + 1
      /\ Len(frames) > 1 => Len(Popped(frames, 1)) = Len(frames) - 1
      /\ Len(r_stack) > 0 => Len(Popped(r_stack, 1)) = Len(r_stack) - 1
  BY <1>1, <1>2, CallLengths
<1>4. /\ ~ef_begin /\ ~ef_again /\ ~ef_until
  <2>1. ~Executes(Tag("BEGIN")) /\ ~Executes(Tag("AGAIN")) /\ ~Executes(Tag("UNTIL"))
    BY <1>1, NeverRuns DEF Counts
  <2>2. Tag("BEGIN") = "BEGIN" /\ Tag("AGAIN") = "AGAIN" /\ Tag("UNTIL") = "UNTIL"
    BY DEF Tag
  <2> QED  BY <2>1, <2>2 DEF ef_begin, ef_again, ef_until
<1>5. ~d_string_exec /\ ~Executes(">r")
  <2>1. ~Executes("SEXEC") /\ ~Executes(">r")
    BY <1>1, OnToken
  <2> QED  BY <2>1 DEF d_string_exec
<1>6. CASE \/ cb_ef_number \/ ef_primitive \/ d_variable_store \/ ef_i_cb
           \/ ef_if \/ ef_else \/ ef_then \/ ef_exit \/ ef_defer
  <2>1. frames' = Called /\ r_stack' = r_stack /\ loops' = loops /\ status' = status
    BY <1>5, <1>6 DEF cb_ef_number, ef_primitive, d_variable_store, ef_i_cb, ef_if, ef_else, ef_then,
       ef_exit, ef_defer, Jump, Goto
  <2> QED  BY <1>2, <1>3, <2>1, SameDepth
<1>7. CASE ef_dict_entry \/ ef_exec
  <2>1. /\ \E f : frames' = Append(Called, f)
        /\ r_stack' = Append(r_stack, pcp) /\ loops' = loops /\ status' = status
    BY <1>7 DEF ef_dict_entry, ef_exec
  <2>2. Len(frames') = Len(frames) + 1 /\ Len(r_stack') = Len(r_stack) + 1
    BY <1>3, <2>1
  <2> QED  BY <1>2, <1>3, <2>1, <2>2, SameDepth
<1>8. CASE Return
  <2>1. frame.kind # "SEXEC"
    <3>1. ~GoesOn /\ Len(frames) > 1
      BY <1>8 DEF Return
    <3>2. PICK c : Stacked(c, frames, Trail)
      BY <1>1, <1>2 DEF RunInv
    <3>3. Len(frames) \in 2 .. Len(frames) /\ frame = frames[Len(frames)]
      BY <1>1, <1>2, <1>3, <3>1, Innermost
    <3> QED  BY <3>2, <3>3 DEF Stacked
  <2>2. loops' = loops /\ Len(frames') = Len(frames) - 1 /\ Len(frames) > 1
    BY <1>3, <1>8 DEF Return
  <2>3. CASE r_stack # << >>
    <3>1. r_stack' = Popped(r_stack, 1) /\ status' = status
      BY <1>8, <2>1, <2>3 DEF Return
    <3>2. Len(r_stack) > 0
      <4>1. r_stack \in Seq(Int)
        BY <1>1 DEF TypeInv, TaskInv
      <4> QED  BY <1>3, <2>3, <4>1, EmptySeq
    <3>3. Len(r_stack') = Len(r_stack) - 1
      BY <1>3, <3>1, <3>2
    <3> QED  BY <1>2, <1>3, <2>2, <3>1, <3>2, <3>3, SameDepth
  <2>4. CASE r_stack = << >>
    <3>1. status' = "stray"
      BY <1>8, <2>1, <2>4 DEF Return
    <3> QED  BY <1>2, <2>2, <3>1, SameDepth
  <2> QED  BY <2>3, <2>4
<1>9. CASE Finish
  <2>1. r_stack' = << >> /\ r_stack' = r_stack /\ loops' = loops /\ Len(frames) = 1 /\ status' = "prompt"
    BY <1>1, <1>9, LineFinishes DEF Finish
  <2>2. Even(loops, loops[ll_top]) /\ loops[ll_top] = (Len(r_stack) + 1) - Len(frames)
    BY <1>2, OpenNow DEF Counts
  <2>3. Len(r_stack) = 0
    BY <2>1
  <2>4. loops[ll_top] = 0
    BY <2>1, <2>2, <2>3
  <2> QED  BY <2>1, <2>2, <2>4 DEF TopsInv, Even
<1>10. CASE Fetch \/ Overrun
  <2>1. status' \in {"crashed", "stray", "exited"} /\ loops' = loops
    BY <1>10 DEF Fetch, Overrun, taskVars
  <2> QED  BY <1>2, <2>1, SameDepth
<1> QED
  BY <1>4, <1>5, <1>6, <1>7, <1>8, <1>9, <1>10, EnterCounts, LoopCounts DEF Run, Execute

LEMMA CountSteps ==
  ASSUME Counts, WithinMemory', [Next]_vars
  PROVE  TopsInv'
<1>1. CASE UNCHANGED vars
  <2>1. loops' = loops /\ status' = status /\ r_stack' = r_stack /\ frames' = frames
    BY <1>1 DEF vars, taskVars
  <2> QED  BY <2>1 DEF Counts, TopsInv, Even
<1>2. CASE parse
  <2>1. status = "prompt" /\ status' = "parse" /\ loops' \in {loops, ftask_create}
    BY <1>2 DEF parse, MainTask
  <2>2. Even(loops, 0)
    BY <2>1 DEF Counts, TopsInv
  <2>3. Even(ftask_create, 0)
    BY CellNames DEF Even, ftask_create
  <2> QED  BY <2>1, <2>2, <2>3 DEF TopsInv, Even
<1>3. CASE Compile
  <2>1. status = "parse" /\ status' # "run"
    BY <1>3 DEF Compile, ParseWord, if_create, else_create, then_create, do_create, loop_create,
       begin_create, again_create, until_create, BackTo, exit_create, parse_colon,
       parse_colon_name, semicolon, parse_variable, parse_variable_name, parse_string,
       parse_string_expecting_quote, comment, parse_mark, skip_word, program_add, settled, Crash,
       null_PROG, Compiling, Parsing, Given, NextWord
  <2>2. loops' = loops
    BY <1>3 DEF Compile, taskVars
  <2> QED  BY <2>1, <2>2 DEF Counts, TopsInv, Even
<1>4. CASE Start
  <2>1. /\ status = "parse" /\ status' = "run" /\ frames' = <<Frame("MAIN", program)>>
        /\ r_stack' = r_stack /\ loops' = loops
    BY <1>4 DEF Start, run_task
  <2>2. r_stack' = << >> /\ Even(loops', 0)
    BY <2>1 DEF Counts, RunInv, TopsInv, Even
  <2>3. Len(r_stack') = 0 /\ Len(frames') = 1
    BY <2>1, <2>2
  <2> QED  BY <2>1, <2>2, <2>3 DEF TopsInv, Even
<1>5. CASE Run
  BY <1>5, MachineCounts
<1> QED  BY <1>1, <1>2, <1>3, <1>4, <1>5 DEF Next

LEMMA CountsHold ==
  ASSUME CountedSession
  PROVE  Spec /\ []Disciplined => []Counts
<1> DEFINE W == {"BEGIN", "AGAIN", "UNTIL"}
<1>1. WellFormedSession /\ SessionOmits(W) /\ W \in SUBSET Optional
  BY DEF CountedSession, Optional
<1>2. Init => TopsInv /\ Omitted(W)
  <2>1. Init => heap = << >> /\ status = "prompt" /\ session = << >> /\ loops = ftask_create
    BY DEF Init, RuntimeInit
  <2>2. heap = << >> => Programs = {}
    BY DEF Programs
  <2>3. loops = ftask_create => Even(loops, 0)
    BY CellNames DEF Even, ftask_create
  <2> QED  BY <2>1, <2>2, <2>3 DEF TopsInv, Omitted, Even
<1>3. Steady /\ RunInv /\ Omitted(W) /\ [Next]_vars => Omitted(W)'
  BY <1>1, OmitSteps DEF Steady
<1>4. Steady /\ RunInv /\ TopsInv /\ Disciplined /\ Omitted(W) => Counts
  BY DEF Counts, Disciplined
<1>5. Disciplined' => WithinMemory'
  BY DEF Disciplined
<1> HIDE DEF W
<1>6. Steady /\ RunInv /\ TopsInv /\ Omitted(W) /\ Disciplined /\ Disciplined' /\ [Next]_vars
        => TopsInv' /\ Omitted(W)'
  BY <1>3, <1>4, <1>5, CountSteps
<1>7. Spec /\ []Disciplined => [](Steady /\ RunInv)
  BY <1>1, RunHolds
<1> QED  BY <1>2, <1>4, <1>6, <1>7, PTL DEF Spec

(* In a session of DO loops, conditionals and calls, the three loop stacks *)
(* rise and fall together: what ef_do pushes on each, ef_loop_end takes    *)
(* off each, and nothing writes beside them.                               *)
THEOREM CountedLoopsStayInStep ==
  ASSUME CountedSession
  PROVE  Spec /\ []Disciplined => []LoopStacksInStep
<1>1. Counts => LoopStacksInStep
  BY DEF Counts, TopsInv, Even, LoopStacksInStep
<1> QED  BY <1>1, CountsHold, PTL

(* The return stack then holds one entry for every open loop and one for   *)
(* every call in progress, and no more: the handlers that share it (ef_do, *)
(* ef_loop_end, ef_dict_entry, ef_exec and the return from a word) never   *)
(* take each other's entries.                                              *)
THEOREM CountedReturnStackIsExact ==
  ASSUME CountedSession
  PROVE  Spec /\ []Disciplined => []ReturnStackExact
<1>1. Counts => ReturnStackExact
  <2> SUFFICES ASSUME Counts, status = "run"
               PROVE  Len(r_stack) = loops[ll_top]
                        + Cardinality({k \in 2 .. Len(frames) : frames[k].kind # "SEXEC"})
    BY DEF ReturnStackExact
  <2>1. PICK c : Stacked(c, frames, Trail)
    BY DEF Counts, RunInv
  <2>2. PICK n, m, t : n = Len(frames) /\ m = Len(r_stack) /\ t = loops[ll_top]
    OBVIOUS
  <2>3. n \in Nat \ {0} /\ m \in Nat /\ t \in Nat /\ t = (m + 1) - n
    BY <2>2, OpenNow
  <2>4. {k \in 2 .. n : frames[k].kind # "SEXEC"} = 2 .. n
    <3>1. \A k \in 2 .. n : frames[k].kind \in {"DICT", "EXEC"}
      BY <2>1, <2>2 DEF Stacked
    <3>2. \A k \in 2 .. n : frames[k].kind # "SEXEC"
      BY <3>1
    <3> QED  BY <3>2
  <2>5. Cardinality(2 .. n) = n - 1
    <3>1. 2 \in Int /\ n \in Int
      BY <2>3
    <3>2. Cardinality(2 .. n) = IF 2 > n THEN 0 ELSE (n - 2) + 1
      BY <3>1, FS_Interval
    <3> QED  BY <2>3, <3>2
  <2>6. Cardinality({k \in 2 .. n : frames[k].kind # "SEXEC"}) = n - 1
    BY <2>4, <2>5
  <2>7. m = t + (n - 1)
    BY <2>3
  <2> QED  BY <2>2, <2>6, <2>7
<1> QED  BY <1>1, CountsHold, PTL

(* And every line leaves the stacks of loops and calls as it found them,   *)
(* empty: nothing a line does piles up over a session (run_task returning  *)
(* to parse).                                                              *)
THEOREM CountedLinesRestore ==
  ASSUME CountedSession
  PROVE  Spec /\ []Disciplined => []PromptRestores
<1>1. Counts => PromptRestores
  <2> SUFFICES ASSUME Counts, status = "prompt"
               PROVE  /\ r_stack = << >> /\ prog_stack = << >>
                      /\ loops[ll_top] = 0 /\ loops[ld_top] = 0
    BY DEF PromptRestores
  <2>1. TypeInv /\ r_stack = << >>
    BY DEF Counts, Steady, Held, RunInv
  <2>2. prog_stack = << >>
    BY <2>1, NothingSaved
  <2>3. loops[ll_top] = 0 /\ loops[ld_top] = 0
    BY DEF Counts, TopsInv, Even
  <2> QED  BY <2>1, <2>2, <2>3
<1> QED  BY <1>1, CountsHold, PTL
=============================================================================
