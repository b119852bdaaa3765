-------------------------- MODULE ForthLineProofs --------------------------
(***************************************************************************)
(* Proof that a line whose structures are opened and closed in order is    *)
(* compiled without a fault, for every vocabulary and script, whatever the *)
(* earlier lines left open or closed too often, short of a program_stack   *)
(* full of open definitions.                                               *)
(***************************************************************************)
EXTENDS ForthProofs

(***************************************************************************)
(* Counting words.                                                         *)
(***************************************************************************)
LEMMA OpenedType ==
  ASSUME NEW l, NEW n \in Nat, NEW w
  PROVE  /\ IsFiniteSet({k \in 1 .. n : l[k] = w})
         /\ Opened(l, n, w) \in Nat
<1>1. IsFiniteSet(1 .. n)
  BY FS_Interval
<1>2. {k \in 1 .. n : l[k] = w} \in SUBSET (1 .. n)
  OBVIOUS
<1>3. IsFiniteSet({k \in 1 .. n : l[k] = w})
  BY <1>1, <1>2, FS_Subset
<1> QED  BY <1>3, FS_CardinalityType DEF Opened

LEMMA OpenedNone ==
  ASSUME NEW l, NEW w
  PROVE  Opened(l, 0, w) = 0
<1>1. {k \in 1 .. 0 : l[k] = w} = {}
  OBVIOUS
<1> QED  BY <1>1, FS_EmptySet DEF Opened

LEMMA OpenedNext ==
  ASSUME NEW l, NEW n \in Nat, NEW w
  PROVE  Opened(l, n + 1, w) = Opened(l, n, w) + IF l[n + 1] = w THEN 1 ELSE 0
<1> DEFINE old == {k \in 1 .. n : l[k] = w}
           new == {k \in 1 .. (n + 1) : l[k] = w}
<1>1. CASE l[n + 1] = w
  <2>1. new = old \cup {n + 1} /\ n + 1 \notin old
    BY <1>1
  <2>2. IsFiniteSet(old)
    BY OpenedType
  <2>3. Cardinality(new) = Cardinality(old) + 1
    BY <2>1, <2>2, FS_AddElement
  <2> QED  BY <1>1, <2>3 DEF Opened
<1>2. CASE l[n + 1] # w
  <2>1. new = old
    BY <1>2
  <2>2. Opened(l, n, w) \in Nat
    BY OpenedType
  <2> QED  BY <1>2, <2>1, <2>2 DEF Opened
<1> QED  BY <1>1, <1>2

(* Only the words counted matter.                                          *)
LEMMA OpenedSame ==
  ASSUME NEW l, NEW s, NEW n \in Nat, NEW m \in Nat, n <= m, NEW w,
         \A k \in 1 .. n : l[k] = s[k],
         \A k \in (n + 1) .. m : s[k] # w
  PROVE  Opened(s, m, w) = Opened(l, n, w)
<1>1. {k \in 1 .. m : s[k] = w} = {k \in 1 .. n : l[k] = w}
  OBVIOUS
<1> QED  BY <1>1 DEF Opened
-----------------------------------------------------------------------------
(***************************************************************************)
(* An orderly line, with its newline.  Of each pair of words at most one   *)
(* is open at any place: of IF and THEN, and of the others if it is        *)
(* balanced too.                                                           *)
(***************************************************************************)
Namers == {":"} \cup DOMAIN Naming

IfOpen(s, n) == Opened(s, n, "IF") > Opened(s, n, "THEN")
DoOpen(s, n) == Opened(s, n, "DO") > Opened(s, n, "LOOP")
BeginOpen(s, n) == Opened(s, n, "BEGIN") > Opened(s, n, "UNTIL") + Opened(s, n, "AGAIN")
ColonOpen(s, n) == Opened(s, n, ":") > Opened(s, n, ";")

InOrder(s, n) ==
  /\ Opened(s, n, "DO") - Opened(s, n, "LOOP") \in {0, 1}
  /\ Opened(s, n, "BEGIN") - Opened(s, n, "UNTIL") - Opened(s, n, "AGAIN") \in {0, 1}
  /\ Opened(s, n, ":") - Opened(s, n, ";") \in {0, 1}

Sound(s) ==
  /\ \A n \in 1 .. Len(s) : s[n] \notin DOMAIN Closing \cup DOMAIN EndQuote
  /\ \A n \in 1 .. (Len(s) - 1) : s[n] \in Namers => s[n + 1] \notin ControlWords
  /\ \A n \in 1 .. (Len(s) - 1) : s[n] \in Namers => s[n + 1] # NL \/ n + 1 = Len(s)
  /\ s[Len(s)] = NL
  /\ \A n \in 0 .. Len(s) : Opened(s, n, "IF") - Opened(s, n, "THEN") \in {0, 1}
  /\ \A n \in 1 .. Len(s) : s[n] = "ELSE" => IfOpen(s, n)
  /\ \A n \in 1 .. Len(s) : s[n] \in {":", ";"} => ~IfOpen(s, n)

Nested(s) == \A n \in 0 .. Len(s) : InOrder(s, n)

LEMMA NewlineIsNoWord ==
  NL \notin ControlWords \cup DOMAIN Closing \cup DOMAIN EndQuote \cup Namers
<1>1. DOMAIN Closing \cup Namers \subseteq ControlWords
  BY DEF Closing, Namers, Naming, ControlWords
<1> QED  BY <1>1, CompilerAssumption

LEMMA OrderlyIsSound ==
  ASSUME NEW l \in Source, Orderly(l)
  PROVE  Sound(Append(l, NL)) /\ (Balanced(l) => Nested(Append(l, NL)))
<1> DEFINE s == Append(l, NL)
<1>1. /\ Len(l) \in Nat /\ Len(s) = Len(l) + 1
      /\ \A n \in 1 .. Len(l) : s[n] = l[n]
      /\ s[Len(s)] = NL /\ s[Len(l) + 1] = NL
  BY LenProperties, AppendProperties DEF Source
<1> HIDE DEF s
<1>2. ASSUME NEW n \in 0 .. Len(s)
      PROVE  \E m \in 0 .. Len(l) : /\ n = m \/ (n = m + 1 /\ n = Len(s))
                                    /\ \A w \in ControlWords : Opened(s, n, w) = Opened(l, m, w)
  <2>1. CASE n <= Len(l)
    <3>1. n \in Nat /\ n <= n /\ (n + 1) .. n = {} /\ \A k \in 1 .. n : s[k] = l[k]
      BY <1>1, <2>1
    <3>2. ASSUME NEW w
          PROVE  Opened(s, n, w) = Opened(l, n, w)
      BY <1>1, <3>1, OpenedSame, SMTT(30)
    <3> QED  BY <1>1, <2>1, <3>2
  <2>2. CASE n > Len(l)
    <3>1. n = Len(l) + 1
      BY <1>1, <2>2
    <3>2. ASSUME NEW w \in ControlWords
          PROVE  Opened(s, n, w) = Opened(l, Len(l), w)
      <4>1. w # NL
        BY NewlineIsNoWord
      <4> QED  BY <1>1, <3>1, <4>1, OpenedSame, SMTT(30)
    <3> QED  BY <1>1, <3>1, <3>2
  <2> QED  BY <1>1, <2>1, <2>2
<1>3. {"IF", "THEN", "ELSE", "DO", "LOOP", "BEGIN", "UNTIL", "AGAIN", ":", ";"} \subseteq ControlWords
  BY DEF ControlWords, StructureWords
<1>4. ASSUME NEW n \in 0 .. Len(s)
      PROVE  /\ Opened(s, n, "IF") - Opened(s, n, "THEN") \in {0, 1}
             /\ Balanced(l) => InOrder(s, n)
  BY <1>2, <1>3 DEF Balanced, Orderly, InOrder
<1>5. ASSUME NEW n \in 1 .. Len(s)
      PROVE  /\ s[n] \notin DOMAIN Closing \cup DOMAIN EndQuote
             /\ s[n] = "ELSE" => IfOpen(s, n)
             /\ s[n] \in {":", ";"} => ~IfOpen(s, n)
  <2>1. CASE n = Len(s)
    <3>1. s[n] = NL /\ NL \notin {"ELSE", ":", ";"}
      BY <1>1, <1>3, <2>1, NewlineIsNoWord
    <3> QED  BY <3>1, NewlineIsNoWord
  <2>2. CASE n # Len(s)
    <3>1. n \in 1 .. Len(l) /\ s[n] = l[n] /\ n \in Nat
      BY <1>1, <2>2
    <3>2. Opened(s, n, "IF") = Opened(l, n, "IF") /\ Opened(s, n, "THEN") = Opened(l, n, "THEN")
      <4>1. n <= n /\ (n + 1) .. n = {} /\ \A k \in 1 .. n : s[k] = l[k]
        BY <1>1, <3>1
      <4> QED  BY <3>1, <4>1, OpenedSame
    <3>3. Opened(l, n, "IF") \in Nat /\ Opened(l, n, "THEN") \in Nat
      BY <3>1, OpenedType
    <3>4. /\ l[n] = "ELSE" => Opened(l, n, "IF") > Opened(l, n, "THEN")
          /\ l[n] \in {":", ";"} => Opened(l, n, "IF") = Opened(l, n, "THEN")
          /\ l[n] \notin DOMAIN Closing \cup DOMAIN EndQuote
      BY <3>1 DEF Orderly
    <3>5. IfOpen(s, n) <=> Opened(l, n, "IF") > Opened(l, n, "THEN")
      BY <3>2 DEF IfOpen
    <3>6. s[n] \in {":", ";"} => ~IfOpen(s, n)
      <4>1. Opened(l, n, "IF") = Opened(l, n, "THEN") => ~IfOpen(s, n)
        BY <3>3, <3>5
      <4> QED  BY <3>1, <3>4, <4>1, Zenon
    <3> QED  BY <3>1, <3>4, <3>5, <3>6
  <2> QED  BY <2>1, <2>2
<1>6. ASSUME NEW n \in 1 .. (Len(s) - 1), s[n] \in Namers
      PROVE  s[n + 1] \notin ControlWords /\ (s[n + 1] # NL \/ n + 1 = Len(s))
  <2>1. CASE n = Len(l)
    BY <1>1, <2>1, NewlineIsNoWord
  <2>2. CASE n # Len(l)
    <3>1. n \in 1 .. (Len(l) - 1) /\ s[n] = l[n] /\ s[n + 1] = l[n + 1]
      BY <1>1, <2>2
    <3> QED  BY <1>6, <3>1 DEF Orderly, Namers
  <2> QED  BY <2>1, <2>2
<1> QED  BY <1>1, <1>4, <1>5, <1>6 DEF Sound, Nested, s

LEMMA OpenPair ==
  ASSUME NEW s, NEW n \in Nat, NEW x, NEW y, x # y,
         Opened(s, n, x) - Opened(s, n, y) \in {0, 1},
         Opened(s, n + 1, x) - Opened(s, n + 1, y) \in {0, 1}
  PROVE  /\ Opened(s, n + 1, x) > Opened(s, n + 1, y)
              <=> s[n + 1] = x \/ (s[n + 1] # y /\ Opened(s, n, x) > Opened(s, n, y))
         /\ s[n + 1] = y => Opened(s, n, x) > Opened(s, n, y)
<1> DEFINE a == Opened(s, n, x)
           b == Opened(s, n, y)
           w == s[n + 1]
<1>1. /\ a \in Nat /\ Opened(s, n + 1, x) = a + IF w = x THEN 1 ELSE 0
      /\ b \in Nat /\ Opened(s, n + 1, y) = b + IF w = y THEN 1 ELSE 0
  BY OpenedType, OpenedNext
<1> HIDE DEF a, b, w
<1>2. a - b \in {0, 1} /\ Opened(s, n + 1, x) - Opened(s, n + 1, y) \in {0, 1}
  BY DEF a, b
<1>3. /\ a + (IF w = x THEN 1 ELSE 0) > b + (IF w = y THEN 1 ELSE 0)
           <=> w = x \/ (w # y /\ a > b)
      /\ w = y => a > b
  BY <1>1, <1>2
<1> QED  BY <1>1, <1>3 DEF a, b, w

(* What the next word opens and closes.                                    *)
LEMMA IfAfter ==
  ASSUME NEW s, Len(s) \in Nat, Sound(s), NEW n \in Nat, n < Len(s)
  PROVE  LET w == s[n + 1]
         IN  /\ IfOpen(s, n + 1) <=> w = "IF" \/ (w # "THEN" /\ IfOpen(s, n))
             /\ w \in {"THEN", "ELSE"} => IfOpen(s, n)
             /\ w \in {":", ";"} => ~IfOpen(s, n)
<1> DEFINE w == s[n + 1]
<1>1. n \in 0 .. Len(s) /\ n + 1 \in 0 .. Len(s) /\ n + 1 \in 1 .. Len(s)
  OBVIOUS
<1>2. /\ Opened(s, n, "IF") - Opened(s, n, "THEN") \in {0, 1}
      /\ Opened(s, n + 1, "IF") - Opened(s, n + 1, "THEN") \in {0, 1}
  BY <1>1 DEF Sound
<1>3. /\ IfOpen(s, n + 1) <=> w = "IF" \/ (w # "THEN" /\ IfOpen(s, n))
      /\ w = "THEN" => IfOpen(s, n)
  BY <1>2, OpenPair DEF IfOpen
<1>4. /\ w = "ELSE" => IfOpen(s, n + 1)
      /\ w \in {":", ";"} => ~IfOpen(s, n + 1)
  BY <1>1 DEF Sound
<1> HIDE DEF w
<1> QED  BY <1>3, <1>4 DEF w

LEMMA LoopAfter ==
  ASSUME NEW s, Len(s) \in Nat, Nested(s), NEW n \in Nat, n < Len(s)
  PROVE  LET w == s[n + 1]
         IN  /\ DoOpen(s, n + 1) <=> w = "DO" \/ (w # "LOOP" /\ DoOpen(s, n))
             /\ BeginOpen(s, n + 1) <=> w = "BEGIN" \/ (w \notin {"UNTIL", "AGAIN"} /\ BeginOpen(s, n))
             /\ ColonOpen(s, n + 1) <=> w = ":" \/ (w # ";" /\ ColonOpen(s, n))
             /\ w = "LOOP" => DoOpen(s, n)
             /\ w \in {"UNTIL", "AGAIN"} => BeginOpen(s, n)
             /\ w = ";" => ColonOpen(s, n)
<1> DEFINE w == s[n + 1]
<1>1. ASSUME NEW v
      PROVE  /\ Opened(s, n, v) \in Nat
             /\ Opened(s, n + 1, v) = Opened(s, n, v) + IF w = v THEN 1 ELSE 0
  BY OpenedType, OpenedNext
<1>2. InOrder(s, n) /\ InOrder(s, n + 1)
  <2>1. n \in 0 .. Len(s) /\ n + 1 \in 0 .. Len(s)
    OBVIOUS
  <2> QED  BY <2>1 DEF Nested
<1> HIDE DEF w
<1>3. /\ DoOpen(s, n + 1) <=> w = "DO" \/ (w # "LOOP" /\ DoOpen(s, n))
      /\ w = "LOOP" => DoOpen(s, n)
  BY <1>2, OpenPair DEF InOrder, DoOpen, w
<1>4. /\ BeginOpen(s, n + 1) <=> w = "BEGIN" \/ (w \notin {"UNTIL", "AGAIN"} /\ BeginOpen(s, n))
      /\ w \in {"UNTIL", "AGAIN"} => BeginOpen(s, n)
  <2> DEFINE a == Opened(s, n, "BEGIN")
             b == Opened(s, n, "UNTIL")
             c == Opened(s, n, "AGAIN")
  <2>1. /\ a \in Nat /\ Opened(s, n + 1, "BEGIN") = a + IF w = "BEGIN" THEN 1 ELSE 0
        /\ b \in Nat /\ Opened(s, n + 1, "UNTIL") = b + IF w = "UNTIL" THEN 1 ELSE 0
        /\ c \in Nat /\ Opened(s, n + 1, "AGAIN") = c + IF w = "AGAIN" THEN 1 ELSE 0
    BY <1>1
  <2>2. /\ a - b - c \in {0, 1}
        /\ Opened(s, n + 1, "BEGIN") - Opened(s, n + 1, "UNTIL") - Opened(s, n + 1, "AGAIN") \in {0, 1}
    BY <1>2 DEF InOrder
  <2> HIDE DEF a, b, c
  <2>3. /\ a + (IF w = "BEGIN" THEN 1 ELSE 0)
             > b + (IF w = "UNTIL" THEN 1 ELSE 0) + (c + IF w = "AGAIN" THEN 1 ELSE 0)
             <=> w = "BEGIN" \/ (w \notin {"UNTIL", "AGAIN"} /\ a > b + c)
        /\ w \in {"UNTIL", "AGAIN"} => a > b + c
    BY <2>1, <2>2
  <2> QED  BY <2>1, <2>3 DEF BeginOpen, a, b, c
<1>5. /\ ColonOpen(s, n + 1) <=> w = ":" \/ (w # ";" /\ ColonOpen(s, n))
      /\ w = ";" => ColonOpen(s, n)
  BY <1>2, OpenPair DEF InOrder, ColonOpen, w
<1> QED  BY <1>3, <1>4, <1>5 DEF w
-----------------------------------------------------------------------------
(***************************************************************************)
(* The place the parser has reached: what is left of a source is one of    *)
(* its ends, and strtok goes over newlines only.                           *)
(***************************************************************************)
Rest(s, n) == SubSeq(s, n + 1, Len(s))

LEMMA RestProperties ==
  ASSUME NEW s \in Source, NEW n \in 0 .. Len(s)
  PROVE  /\ Len(s) \in Nat
         /\ Rest(s, n) \in Source
         /\ Len(Rest(s, n)) = Len(s) - n
         /\ Rest(s, n) = << >> <=> n = Len(s)
         /\ n < Len(s) => Head(Rest(s, n)) = s[n + 1]
<1>1. Len(s) \in Nat /\ \A i \in 1 .. Len(s) : s[i] \in Words \cup {NL}
  BY LenProperties, ElementOfSeq DEF Source
<1>2. n + 1 \in Int /\ Len(s) \in Int /\ \A i \in (n + 1) .. Len(s) : s[i] \in Words \cup {NL}
  BY <1>1
<1>3. Rest(s, n) \in Source /\ Len(Rest(s, n)) = IF n + 1 <= Len(s) THEN Len(s) - (n + 1) + 1 ELSE 0
  BY <1>2, SubSeqProperties DEF Rest, Source
<1>4. Len(Rest(s, n)) = Len(s) - n
  BY <1>1, <1>3
<1>5. Rest(s, n) = << >> <=> n = Len(s)
  BY <1>1, <1>3, <1>4, EmptySeq DEF Source
<1>6. ASSUME n < Len(s)
      PROVE  Head(Rest(s, n)) = s[n + 1]
  <2>1. n + 1 \in 1 .. Len(s) /\ Len(s) \in (n + 1) .. Len(s)
    BY <1>1, <1>6
  <2> QED  BY <2>1, HeadTailOfSubSeq DEF Rest, Source
<1> QED  BY <1>1, <1>3, <1>4, <1>5, <1>6

LEMMA StrtokSkips ==
  ASSUME NEW s \in Source
  PROVE  \E m \in 0 .. Len(s) : /\ strtok(s) = Rest(s, m)
                                /\ \A k \in 1 .. m : s[k] = NL
                                /\ m < Len(s) => s[m + 1] \in Words
<1> DEFINE k == FirstIn(Words, s, 1)
<1>1. Len(s) \in Nat /\ \A i \in 1 .. Len(s) : s[i] \in Words \cup {NL}
  BY LenProperties, ElementOfSeq DEF Source
<1>2. CASE k = 0
  <2>1. \A i \in 1 .. Len(s) : s[i] = NL
    <3>1. \/ \A i \in 1 .. Len(s) : s[i] \notin Words
          \/ k \in 1 .. Len(s)
      BY <1>1, FirstInRange
    <3> HIDE DEF k
    <3>2. k \notin 1 .. Len(s)
      BY <1>2
    <3> QED  BY <1>1, <3>1, <3>2
  <2>2. strtok(s) = << >>
    BY <1>2 DEF strtok
  <2>3. Rest(s, Len(s)) = << >>
    BY <1>1, SubSeqEmpty DEF Rest
  <2> QED  BY <1>1, <2>1, <2>2, <2>3
<1>3. CASE k # 0
  <2>1. k \in 1 .. Len(s) /\ s[k] \in Words /\ \A i \in 1 .. (k - 1) : s[i] \notin Words
    BY <1>1, <1>3, FirstInRange
  <2>2. strtok(s) = SubSeq(s, k, Len(s))
    BY <1>3 DEF strtok
  <2> HIDE DEF k
  <2>3. k - 1 \in 0 .. Len(s) /\ (k - 1) + 1 = k
    BY <1>1, <2>1
  <2>4. strtok(s) = Rest(s, k - 1)
    BY <2>2, <2>3 DEF Rest
  <2>5. \A i \in 1 .. (k - 1) : s[i] = NL
    BY <1>1, <2>1
  <2> QED  BY <2>1, <2>3, <2>4, <2>5
<1> QED  BY <1>2, <1>3

LEMMA NextRest ==
  ASSUME NEW s \in Source, NEW n \in Nat, n < Len(s)
  PROVE  \E m \in (n + 1) .. Len(s) : /\ strtok(Tail(Rest(s, n))) = Rest(s, m)
                                      /\ \A k \in (n + 2) .. m : s[k] = NL
                                      /\ m < Len(s) => s[m + 1] \in Words
<1> DEFINE t == Rest(s, n + 1)
<1>1. Len(s) \in Nat /\ n + 1 \in 0 .. Len(s) /\ n + 1 \in 1 .. Len(s) /\ Len(s) \in (n + 1) .. Len(s)
  BY RestProperties
<1>2. Tail(Rest(s, n)) = t
  BY <1>1, HeadTailOfSubSeq DEF Rest, Source
<1>3. t \in Source /\ Len(t) = Len(s) - (n + 1)
  BY <1>1, RestProperties
<1>4. \A i \in 1 .. Len(t) : t[i] = s[n + 1 + i]
  <2>1. n + 2 \in Int /\ Len(s) \in Int /\ \A i \in (n + 2) .. Len(s) : s[i] \in Words \cup {NL}
    BY <1>1, LenProperties, ElementOfSeq DEF Source
  <2>2. \A i \in 1 .. (Len(s) - (n + 2) + 1) : SubSeq(s, n + 2, Len(s))[i] = s[n + 2 + i - 1]
    BY <2>1, SubSeqProperties
  <2>3. t = SubSeq(s, n + 2, Len(s))
    BY DEF Rest
  <2>4. \A i \in 1 .. Len(t) : i \in 1 .. (Len(s) - (n + 2) + 1) /\ n + 2 + i - 1 = n + 1 + i
    <3> HIDE DEF t
    <3> QED  BY <1>1, <1>3
  <2> HIDE DEF t
  <2> QED  BY <2>2, <2>3, <2>4
<1> HIDE DEF t
<1>5. PICK j \in 0 .. Len(t) : /\ strtok(t) = Rest(t, j)
                               /\ \A k \in 1 .. j : t[k] = NL
                               /\ j < Len(t) => t[j + 1] \in Words
  BY <1>3, StrtokSkips
<1> DEFINE m == n + 1 + j
<1>6. m \in (n + 1) .. Len(s) /\ m \in 0 .. Len(s)
  BY <1>1, <1>3, <1>5
<1>7. Rest(t, j) = Rest(s, m)
  <2>1. CASE j = Len(t)
    <3>1. m = Len(s)
      BY <1>1, <1>3, <2>1
    <3> QED  BY <1>3, <1>5, <1>6, <2>1, <3>1, RestProperties
  <2>2. CASE j # Len(t)
    <3>1. /\ n + 2 \in 1 .. Len(s) /\ Len(s) \in 1 .. Len(s)
          /\ j + 1 \in 1 .. Len(s) - (n + 2) + 1
          /\ Len(t) \in 1 .. Len(s) - (n + 2) + 1
      BY <1>1, <1>3, <1>5, <2>2
    <3>2. SubSeq(SubSeq(s, n + 2, Len(s)), j + 1, Len(t))
            = SubSeq(s, (n + 2) + (j + 1) - 1, (n + 2) + Len(t) - 1)
      BY <3>1, SubSeqOfSubSeq DEF Source
    <3>3. t = SubSeq(s, n + 2, Len(s))
      BY DEF Rest, t
    <3>4. (n + 2) + (j + 1) - 1 = m + 1 /\ (n + 2) + Len(t) - 1 = Len(s)
      BY <1>1, <1>3, <1>5
    <3> QED  BY <3>2, <3>3, <3>4 DEF Rest
  <2> QED  BY <2>1, <2>2
<1>8. ASSUME NEW k \in (n + 2) .. m
      PROVE  s[k] = NL
  <2>1. k - (n + 1) \in 1 .. j /\ k - (n + 1) \in 1 .. Len(t) /\ n + 1 + (k - (n + 1)) = k
    BY <1>1, <1>3, <1>5
  <2> QED  BY <1>4, <1>5, <2>1
<1>9. ASSUME m < Len(s)
      PROVE  s[m + 1] \in Words
  <2>1. j < Len(t) /\ j + 1 \in 1 .. Len(t) /\ n + 1 + (j + 1) = m + 1
    BY <1>1, <1>3, <1>5, <1>9
  <2> QED  BY <1>4, <1>5, <2>1
<1> QED  BY <1>2, <1>5, <1>6, <1>7, <1>8, <1>9
-----------------------------------------------------------------------------
(***************************************************************************)
(* The invariant: while an orderly line is parsed, the IF it has open can  *)
(* be completed, and so can its loops and definitions when it is balanced. *)
(* IF and ELSE are open in the program being compiled, which is not empty  *)
(* then: ELSE is never its first token.  A balanced line has a program to  *)
(* compile into at every word: the NULL that an earlier surplus ";" has    *)
(* left lies below what the line itself pushes, and it pops no more than   *)
(* that.  The name after ":" or VARIABLE is no control word, so it neither *)
(* opens nor closes.                                                       *)
(***************************************************************************)
All == Append(Top(session), NL)
Read == Len(All) - Len(line)

PlaceInv == session # << >> /\ Read \in 0 .. Len(All) /\ line = Rest(All, Read)

StateInv ==
  /\ state \in {"EXPECTING_ANY", "COLON_EXPECTING_NAME"} \cup {Naming[w] : w \in DOMAIN Naming}
  /\ state # "EXPECTING_ANY" /\ line # << >> =>
       /\ Read \in 1 .. (Len(All) - 1) /\ All[Read] \in Namers
       /\ state = "COLON_EXPECTING_NAME" => All[Read] = ":"

StructInv ==
  /\ IfOpen(All, Read) => Completable /\ current_PROG # NoProgram /\ npcp_array > 0
  /\ Balanced(Top(session)) =>
       /\ current_PROG # NoProgram
       /\ DoOpen(All, Read) => current_DO \notin Nowhere
       /\ BeginOpen(All, Read) => current_BEGIN \notin Nowhere
       /\ ColonOpen(All, Read) /\ state # "COLON_EXPECTING_NAME" =>
            program_stack # << >> /\ Top(program_stack) # NoProgram

LineInv == status = "parse" /\ Orderly(Top(session)) => PlaceInv /\ StateInv /\ StructInv

LEMMA AllIsSound ==
  ASSUME SessionInv, session # << >>
  PROVE  /\ All \in Source /\ Len(All) \in Nat
         /\ Orderly(Top(session)) => Sound(All)
         /\ Balanced(Top(session)) => Orderly(Top(session)) /\ Nested(All)
<1>1. Top(session) \in Source
  BY TopType DEF SessionInv
<1>2. All \in Source
  BY <1>1, AppendProperties DEF All, Source
<1>3. Len(All) \in Nat
  BY <1>2, LenProperties DEF Source
<1> QED  BY <1>1, <1>2, <1>3, OrderlyIsSound DEF All, Balanced

LEMMA CurrentWord ==
  ASSUME SessionInv, PlaceInv, line # << >>
  PROVE  /\ Read \in Nat /\ Read < Len(All)
         /\ Head(line) = All[Read + 1]
<1>1. All \in Source /\ Len(All) \in Nat
  BY AllIsSound DEF PlaceInv
<1>2. PICK n : n = Read
  OBVIOUS
<1>3. n \in 0 .. Len(All) /\ line = Rest(All, n)
  BY <1>2 DEF PlaceInv
<1>4. n # Len(All)
  BY <1>1, <1>3, RestProperties
<1>5. Head(line) = All[n + 1]
  <2>1. n < Len(All)
    BY <1>1, <1>3, <1>4
  <2>2. Head(Rest(All, n)) = All[n + 1]
    BY <1>1, <1>3, <2>1, RestProperties
  <2> QED  BY <1>3, <2>2
<1> QED  BY <1>1, <1>2, <1>3, <1>4, <1>5

(* What is open once the current word has been read.                       *)
LEMMA WordRead ==
  ASSUME SessionInv, Orderly(Top(session)), PlaceInv, line # << >>, NextWord, session' = session
  PROVE  LET w == Head(line)
         IN  /\ PlaceInv'
             /\ IfOpen(All, Read)' <=> w = "IF" \/ (w # "THEN" /\ IfOpen(All, Read))
             /\ Balanced(Top(session)) =>
                  /\ DoOpen(All, Read)' <=> w = "DO" \/ (w # "LOOP" /\ DoOpen(All, Read))
                  /\ BeginOpen(All, Read)' <=>
                       w = "BEGIN" \/ (w \notin {"UNTIL", "AGAIN"} /\ BeginOpen(All, Read))
                  /\ ColonOpen(All, Read)' <=> w = ":" \/ (w # ";" /\ ColonOpen(All, Read))
             /\ w \in Namers /\ line' # << >> =>
                  /\ Read' \in 1 .. (Len(All) - 1) /\ All' = All
                  /\ All[Read'] = w
<1> DEFINE w == Head(line)
           n == Read
<1>1. /\ All \in Source /\ Len(All) \in Nat /\ Sound(All) /\ All' = All /\ session' # << >>
      /\ Balanced(Top(session)) => Nested(All)
  BY AllIsSound DEF PlaceInv, All
<1>2. n \in Nat /\ n < Len(All) /\ n \in 0 .. Len(All) /\ w = All[n + 1]
  BY <1>1, CurrentWord DEF PlaceInv
<1>3. PICK m \in (n + 1) .. Len(All) : /\ strtok(Tail(line)) = Rest(All, m)
                                       /\ \A k \in (n + 2) .. m : All[k] = NL
                                       /\ m < Len(All) => All[m + 1] \in Words
  <2>1. line = Rest(All, n)
    BY DEF PlaceInv
  <2> HIDE DEF n
  <2> QED  BY <1>1, <1>2, <2>1, NextRest
<1>4. line' = Rest(All, m) /\ m \in 0 .. Len(All)
  BY <1>1, <1>2, <1>3 DEF NextWord
<1>5. Read' = m
  <2>1. Len(line') = Len(All) - m
    BY <1>1, <1>4, RestProperties
  <2> QED  BY <1>1, <1>4, <2>1 DEF Read
<1>6. PlaceInv'
  BY <1>1, <1>4, <1>5 DEF PlaceInv
<1> HIDE DEF n, w
<1>7. ASSUME NEW v \in ControlWords
      PROVE  Opened(All, m, v) = Opened(All, n + 1, v)
  <2>1. v # NL
    BY NewlineIsNoWord
  <2>2. /\ n + 1 \in Nat /\ m \in Nat /\ n + 1 <= m
        /\ \A k \in (n + 1 + 1) .. m : All[k] # v
    BY <1>2, <1>3, <2>1
  <2> QED  BY <2>2, OpenedSame
<1>8. {"IF", "THEN", "DO", "LOOP", "BEGIN", "UNTIL", "AGAIN", ":", ";"} \subseteq ControlWords
  BY DEF ControlWords, StructureWords
<1>9. /\ IfOpen(All, m) <=> IfOpen(All, n + 1)
      /\ DoOpen(All, m) <=> DoOpen(All, n + 1)
      /\ BeginOpen(All, m) <=> BeginOpen(All, n + 1)
      /\ ColonOpen(All, m) <=> ColonOpen(All, n + 1)
  BY <1>7, <1>8 DEF IfOpen, DoOpen, BeginOpen, ColonOpen
<1>10. ASSUME w \in Namers, line' # << >>
       PROVE  m = n + 1 /\ m \in 1 .. (Len(All) - 1)
  <2>1. m # Len(All)
    BY <1>1, <1>4, <1>10, RestProperties
  <2>2. m < Len(All) /\ All[m + 1] \in Words /\ n + 1 \in 1 .. (Len(All) - 1)
    BY <1>1, <1>2, <1>3, <2>1
  <2>3. All[n + 2] # NL \/ n + 2 = Len(All)
    <3>1. All[n + 1] \in Namers /\ (n + 1) + 1 = n + 2
      BY <1>2, <1>10
    <3> QED  BY <1>1, <2>2, <3>1 DEF Sound
  <2>4. m < n + 2
    BY <1>1, <1>2, <1>3, <2>2, <2>3
  <2> QED  BY <1>1, <1>2, <1>3, <2>2, <2>4
<1>11. /\ IfOpen(All, n + 1) <=> w = "IF" \/ (w # "THEN" /\ IfOpen(All, n))
       /\ Balanced(Top(session)) =>
            /\ DoOpen(All, n + 1) <=> w = "DO" \/ (w # "LOOP" /\ DoOpen(All, n))
            /\ BeginOpen(All, n + 1) <=> w = "BEGIN" \/ (w \notin {"UNTIL", "AGAIN"} /\ BeginOpen(All, n))
            /\ ColonOpen(All, n + 1) <=> w = ":" \/ (w # ";" /\ ColonOpen(All, n))
  BY <1>1, <1>2, IfAfter, LoopAfter
<1> QED  BY <1>1, <1>2, <1>5, <1>6, <1>9, <1>10, <1>11, Zenon DEF n, w

(* What is open when the current word is taken up.                         *)
LEMMA WordFits ==
  ASSUME SessionInv, Orderly(Top(session)), PlaceInv, StateInv, line # << >>
  PROVE  LET w == Head(line)
         IN  /\ w \notin DOMAIN Closing \cup DOMAIN EndQuote
             /\ w \in {"THEN", "ELSE"} => IfOpen(All, Read)
             /\ Balanced(Top(session)) =>
                  /\ w = "LOOP" => DoOpen(All, Read)
                  /\ w \in {"UNTIL", "AGAIN"} => BeginOpen(All, Read)
                  /\ w = ";" => ColonOpen(All, Read)
             /\ w \in {":", ";"} => ~IfOpen(All, Read)
             /\ state # "EXPECTING_ANY" => w \notin ControlWords
             /\ state = "COLON_EXPECTING_NAME" => ~IfOpen(All, Read)
<1> DEFINE w == Head(line)
           n == Read
<1>1. /\ Len(All) \in Nat /\ Sound(All) /\ All \in Source
      /\ Balanced(Top(session)) => Nested(All)
  BY AllIsSound DEF PlaceInv
<1>2. n \in Nat /\ n < Len(All) /\ w = All[n + 1] /\ n + 1 \in 1 .. Len(All)
  BY <1>1, CurrentWord
<1>3. state # "EXPECTING_ANY" => /\ n \in 1 .. (Len(All) - 1) /\ All[n] \in Namers
                                 /\ state = "COLON_EXPECTING_NAME" => All[n] = ":"
  BY DEF StateInv
<1> HIDE DEF n, w
<1>4. w \notin DOMAIN Closing \cup DOMAIN EndQuote
  BY <1>1, <1>2 DEF Sound
<1>5. /\ w \in {"THEN", "ELSE"} => IfOpen(All, n)
      /\ Balanced(Top(session)) =>
           /\ w = "LOOP" => DoOpen(All, n)
           /\ w \in {"UNTIL", "AGAIN"} => BeginOpen(All, n)
           /\ w = ";" => ColonOpen(All, n)
      /\ w \in {":", ";"} => ~IfOpen(All, n)
  BY <1>1, <1>2, IfAfter, LoopAfter
<1>6. state # "EXPECTING_ANY" => w \notin ControlWords
  BY <1>1, <1>2, <1>3 DEF Sound
<1>7. state = "COLON_EXPECTING_NAME" => ~IfOpen(All, n)
  <2>1. ":" \in {":", ";"} /\ "COLON_EXPECTING_NAME" # "EXPECTING_ANY"
    BY Zenon
  <2>2. state = "COLON_EXPECTING_NAME" => n \in 1 .. Len(All) /\ All[n] = ":"
    BY <1>1, <1>3
  <2> QED  BY <1>1, <2>1, <2>2 DEF Sound
<1> QED  BY <1>4, <1>5, <1>6, <1>7 DEF n, w
-----------------------------------------------------------------------------
(***************************************************************************)
(* The words.                                                              *)
(***************************************************************************)
Settles == status' = "parse" => PlaceInv' /\ StateInv' /\ StructInv'
Survives == Balanced(Top(session)) /\ status' \in Dead => program_Stack_top' > ProgStack

(* An IF or ELSE stays what it is when a token is appended.                *)
LEMMA CompletableKept ==
  ASSUME HeapInv, OpenInv, current_PROG \in Programs, Completable, npcp_array > 0,
         UNCHANGED <<current_IF, current_PROG>>,
         \/ heap' = heap
         \/ \E tok \in Tokens : (tok.op = "DICT" => tok.val \in Programs) /\ Emit(tok)
  PROVE  Completable' /\ npcp_array' > 0
<1>1. CASE heap' = heap
  BY <1>1 DEF Completable, Deref, npcp_array
<1>2. CASE heap' # heap
  <2>1. PICK tok \in Tokens : (tok.op = "DICT" => tok.val \in Programs) /\ Emit(tok)
    BY <1>2
  <2>2. /\ \A p \in Programs : p # current_PROG => heap'[p] = heap[p]
        /\ Len(heap'[current_PROG]) = npcp_array + 1
        /\ \A i \in 1 .. npcp_array : heap'[current_PROG][i] = heap[current_PROG][i]
    BY <2>1, EmitHeap
  <2>3. /\ current_IF[1] \in Programs /\ current_IF[2] \in 1 .. Len(heap[current_IF[1]])
        /\ npcp_array \in Nat
    BY HeapFacts DEF OpenInv, JumpIn, PointerIn, Completable, Nowhere, Programs, npcp_array
  <2>4. Deref(current_IF)' = Deref(current_IF)
    BY <2>2, <2>3 DEF Deref, npcp_array
  <2>5. npcp_array' = npcp_array + 1
    BY <2>2 DEF npcp_array
  <2> QED  BY <2>3, <2>4, <2>5 DEF Completable
<1> QED  BY <1>1, <1>2

(* A word that opens and closes nothing.                                   *)
LEMMA PlainWord ==
  ASSUME TypeInv, Orderly(Top(session)), PlaceInv, StateInv, StructInv,
         line # << >>, status = "parse", NextWord, session' = session,
         Head(line) \notin {"IF", "THEN", "DO", "LOOP", "BEGIN", "UNTIL", "AGAIN", ":", ";"},
         UNCHANGED <<openVars, current_PROG, program_stack, program_Stack_top>>,
         \/ state' = "EXPECTING_ANY" /\ state # "COLON_EXPECTING_NAME"
         \/ /\ Head(line) \in DOMAIN Naming /\ state' = Naming[Head(line)]
            /\ state # "COLON_EXPECTING_NAME",
         \/ heap' = heap
         \/ \E tok \in Tokens : (tok.op = "DICT" => tok.val \in Programs) /\ Emit(tok)
  PROVE  Settles
<1>1. /\ PlaceInv'
      /\ IfOpen(All, Read)' <=> IfOpen(All, Read)
      /\ Balanced(Top(session)) =>
           /\ DoOpen(All, Read)' <=> DoOpen(All, Read)
           /\ BeginOpen(All, Read)' <=> BeginOpen(All, Read)
           /\ ColonOpen(All, Read)' <=> ColonOpen(All, Read)
      /\ Head(line) \in Namers /\ line' # << >> =>
           Read' \in 1 .. (Len(All) - 1) /\ All' = All /\ All[Read'] = Head(line)
  BY WordRead, Zenon DEF TypeInv
<1>2. /\ HeapInv /\ OpenInv
      /\ IfOpen(All, Read) => current_PROG \in Programs
  BY DEF TypeInv, ReaderInv, Interruptible, StructInv
<1>3. StateInv'
  <2>1. \A w \in DOMAIN Naming : Naming[w] # "EXPECTING_ANY" /\ Naming[w] # "COLON_EXPECTING_NAME"
    BY DEF Naming
  <2> QED  BY <1>1, <2>1, Zenon DEF StateInv, Namers
<1>4. IfOpen(All, Read)' => Completable' /\ npcp_array' > 0
  BY <1>1, <1>2, CompletableKept DEF StructInv, openVars
<1>5. StructInv'
  BY <1>1, <1>4 DEF StructInv, openVars
<1> QED  BY <1>1, <1>3, <1>5 DEF Settles

(* IF and ELSE are entered in current_IF.  An ELSE that carries the offset *)
(* 0 would not do: THEN takes it for an IF (compiler.c).                   *)
LEMMA ConditionalWord ==
  ASSUME TypeInv, Orderly(Top(session)), PlaceInv, StateInv, StructInv, session' = session,
         if_create \/ else_create
  PROVE  Settles
<1>1. /\ status = "parse" /\ state = "EXPECTING_ANY" /\ line # << >> /\ current_PROG \in Programs
      /\ current_PROG # NoProgram /\ Head(line) \in {"IF", "ELSE"}
      /\ NextWord /\ UNCHANGED <<settled, current_DO, current_BEGIN>> /\ current_IF' = Here
      /\ Emit(smtok(Head(line), npcp_array))
  BY CompilingIntoProgram DEF if_create, else_create, Compiling, Parsing, Given
<1>2. HeapInv /\ npcp_array \in Nat
  BY <1>1, HeapFacts DEF TypeInv, npcp_array
<1>3. /\ smtok(Head(line), npcp_array) \in Tokens
      /\ smtok(Head(line), npcp_array).op = Head(line)
      /\ smtok(Head(line), npcp_array).val = npcp_array
  BY <1>1, <1>2, SmtokType, KindsAreOps
<1>4. /\ heap'[current_PROG][npcp_array + 1] = smtok(Head(line), npcp_array)
      /\ Len(heap'[current_PROG]) = npcp_array + 1
  BY <1>1, <1>2, <1>3, EmitHeap, KindsAreOps
<1>5. /\ PlaceInv'
      /\ Balanced(Top(session)) =>
           /\ DoOpen(All, Read)' <=> DoOpen(All, Read)
           /\ BeginOpen(All, Read)' <=> BeginOpen(All, Read)
           /\ ColonOpen(All, Read)' <=> ColonOpen(All, Read)
  BY <1>1, WordRead, Zenon DEF TypeInv
<1>6. Head(line) = "IF" \/ npcp_array > 0
  BY <1>1, WordFits DEF TypeInv, StructInv
<1>7. Completable' /\ npcp_array' > 0
  <2>1. current_PROG' = current_PROG /\ current_IF'[1] = current_PROG /\ current_IF'[2] = npcp_array + 1
    BY <1>1 DEF settled, Here
  <2>2. Deref(current_IF)' = smtok(Head(line), npcp_array)
    BY <1>4, <2>1 DEF Deref
  <2>3. current_IF' \notin {Null, Wild}
    BY <1>1, <2>1 DEF Null, Wild, Programs
  <2>4. Completable'
    BY <1>2, <1>3, <1>6, <2>2, <2>3 DEF Completable
  <2> QED  BY <1>2, <1>4, <2>1, <2>4 DEF npcp_array
<1>8. StateInv'
  BY <1>1, <1>5 DEF StateInv, settled
<1>9. StructInv'
  BY <1>1, <1>5, <1>7 DEF StructInv, settled
<1> QED  BY <1>5, <1>8, <1>9 DEF Settles

(* THEN finds an IF or ELSE that it can complete.                          *)
LEMMA ThenWord ==
  ASSUME TypeInv, Orderly(Top(session)), PlaceInv, StateInv, StructInv, session' = session,
         then_create
  PROVE  Survives /\ Settles
<1>1. status = "parse" /\ state = "EXPECTING_ANY" /\ line # << >> /\ Head(line) = "THEN"
  BY DEF then_create, Compiling, Parsing, Given
<1>2. Completable
  BY <1>1, WordFits DEF TypeInv, StructInv
<1>3. NextWord /\ UNCHANGED <<state, current_PROG, program_stack, current_DO, current_BEGIN>>
  BY <1>2 DEF then_create, settled
<1>4. /\ PlaceInv'
      /\ ~IfOpen(All, Read)'
      /\ Balanced(Top(session)) =>
           /\ DoOpen(All, Read)' <=> DoOpen(All, Read)
           /\ BeginOpen(All, Read)' <=> BeginOpen(All, Read)
           /\ ColonOpen(All, Read)' <=> ColonOpen(All, Read)
  <2>1. "THEN" \notin {"IF", "DO", "LOOP", "BEGIN", "UNTIL", "AGAIN", ":", ";"}
    BY Zenon
  <2> QED  BY <1>1, <1>3, <2>1, WordRead, Zenon DEF TypeInv
<1>5. StateInv'
  BY <1>1, <1>3 DEF StateInv
<1>6. StructInv'
  BY <1>3, <1>4 DEF StructInv
<1> QED  BY <1>1, <1>3, <1>4, <1>5, <1>6 DEF Survives, Dead, Settles, NextWord

(* DO, BEGIN, LOOP, AGAIN and UNTIL.                                       *)
LEMMA LoopWord ==
  ASSUME TypeInv, Orderly(Top(session)), PlaceInv, StateInv, StructInv, session' = session,
         do_create \/ loop_create \/ begin_create \/ again_create \/ until_create
  PROVE  Survives /\ Settles
<1> DEFINE w == Head(line)
           Compiled(v) ==
             /\ Emit(smtok(w, v)) /\ NextWord
             /\ UNCHANGED <<state, current_PROG, program_stack, current_IF>>
             /\ IF w \in {"DO", "LOOP"}
                THEN current_BEGIN' = current_BEGIN /\ (w = "DO" => current_DO' = Here)
                ELSE current_DO' = current_DO /\ (w = "BEGIN" => current_BEGIN' = Here)
<1>1. /\ status = "parse" /\ state = "EXPECTING_ANY" /\ line # << >> /\ current_PROG \in Programs
      /\ w \in {"DO", "LOOP", "BEGIN", "AGAIN", "UNTIL"}
      /\ current_PROG \in Programs
  BY CompilingIntoProgram
  DEF do_create, loop_create, begin_create, again_create, until_create, BackTo, Parsing, Given
<1>2. HeapInv /\ OpenInv /\ npcp_array \in Nat
  BY <1>1, HeapFacts DEF TypeInv, npcp_array
<1>3. Balanced(Top(session)) =>
        /\ w = "LOOP" => current_DO \notin Nowhere
        /\ w \in {"AGAIN", "UNTIL"} => current_BEGIN \notin Nowhere
  BY <1>1, WordFits DEF TypeInv, StructInv
<1>4. \/ \E v \in Int : Compiled(v)
      \/ status' = "crashed" /\ ~Balanced(Top(session))
  <2>1. CASE do_create
    <3>1. w = "DO" /\ npcp_array + 1 \in Int
      BY <1>2, <2>1 DEF do_create, Compiling, Parsing
    <3> QED  BY <2>1, <3>1 DEF do_create, settled
  <2>2. CASE begin_create
    <3>1. w = "BEGIN" /\ npcp_array + 1 \in Int
      BY <1>2, <2>2 DEF begin_create, Compiling, Parsing
    <3> QED  BY <2>2, <3>1 DEF begin_create, settled
  <2>3. CASE loop_create
    <3>1. w = "LOOP"
      BY <2>3 DEF loop_create, Compiling, Parsing
    <3>2. CASE MayFault(current_DO) /\ Crash
      BY <1>3, <3>1, <3>2 DEF MayFault, Nowhere, Crash
    <3>3. CASE ~(MayFault(current_DO) /\ Crash)
      <4>1. Readable(current_DO) /\ Emit(smtok("LOOP", ijump(current_DO))) /\ NextWord
            /\ UNCHANGED <<settled, current_IF, current_BEGIN>>
        BY <2>3, <3>3 DEF loop_create
      <4>2. ijump(current_DO) \in Int
        BY <1>2, <4>1, IjumpType DEF OpenInv
      <4> QED  BY <3>1, <4>1, <4>2 DEF settled
    <3> QED  BY <3>2, <3>3
  <2>4. ASSUME NEW v \in {"AGAIN", "UNTIL"}, BackTo(v)
        PROVE  \/ \E i \in Int : Compiled(i)
               \/ status' = "crashed" /\ ~Balanced(Top(session))
    <3>1. w = v
      BY <2>4 DEF BackTo, Compiling, Parsing
    <3>2. CASE MayFault(current_BEGIN) /\ Crash
      BY <1>3, <3>1, <3>2 DEF MayFault, Nowhere, Crash
    <3>3. CASE ~(MayFault(current_BEGIN) /\ Crash)
      <4>1. Readable(current_BEGIN) /\ Emit(smtok(w, ijump(current_BEGIN))) /\ NextWord
            /\ UNCHANGED <<settled, current_IF, current_DO>>
        BY <2>4, <3>1, <3>3 DEF BackTo
      <4>2. ijump(current_BEGIN) \in Int
        BY <1>2, <4>1, IjumpType DEF OpenInv
      <4> QED  BY <2>4, <3>1, <4>1, <4>2 DEF settled
    <3> QED  BY <3>2, <3>3
  <2> QED  BY <2>1, <2>2, <2>3, <2>4 DEF again_create, until_create
<1>5. SUFFICES ASSUME NEW v \in Int, Compiled(v)
               PROVE  Survives /\ Settles
  BY <1>4 DEF Survives, Settles
<1>6. smtok(w, v) \in Tokens /\ smtok(w, v).op # "DICT"
  BY <1>1, SmtokType, KindsAreOps
<1>7. /\ PlaceInv'
      /\ IfOpen(All, Read)' <=> IfOpen(All, Read)
      /\ Balanced(Top(session)) =>
           /\ DoOpen(All, Read)' <=> w = "DO" \/ (w # "LOOP" /\ DoOpen(All, Read))
           /\ BeginOpen(All, Read)' <=>
                w = "BEGIN" \/ (w \notin {"UNTIL", "AGAIN"} /\ BeginOpen(All, Read))
           /\ ColonOpen(All, Read)' <=> ColonOpen(All, Read)
  <2>1. w \notin {"IF", "THEN", ":", ";"}
    BY <1>1, Zenon
  <2> QED  BY <1>1, <1>5, <2>1, WordRead, Zenon DEF TypeInv
<1>8. Here \notin Nowhere
  BY <1>1 DEF Here, Nowhere, Null, Wild, Programs
<1>9. StateInv'
  BY <1>1, <1>5 DEF StateInv
<1> HIDE DEF w
<1>10. IfOpen(All, Read)' => Completable' /\ npcp_array' > 0
  BY <1>1, <1>2, <1>5, <1>6, <1>7, CompletableKept DEF StructInv
<1>11. Balanced(Top(session)) =>
         /\ DoOpen(All, Read)' => current_DO' \notin Nowhere
         /\ BeginOpen(All, Read)' => current_BEGIN' \notin Nowhere
  BY <1>1, <1>5, <1>7, <1>8 DEF StructInv
<1>12. StructInv'
  BY <1>5, <1>7, <1>10, <1>11 DEF StructInv
<1> QED  BY <1>1, <1>5, <1>7, <1>9, <1>12 DEF Survives, Dead, Settles, NextWord

(* ":" and the name behind it.  A definition begins where no conditional   *)
(* is open.                                                                *)
LEMMA ColonWord ==
  ASSUME TypeInv, Orderly(Top(session)), PlaceInv, StateInv, StructInv, session' = session,
         parse_colon
  PROVE  Survives /\ Settles
<1>1. /\ status = "parse" /\ line # << >> /\ Head(line) = ":" /\ NextWord
      /\ state' = "COLON_EXPECTING_NAME"
      /\ UNCHANGED <<current_PROG, current_IF, current_DO, current_BEGIN>>
  BY DEF parse_colon, Parsing, Given, openVars
<1>2. ~IfOpen(All, Read)
  <2>1. Head(line) \in {":", ";"}
    BY <1>1, Zenon
  <2> QED  BY <1>1, <2>1, WordFits, Zenon DEF TypeInv
<1>3. ":" \notin {"IF", "THEN", "DO", "LOOP", "BEGIN", "UNTIL", "AGAIN"} /\ ":" \in Namers
  BY DEF Namers
<1>4. /\ PlaceInv'
      /\ ~IfOpen(All, Read)'
      /\ Balanced(Top(session)) =>
           /\ DoOpen(All, Read)' <=> DoOpen(All, Read)
           /\ BeginOpen(All, Read)' <=> BeginOpen(All, Read)
      /\ line' # << >> => Read' \in 1 .. (Len(All) - 1) /\ All' = All /\ All[Read'] = ":"
  BY <1>1, <1>2, <1>3, WordRead, Zenon DEF TypeInv
<1>5. StateInv'
  BY <1>1, <1>3, <1>4, Zenon DEF StateInv
<1>6. StructInv'
  BY <1>1, <1>4, Zenon DEF StructInv
<1> QED  BY <1>1, <1>4, <1>5, <1>6 DEF Survives, Dead, Settles, NextWord

LEMMA ColonNameWord ==
  ASSUME TypeInv, Orderly(Top(session)), PlaceInv, StateInv, StructInv, session' = session,
         parse_colon_name
  PROVE  Survives /\ Settles
<1>1. status = "parse" /\ state = "COLON_EXPECTING_NAME" /\ line # << >>
  BY DEF parse_colon_name, Given
<1>2. CASE program_Stack_top <= ProgStack
  <2>1. /\ program_stack' = Append(program_stack, current_PROG) /\ state' = "EXPECTING_ANY"
        /\ current_PROG' = Len(heap) + 1
        /\ NextWord /\ UNCHANGED <<current_IF, current_DO, current_BEGIN>>
    BY <1>2 DEF parse_colon_name, openVars
  <2>2. /\ program_stack' # << >> /\ Top(program_stack') = current_PROG
        /\ current_PROG' # NoProgram
    <3>1. program_stack \in Seq(Interruptible) /\ current_PROG \in Interruptible
      BY <1>1 DEF TypeInv, ReaderInv
    <3>2. Len(heap) \in Nat
      BY HeapFacts DEF TypeInv
    <3> QED  BY <2>1, <3>1, <3>2, AppendProperties DEF Top, NoProgram
  <2>3. Head(line) \notin ControlWords /\ ~IfOpen(All, Read)
    <3>1. "COLON_EXPECTING_NAME" # "EXPECTING_ANY"
      OBVIOUS
    <3> QED  BY <1>1, <3>1, WordFits, Zenon DEF TypeInv
  <2>4. {"IF", "THEN", "DO", "LOOP", "BEGIN", "UNTIL", "AGAIN"} \subseteq ControlWords
    BY DEF ControlWords, StructureWords
  <2>5. /\ PlaceInv'
        /\ ~IfOpen(All, Read)'
        /\ Balanced(Top(session)) =>
             /\ DoOpen(All, Read)' <=> DoOpen(All, Read)
             /\ BeginOpen(All, Read)' <=> BeginOpen(All, Read)
    BY <1>1, <2>1, <2>3, <2>4, WordRead, Zenon DEF TypeInv
  <2>6. StateInv'
    BY <2>1, Zenon DEF StateInv
  <2>7. StructInv'
    BY <2>1, <2>2, <2>5, Zenon DEF StructInv
  <2> QED  BY <1>1, <2>1, <2>5, <2>6, <2>7 DEF Survives, Dead, Settles, NextWord
<1>3. CASE ~(program_Stack_top <= ProgStack)
  <2>1. program_Stack_top \in Int /\ ProgStack \in Int
    BY CompilerAssumption DEF TypeInv, ReaderInv
  <2>2. status' = "crashed" /\ program_Stack_top' = program_Stack_top
    BY <1>3 DEF parse_colon_name, Crash, compilerVars
  <2> QED  BY <1>3, <2>1, <2>2 DEF Survives, Settles
<1> QED  BY <1>2, <1>3

(* ";" finds the program that ":" interrupted.                             *)
LEMMA SemicolonWord ==
  ASSUME TypeInv, Orderly(Top(session)), PlaceInv, StateInv, StructInv, session' = session,
         semicolon
  PROVE  Survives /\ Settles
<1>1. status = "parse" /\ state = "EXPECTING_ANY" /\ line # << >> /\ Head(line) = ";"
  BY DEF semicolon, Parsing, Given
<1>2. ~IfOpen(All, Read) /\ (Balanced(Top(session)) => ColonOpen(All, Read))
  <2>1. Head(line) \in {":", ";"}
    BY <1>1, Zenon
  <2> QED  BY <1>1, <2>1, WordFits, Zenon DEF TypeInv
<1>3. Balanced(Top(session)) => program_stack # << >> /\ Top(program_stack) # NoProgram
  BY <1>1, <1>2 DEF StructInv
<1>4. CASE status' # "parse"
  <2>1. (program_Stack_top > ProgStack /\ Crash) \/ program_stack = << >>
    BY <1>1, <1>4 DEF semicolon, NextWord
  <2>2. program_Stack_top > ProgStack /\ Crash => program_Stack_top' > ProgStack
    BY DEF Crash, compilerVars
  <2> QED  BY <1>3, <1>4, <2>1, <2>2 DEF Survives, Settles
<1>5. CASE status' = "parse"
  <2>1. /\ NextWord /\ UNCHANGED <<state, current_IF, current_DO, current_BEGIN>>
        /\ program_stack # << >> => current_PROG' = Top(program_stack)
    BY <1>5 DEF semicolon, Crash, openVars, Top
  <2>2. ";" \notin {"IF", "THEN", "DO", "LOOP", "BEGIN", "UNTIL", "AGAIN", ":"}
    BY Zenon
  <2>3. /\ PlaceInv'
        /\ ~IfOpen(All, Read)'
        /\ Balanced(Top(session)) =>
             /\ DoOpen(All, Read)' <=> DoOpen(All, Read)
             /\ BeginOpen(All, Read)' <=> BeginOpen(All, Read)
             /\ ~ColonOpen(All, Read)'
    BY <1>1, <1>2, <2>1, <2>2, WordRead, Zenon DEF TypeInv
  <2>4. StateInv'
    BY <1>1, <2>1, Zenon DEF StateInv
  <2>5. StructInv'
    <3>1. Balanced(Top(session))' <=> Balanced(Top(session))
      OBVIOUS
    <3> QED  BY <1>3, <2>1, <2>3, <3>1, Zenon DEF StructInv
  <2> QED  BY <1>1, <2>1, <2>3, <2>4, <2>5 DEF Survives, Dead, Settles, NextWord
<1> QED  BY <1>4, <1>5

(* VARIABLE and CREATE, and the name behind them.                          *)
LEMMA VariableWord ==
  ASSUME TypeInv, Orderly(Top(session)), PlaceInv, StateInv, StructInv, session' = session,
         parse_variable \/ parse_variable_name
  PROVE  Survives /\ Settles
<1>1. CASE parse_variable
  <2>1. /\ status = "parse" /\ state = "EXPECTING_ANY" /\ line # << >> /\ NextWord
        /\ Head(line) \in DOMAIN Naming /\ state' = Naming[Head(line)]
        /\ heap' = heap /\ UNCHANGED <<openVars, current_PROG, program_stack, program_Stack_top>>
    BY <1>1 DEF parse_variable, Parsing, Given, heapVars
  <2>2. Head(line) \notin {"IF", "THEN", "DO", "LOOP", "BEGIN", "UNTIL", "AGAIN", ":", ";"}
    BY <2>1 DEF Naming
  <2>3. Settles
    BY <2>1, <2>2, PlainWord
  <2> QED  BY <2>1, <2>3 DEF Survives, Dead, NextWord
<1>2. CASE parse_variable_name
  <2>1. /\ status = "parse" /\ line # << >> /\ NextWord
        /\ state \in {Naming[w] : w \in DOMAIN Naming}
        /\ heap' = heap /\ UNCHANGED <<openVars, current_PROG, program_stack, program_Stack_top>>
    BY <1>2 DEF parse_variable_name, Given, heapVars
  <2>2. state # "EXPECTING_ANY" /\ state # "COLON_EXPECTING_NAME"
    BY <2>1 DEF Naming
  <2>3. Head(line) \notin ControlWords
    BY <2>1, <2>2, WordFits DEF TypeInv
  <2>4. {"IF", "THEN", "DO", "LOOP", "BEGIN", "UNTIL", "AGAIN", ":", ";", "VARIABLE"} \subseteq ControlWords
    BY DEF ControlWords, StructureWords
  <2>5. state' = "EXPECTING_ANY"
    BY <1>2, <2>3, <2>4 DEF parse_variable_name
  <2>6. Settles
    BY <2>1, <2>2, <2>3, <2>4, <2>5, PlainWord
  <2> QED  BY <2>1, <2>6 DEF Survives, Dead, NextWord
<1> QED  BY <1>1, <1>2

LEMMA OtherWord ==
  ASSUME TypeInv, Orderly(Top(session)), PlaceInv, StateInv, StructInv, session' = session,
         exit_create \/ \E w \in Words \ ControlWords : program_add(w)
  PROVE  Survives /\ Settles
<1>1. CASE exit_create
  <2>1. /\ status = "parse" /\ state = "EXPECTING_ANY" /\ line # << >> /\ NextWord
        /\ Head(line) = "EXIT" /\ Emit(smtok("EXIT", 0))
        /\ state' = state /\ UNCHANGED <<openVars, current_PROG, program_stack, program_Stack_top>>
    BY <1>1 DEF exit_create, Compiling, Parsing, Given, settled
  <2>2. smtok("EXIT", 0) \in Tokens /\ smtok("EXIT", 0).op # "DICT"
    BY SmtokType, KindsAreOps
  <2>3. Head(line) \notin {"IF", "THEN", "DO", "LOOP", "BEGIN", "UNTIL", "AGAIN", ":", ";"}
    BY <2>1
  <2>4. Settles
    BY <2>1, <2>2, <2>3, PlainWord
  <2> QED  BY <2>1, <2>4 DEF Survives, Dead, NextWord
<1>2. ASSUME NEW w \in Words \ ControlWords, program_add(w)
      PROVE  Survives /\ Settles
  <2>1. /\ status = "parse" /\ state = "EXPECTING_ANY" /\ line # << >> /\ NextWord
        /\ Head(line) = w
        /\ state' = state /\ UNCHANGED <<openVars, current_PROG, program_stack, program_Stack_top>>
    BY <1>2 DEF program_add, Parsing, Given, settled
  <2>2. \/ heap' = heap
        \/ \E tok \in Tokens : (tok.op = "DICT" => tok.val \in Programs) /\ Emit(tok)
    <3>1. CASE Known(w)
      <4>1. TableInv /\ Len(heap) \in Nat
        BY HeapFacts DEF TypeInv
      <4> QED  BY <1>2, <3>1, <4>1, CompiledToken DEF program_add
    <3>2. CASE ~Known(w)
      BY <1>2, <3>2 DEF program_add
    <3> QED  BY <3>1, <3>2
  <2>3. {"IF", "THEN", "DO", "LOOP", "BEGIN", "UNTIL", "AGAIN", ":", ";"} \subseteq ControlWords
    BY DEF ControlWords, StructureWords
  <2>4. Settles
    BY <1>2, <2>1, <2>2, <2>3, PlainWord
  <2> QED  BY <2>1, <2>4 DEF Survives, Dead, NextWord
<1> QED  BY <1>1, <1>2
-----------------------------------------------------------------------------
(***************************************************************************)
(* The steps.                                                              *)
(***************************************************************************)
LEMMA CompileLine ==
  ASSUME TypeInv, LineInv, Compile
  PROVE  LineInv' /\ Survives
<1>0. ParseWord /\ session' = session
  BY DEF Compile
<1>1. CASE ~Orderly(Top(session))
  BY <1>0, <1>1 DEF LineInv, Balanced, Survives
<1>2. CASE Orderly(Top(session))
  <2>1. status = "parse"
    BY <1>0 DEF ParseWord, if_create, else_create, then_create, do_create, loop_create,
       begin_create, again_create, until_create, BackTo, exit_create, parse_colon,
       parse_colon_name, semicolon, parse_variable, parse_variable_name, parse_string,
       parse_string_expecting_quote, comment, parse_mark, skip_word, program_add, null_PROG,
       Compiling, Parsing, Given
  <2>2. PlaceInv /\ StateInv /\ StructInv
    BY <1>2, <2>1 DEF LineInv
  <2>3. Survives /\ Settles
    <3>1. CASE if_create \/ else_create
      <4>1. NextWord
        BY <3>1 DEF if_create, else_create
      <4> QED  BY <1>0, <1>2, <2>1, <2>2, <3>1, <4>1, ConditionalWord
              DEF NextWord, Survives, Dead
    <3>2. CASE then_create
      BY <1>0, <1>2, <2>2, <3>2, ThenWord
    <3>3. CASE do_create \/ loop_create \/ begin_create \/ again_create \/ until_create
      BY <1>0, <1>2, <2>2, <3>3, LoopWord
    <3>4. CASE parse_colon \/ parse_colon_name \/ semicolon
      BY <1>0, <1>2, <2>2, <3>4, ColonWord, ColonNameWord, SemicolonWord
    <3>5. CASE parse_variable \/ parse_variable_name
      BY <1>0, <1>2, <2>2, <3>5, VariableWord
    <3>6. CASE exit_create \/ \E w \in Words \ ControlWords : program_add(w)
      BY <1>0, <1>2, <2>2, <3>6, OtherWord
    <3>7. ~comment /\ ~parse_string /\ ~parse_mark
      <4>1. line # << >> => Head(line) \notin DOMAIN Closing \cup DOMAIN EndQuote
        BY <1>2, <2>2, WordFits DEF TypeInv
      <4>2. checks \subseteq DOMAIN Closing /\ Quote \in DOMAIN EndQuote
        BY CompilerAssumption DEF TypeInv, ReaderInv, AllChecks
      <4> QED  BY <4>1, <4>2 DEF comment, parse_string, parse_mark, Parsing, Given
    <3>8. ~parse_string_expecting_quote /\ ~skip_word
      <4>1. /\ state # "STRING_EXPECTING_QUOTE"
            /\ state \notin {Skipping[mark] : mark \in DOMAIN Closing}
        BY <2>2 DEF StateInv, Naming, Skipping, Closing
      <4> QED  BY <4>1 DEF parse_string_expecting_quote, skip_word, Given
    <3>9. CASE null_PROG
      <4>1. status' = "crashed" /\ current_PROG = NoProgram
        BY <3>9 DEF null_PROG, Crash
      <4> QED  BY <2>2, <4>1 DEF StructInv, Survives, Settles
    <3> QED  BY <1>0, <3>1, <3>2, <3>3, <3>4, <3>5, <3>6, <3>7, <3>8, <3>9 DEF ParseWord
  <2> QED  BY <1>0, <1>2, <2>3 DEF LineInv, Settles
<1> QED  BY <1>1, <1>2

(* At the head of a line nothing of it is open.                            *)
LEMMA ParseLine ==
  ASSUME TypeInv, parse
  PROVE  LineInv'
<1>1. PICK l \in NextLines :
        line' = strtok(Append(l, NL)) /\ session' = Append(session, l)
  BY DEF parse
<1>2. SessionInv /\ SessionInv'
  BY ParseTypes DEF TypeInv
<1>3. session' # << >> /\ Top(session') = l
  <2>1. Len(session) \in Nat
    BY <1>2, LenProperties DEF SessionInv
  <2>2. l \in Source
    BY <1>2, NextLine
  <2>3. /\ Append(session, l) # << >>
        /\ Len(Append(session, l)) = Len(session) + 1
        /\ Append(session, l)[Len(session) + 1] = l
    BY <1>2, <2>2, AppendProperties DEF SessionInv
  <2> QED  BY <1>1, <2>3 DEF Top
<1>4. All' = Append(l, NL) /\ All' \in Source /\ Len(All') \in Nat
  <2>1. All' = Append(l, NL)
    BY <1>3 DEF All
  <2>2. SessionInv' /\ session' # << >>
    BY <1>2, <1>3
  <2>3. Top(session') \in Source
    BY <2>2, TopType DEF SessionInv
  <2>4. All' \in Source
    BY <1>3, <2>1, <2>3, AppendProperties DEF Source
  <2> QED  BY <2>1, <2>4, LenProperties DEF Source
<1>5. PICK m \in 0 .. Len(All') : line' = Rest(All', m) /\ \A k \in 1 .. m : All'[k] = NL
  BY <1>1, <1>4, StrtokSkips
<1>6. Read' = m
  <2>1. Len(line') = Len(All') - m
    BY <1>4, <1>5, RestProperties
  <2> QED  BY <1>4, <1>5, <2>1 DEF Read
<1>7. PlaceInv'
  BY <1>3, <1>5, <1>6 DEF PlaceInv
<1>8. StateInv'
  BY DEF parse, StateInv
<1>9. ASSUME NEW w \in ControlWords
      PROVE  Opened(All', m, w) = 0
  <2>1. w # NL
    BY NewlineIsNoWord
  <2>2. 0 \in Nat /\ m \in Nat /\ 0 <= m /\ \A k \in (0 + 1) .. m : All'[k] # w
    BY <1>4, <1>5, <2>1
  <2>3. Opened(All', m, w) = Opened(All', 0, w)
    BY <2>2, OpenedSame
  <2> QED  BY <2>3, OpenedNone
<1>10. {"IF", "THEN", "DO", "LOOP", "BEGIN", "UNTIL", "AGAIN", ":", ";"} \subseteq ControlWords
  BY DEF ControlWords, StructureWords
<1>11. /\ ~IfOpen(All', m) /\ ~DoOpen(All', m) /\ ~BeginOpen(All', m)
       /\ ~ColonOpen(All', m)
  <2>1. \A w \in ControlWords : Opened(All', m, w) = 0
    BY <1>9
  <2>2. \A x, y \in ControlWords : ~(Opened(All', m, x) > Opened(All', m, y))
    BY <2>1
  <2>3. \A x, y, z \in ControlWords : ~(Opened(All', m, x) > Opened(All', m, y) + Opened(All', m, z))
    BY <2>1
  <2> QED  BY <1>10, <2>2, <2>3, Zenon DEF IfOpen, DoOpen, BeginOpen, ColonOpen
<1>12. current_PROG' # NoProgram
  <2>1. Len(heap) \in Nat /\ current_PROG' = Len(heap) + 1
    BY HeapFacts DEF TypeInv, parse
  <2> QED  BY <2>1 DEF NoProgram
<1>13. StructInv'
  BY <1>6, <1>11, <1>12 DEF StructInv
<1> QED  BY <1>7, <1>8, <1>13 DEF LineInv

(* A program that runs dies in a call that is in progress.                 *)
LEMMA RunCrashes ==
  ASSUME TypeInv, Run
  PROVE  status' # "parse" /\ (status' \in Dead => frames' # << >>)
<1>1. Execute /\ status = "run" /\ frames # << >>
  <2>1. Execute /\ status = "run"
    BY DEF Run, Execute, cb_ef_number, ef_primitive, d_variable_store, d_string_exec, ef_do, ef_i_cb,
         ef_loop_end, ef_begin, ef_again, ef_until, ef_if, ef_else, ef_then, ef_exit,
         ef_dict_entry, ef_defer, ef_exec, Return, Finish, Fetch, Overrun, Executes, Running
  <2> QED  BY <2>1 DEF TypeInv, CallInv
<1>2. CASE Fetch \/ Overrun
  BY <1>1, <1>2 DEF Fetch, Overrun, taskVars
<1>3. CASE Return
  <2>1. frames' = Popped(frames, 1) /\ Len(frames) > 1 /\ status' # "parse"
    BY <1>1, <1>3 DEF Return
  <2>2. frames \in Seq(Frames(Programs)) /\ Len(frames) \in Nat
    BY LenProperties DEF TypeInv, CallInv
  <2>3. Len(frames') = Len(frames) - 1
    BY <2>1, <2>2, PoppedProperties
  <2> QED  BY <2>1, <2>2, <2>3
<1>4. CASE Finish
  BY <1>4 DEF Finish, Dead
<1>5. CASE ~Fetch /\ ~Overrun /\ ~Return /\ ~Finish
  <2>1. status' = status \/ (status' = "stray" /\ frames' = Called)
    BY <1>1, <1>5 DEF Execute, cb_ef_number, ef_primitive, d_variable_store, d_string_exec, ef_do,
         ef_i_cb, ef_loop_end, ef_begin, ef_again, ef_until, ef_if, ef_else, ef_then, ef_exit,
         ef_dict_entry, ef_defer, ef_exec, LoopsBecome, Jump, Goto
  <2>2. Called # << >>
    BY <1>1, CalledFrames DEF TypeInv, CallInv
  <2> QED  BY <1>1, <2>1, <2>2 DEF Dead
<1> QED  BY <1>2, <1>3, <1>4, <1>5

LEMMA LineSteps ==
  TypeInv /\ LineInv /\ BalancedLineCompiles /\ [Next]_vars => LineInv' /\ BalancedLineCompiles'
<1> SUFFICES ASSUME TypeInv, LineInv, BalancedLineCompiles, [Next]_vars
             PROVE  LineInv' /\ BalancedLineCompiles'
  OBVIOUS
<1>1. CASE UNCHANGED vars
  <2>1. UNCHANGED <<status, heap, line, state, current_IF, current_DO, current_BEGIN, current_PROG,
                    program_stack, program_Stack_top, session, frames>>
    BY <1>1 DEF vars, heapVars, compilerVars, openVars, taskVars
  <2> QED  BY <2>1 DEF LineInv, BalancedLineCompiles, PlaceInv, StateInv, StructInv, All, Read,
                    Completable, Deref, npcp_array
<1>2. CASE parse
  BY <1>2, ParseLine DEF parse, BalancedLineCompiles, Dead
<1>3. CASE Compile
  <2>1. session' = session
    BY <1>3 DEF Compile
  <2> QED  BY <1>3, <2>1, CompileLine DEF BalancedLineCompiles, Survives
<1>4. CASE Start
  BY <1>4 DEF Start, run_task, LineInv, BalancedLineCompiles, Dead
<1>5. CASE Run
  BY <1>5, RunCrashes DEF LineInv, BalancedLineCompiles
<1> QED  BY <1>1, <1>2, <1>3, <1>4, <1>5 DEF Next

(* A line whose structures are opened and closed in order is compiled      *)
(* without a fault: whatever earlier lines left in current_IF, current_DO, *)
(* current_BEGIN and on program_stack, above or below its first entry, and *)
(* wherever a wild pointer leads (parser.c, compiler.c).  The one line     *)
(* that may crash is one that meets a program_stack full of definitions    *)
(* never closed, whose last entry lies in program_Stack_top itself.        *)
THEOREM BalancedLinesCompile == Spec => []BalancedLineCompiles
<1>1. Init => LineInv /\ BalancedLineCompiles
  BY DEF Init, LineInv, BalancedLineCompiles, Dead
<1> QED  BY <1>1, Inductive, LineSteps, PTL DEF Spec
=============================================================================
