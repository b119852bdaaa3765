------------------------------ MODULE MCForth ------------------------------
(***************************************************************************)
(* The vocabulary and the sessions that TLC runs Forth on.  A session is   *)
(* startup.fs and the lines typed after it; a script gives, for each place, *)
(* every line that may come there.                                         *)
(***************************************************************************)
EXTENDS Meaning

MCNumVal == [n \in {"0", "1", "2", "-"} |->
               CASE n = "1" -> 1 [] n = "2" -> 2 [] OTHER -> 0]   \* atol("-") = 0
MCBuiltins == {"DUP", "DROP", "SWAP", "OVER", "+", "*", "<", "=", "NOT", "TRUE", "FALSE",
               ".", ">r", "!", "@", "!!", "@@", "ALLOT", "SEXEC"}
MCEndQuote == [w \in {Quote, "w\""} |-> IF w = Quote THEN "" ELSE "w"]
Names == {"w", "v", "x", "r"}
MCWords == ControlWords \cup {")", "I", "'", "EXEC", "lost"} \cup DOMAIN MCNumVal \cup MCBuiltins
             \cup DOMAIN MCEndQuote \cup Names

Ways(S, T) == {s \o t : s \in S, t \in T}
Define(name, bodies) == {<<":", name>> \o b \o <<";">> : b \in bodies}

(***************************************************************************)
(* Well-formed lines: loops nested in loops and in conditionals, words     *)
(* called from both, directly and by ' and EXEC.  No IF inside an IF of    *)
(* the same program, no ELSE, no EXIT: those are the subject of other      *)
(* sessions.                                                               *)
(***************************************************************************)
Limits == {<<"1", "0">>, <<"0", "1">>}
Flags == {<<"TRUE">>, <<"1">>}
InLoop(S) == {lim \o <<"DO">> \o b \o <<"LOOP">> : lim \in Limits, b \in S}
InIf(S) == {f \o <<"IF">> \o b \o <<"THEN">> : f \in Flags, b \in S}

ShowIndex == <<"I", ".">>
Keep == <<"I", "2", "*">>
CallW == <<"w">>
ExecW == <<"'", "w", "EXEC">>

Simple == {ShowIndex, CallW}
Structured(S) == S \cup InLoop(S) \cup InIf(S)
Deep(S) == InLoop(InLoop(S) \cup InIf(S)) \cup InIf(InLoop(S))

StructuredScript ==
  << Define("w", Structured({ShowIndex, Keep})),
     Define("v", Structured({CallW, ExecW})) \cup Ways(Define("w", {<<"2", ".">>}), {CallW}),
     Structured({CallW, <<"v">>, ExecW}) \cup Deep({ShowIndex, <<"v">>})
       \cup Ways(InIf({ShowIndex}), InIf({<<"v">>})) \cup {<<"lost", "1", ".">>} >>

(* The hypotheses of CountedLoopsStayInStep and its like in ForthRunProofs. *)
ASSUME StructuredIsCounted ==
  \A n \in DOMAIN StructuredScript : \A l \in StructuredScript[n] :
    WellFormed(l) /\ \A k \in 1 .. Len(l) : l[k] \notin {"BEGIN", "AGAIN", "UNTIL"}

(***************************************************************************)
(* The other control words, as the code supports them: BEGIN UNTIL and     *)
(* BEGIN AGAIN outside a DO, with a DO inside; ELSE after a true flag;     *)
(* EXIT from a word or a line, and from a line's BEGIN AGAIN.              *)
(***************************************************************************)
Upto(n) == <<"I", n, "=">>
InBegin(S) == {<<"BEGIN">> \o b \o Upto(n) \o <<"UNTIL">> : b \in S, n \in {"0", "2"}}
InElse(S) == {<<"TRUE", "IF">> \o b \o <<"ELSE", "2", ".", "THEN">> : b \in S}
Leave(f) == <<f, "IF", "EXIT", "THEN">>
Forever(S) == {<<"BEGIN">> \o b \o Upto("1") \o <<"IF", "EXIT", "THEN", "AGAIN">> : b \in S}

(* BEGIN in a DO counts in the DO's index: it starts over, and LOOP        *)
(* compares what BEGIN has left there.                                     *)
Restart(n) == {<<"1", "0", "DO", "I", ".", "BEGIN">> \o b \o Upto(n) \o <<"UNTIL", "I", ".", "LOOP">> :
                 b \in {ShowIndex, CallW}}

ControlScript ==
  << Ways(Define("w", {ShowIndex} \cup Ways({Leave("TRUE"), Leave("1")}, {<<"2", ".">>})
                        \cup InElse({ShowIndex})),
          Define("v", InBegin({ShowIndex}))),
     InBegin({CallW, <<"1", "0", "DO", "w", "LOOP">>, Leave("1")}) \cup Forever({CallW})
       \cup InElse({CallW}) \cup InLoop(InElse({ShowIndex})) \cup Restart("0") \cup Restart("2"),
     InLoop({ShowIndex} \cup InElse({ShowIndex}))
       \cup InBegin({ShowIndex}) \cup Define("v", Restart("1")) \cup Ways({<<"1", ".">>}, Ways({Leave("TRUE"), Leave("FALSE")}, {<<"v">>})),
     InLoop({ShowIndex, ExecW}) >>

(***************************************************************************)
(* Comments, strings and variables, in a startup.fs of several lines and   *)
(* in lines of the REPL: a comment has a word behind it, the word a "\" is  *)
(* followed by is no second comment, and the word SEXEC runs was defined   *)
(* after the one that runs it and is the last thing that one does.         *)
(***************************************************************************)
Remarks == { << >>, <<NL, NL>>, <<"\\", "lost", ")", NL>>, <<"(", "1", NL, ".", ")">>,
             <<"\\", "(", "1", NL, NL, "(", "\\", ")">> }
Aside == {<< >>, <<"(", "1", ".", ")">>}
RunW == {<<Quote, "w\"", "SEXEC">>}
Idle == {<<Quote, "lost", "1", Quote, "DROP">>, <<Quote, "w", Quote, "SEXEC">>}

UseArray == <<"x", "0", "1", "!!", "x", "0", "@@", ".", "x", "2", "1", "!!", "x", "2", "@@">>

ReaderScript ==
  << Ways(Ways(Remarks, Define("r", RunW)),
          Ways(Remarks, {<<"VARIABLE", "x", "x", "2", "ALLOT", ":", "w", "x", "@", ".", ";">>,
                         <<"CREATE", "VARIABLE", "x", ":", "w", "1", ".", ";", "x", "1", "ALLOT">>})),
     Ways({<<"x">>}, Ways(Aside, {<<"2", "!">>}))
       \cup {UseArray, <<"VARIABLE", "w", "w", "2", "!">>, <<"VARIABLE", "DUP">>,
             <<"VARIABLE", "x", "lost">>}
       \cup Define("w", {<<"2", ".">>}) \cup Define("v", {<<"r">>}),
     Ways(Aside, {<<"r">>, <<"1", "DUP", "w">>}) \cup Ways(Idle, {<<"v", "r">>})
       \cup {UseArray, <<"x", "1", "2", "!!", "x", "@", "x", "1", "@@">>,
             <<"x", "DUP", "@", "2", "*", "!", "w">>} >>

(***************************************************************************)
(* Lines that are not well formed.                                         *)
(***************************************************************************)
Fragments == {<<"IF">>, <<"ELSE">>, <<"THEN">>, <<"DO">>, <<"LOOP">>, <<"BEGIN">>,
              <<"UNTIL">>, <<"AGAIN">>, <<"EXIT">>, <<":", "w">>, <<";">>,
              <<"w">>, <<"'">>, <<"EXEC">>, <<">r">>, <<"1">>, <<"TRUE">>,
              <<"\\">>, <<"(">>, <<")">>, <<Quote, "w\"">>, <<"SEXEC">>, <<"VARIABLE", "w">>}
Pieces == Ways(Fragments, Fragments)

(* A word that calls itself and leaves nothing on the return stack.        *)
Recursive == <<"BEGIN", "TRUE", "UNTIL", "TRUE", "UNTIL", "w">>

LooseScript ==
  << {<< >>, <<"\\", NL, "VARIABLE", "x", NL, "1", "(", ")", "(", "1">>, <<"1", "1", "DO", ":", "w", "LOOP", ";">>,
      <<"1", "1", "DO", "1", "1", "DO", "1", "1", "DO", "LOOP", "LOOP", "1", "1", "DO">>}
       \cup Define("w", {<<"TRUE", "IF">>, <<"THEN">>, Recursive}),
     Ways(Pieces, {<< >>, <<"THEN">>, <<"LOOP">>, <<";">>}),
     {<<"TRUE", "IF", "1", "ELSE", "2", "THEN">>, <<";">>, <<"w">>, <<":", "IF", "THEN">>}
       \cup Define("v", {<<"1">>}) >>

StructuredSessions == {StructuredScript}
LanguageSessions == {ControlScript, ReaderScript}
LooseSessions == {LooseScript}

(***************************************************************************)
(* One line each for what the documents say and the code does not do.      *)
(***************************************************************************)
CountedSessions == {<< {<< >>}, {<<"1", "0", "DO", "I", ".", "LOOP">>} >>}
ElseSessions == {<< {<< >>}, {<<"FALSE", "IF", "1", ".", "ELSE", "2", ".", "THEN">>} >>}
MinusSessions == {<< {<< >>}, {<<"2", "1", "-", ".">>} >>}
NestedSessions == {<< {<< >>}, {<<"TRUE", "IF", "TRUE", "IF", "1", ".", "THEN", "THEN">>} >>}
=============================================================================
