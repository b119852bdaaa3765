---------------------------- MODULE BuiltinIndex ----------------------------
(***************************************************************************)
(* builtins.c: the table of builtin words and the search in its index.     *)
(*                                                                         *)
(* DB_builtins holds the words in order of registration, and the position  *)
(* of a word in it is its opcode; IDX_builtins holds the same words sorted *)
(* by strcmp.  A step is one iteration of builtin_lookup's loop.           *)
(***************************************************************************)
EXTENDS Integers

CONSTANTS
  Keys,           \* the words that are looked up
  Rank,           \* Rank[k]: the place of k in the order of strcmp
  N_builtins,
  DB_builtins,    \* opcode -> name
  IDX_builtins,   \* index -> opcode
  None

Opcodes == 0 .. (N_builtins - 1)
name(i) == DB_builtins[IDX_builtins[i]]

(* builtin_add numbers the words; index_names copies them all and sorts    *)
(* them (qsort).  No name is registered twice.                             *)
ASSUME IndexAssumption ==
  /\ N_builtins \in Nat \ {0}
  /\ None \notin Keys
  /\ Rank \in [Keys -> Int]
  /\ \A k, l \in Keys : Rank[k] = Rank[l] => k = l
  /\ DB_builtins \in [Opcodes -> Keys]
  /\ IDX_builtins \in [Opcodes -> Opcodes]
  /\ \A o \in Opcodes : \E i \in Opcodes : IDX_builtins[i] = o
  /\ \A i, j \in Opcodes : i < j => Rank[name(i)] < Rank[name(j)]

VARIABLES
  pc,             \* "ready", "looking", "found" or "unknown"
  key, lo, hi,    \* the argument and the locals of builtin_lookup
  op              \* the opcode it has found

indexVars == <<pc, key, lo, hi, op>>

IndexTypeOK ==
  /\ pc \in {"ready", "looking", "found", "unknown"}
  /\ key \in Keys \cup {None}
  /\ pc = "looking" => key \in Keys
  /\ lo \in Opcodes
  /\ hi \in Opcodes
  /\ op \in Opcodes

IndexInit ==
  /\ pc = "ready"
  /\ key = None
  /\ lo = 0
  /\ hi = N_builtins - 1
  /\ op = 0

builtin_lookup(k) ==
  /\ pc = "ready"
  /\ pc' = "looking"
  /\ key' = k
  /\ lo' = 0
  /\ hi' = N_builtins - 1
  /\ UNCHANGED op

Middle == (hi + lo) \div 2

Hit ==
  /\ pc = "looking" /\ hi > lo
  /\ name(Middle) = key
  /\ op' = IDX_builtins[Middle]
  /\ pc' = "found"
  /\ UNCHANGED <<key, lo, hi>>

LastThree == hi - lo <= 2        \* fault: the search gives up one entry too soon
NeverLast == FALSE               \* fault: the test is forgotten
LastTwo == hi - lo <= 1

(* Of the last two entries the one at hi is not looked at.                 *)
Miss ==
  /\ pc = "looking" /\ hi > lo
  /\ name(Middle) # key
  /\ LastTwo
  /\ pc' = "unknown"
  /\ UNCHANGED <<key, lo, hi, op>>

Narrow ==
  /\ pc = "looking" /\ hi > lo
  /\ name(Middle) # key
  /\ ~LastTwo
  /\ IF Rank[name(Middle)] < Rank[key]
     THEN lo' = Middle /\ UNCHANGED hi
     ELSE hi' = Middle /\ UNCHANGED lo
  /\ UNCHANGED <<pc, key, op>>

(* An index of one word: the loop is not entered.                          *)
Exhausted ==
  /\ pc = "looking" /\ hi <= lo
  /\ pc' = "unknown"
  /\ UNCHANGED <<key, lo, hi, op>>

Search == Hit \/ Miss \/ Narrow \/ Exhausted

(* The caller has the answer; nothing of the call is used again.           *)
Answered ==
  /\ pc' = "ready"
  /\ key' = None
  /\ lo' = 0
  /\ hi' = N_builtins - 1
  /\ op' = 0

IndexNext ==
  \/ \E k \in Keys : builtin_lookup(k)
  \/ Search
  \/ pc \in {"found", "unknown"} /\ Answered

IndexSpec == IndexInit /\ [][IndexNext]_indexVars
-----------------------------------------------------------------------------
(* The search finds every word of the index except its last, and nothing   *)
(* else: what it returns is the opcode of the word asked for.  The last    *)
(* word, r> in the table as built, is never found.  (builtins.c:596)       *)
LookupDecides ==
  /\ pc = "found" => DB_builtins[op] = key
  /\ pc = "unknown" => \A i \in 0 .. (N_builtins - 2) : name(i) # key

(* Every iteration that goes on has fewer entries left to look at, and at  *)
(* least one: the search of an absent word ends.  (builtins.c:594)         *)
LookupNarrows ==
  [][pc = "looking" /\ pc' = "looking" => hi' - lo' < hi - lo /\ hi' > lo']_indexVars

(* Every lookup comes to an answer.  (builtins.c:596)                      *)
LookupReturns == (pc = "looking") ~> (pc # "looking")
=============================================================================
