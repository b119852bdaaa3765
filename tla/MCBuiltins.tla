----------------------------- MODULE MCBuiltins -----------------------------
(***************************************************************************)
(* The stack words in the order in which builtin_build_db registers them,  *)
(* with r> for the last name of the index.                                 *)
(***************************************************************************)
EXTENDS Builtins, FiniteSets

Registered == <<"DUP", "SWAP", "OVER", "ROT", "DROP", "2DROP", "PICK", "+", "-", "AND",
  "OR", "NOT", ">", "<", "=", "*", "MOD", "%", "/", "TRUE", "FALSE", "r>", "my_custom">>

(* The order of strcmp, with two words that are no builtins.               *)
ByName == <<"#", "%", "*", "+", "-", "/", "2DROP", "<", "=", ">", "AND", "DROP", "DUP",
  "FALSE", "MOD", "NOT", "OR", "OVER", "PICK", "ROT", "SWAP", "TRUE",
  "my_custom", "r>", "square">>

MCKeys == {ByName[i] : i \in DOMAIN ByName}
MCRank == [k \in MCKeys |-> CHOOSE i \in DOMAIN ByName : ByName[i] = k]
MCN == Len(Registered)
MCDB == [o \in 0 .. (MCN - 1) |-> Registered[o + 1]]
MCIDX ==
  [i \in 0 .. (MCN - 1) |->
     CHOOSE o \in 0 .. (MCN - 1) :
       i = Cardinality({p \in 0 .. (MCN - 1) : MCRank[MCDB[p]] < MCRank[MCDB[o]]})]
=============================================================================
