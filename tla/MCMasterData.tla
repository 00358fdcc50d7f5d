---------------------------- MODULE MCMasterData ----------------------------
(* A model-checking instance of MasterData.                                *)
EXTENDS MasterData, TLC

CONSTANTS w1, w2

\* Rows with and without a code; P00002 is of the generated form.
SomeProducts ==
    {[code |-> None, name |-> "bolt", stock |-> None],
     [code |-> None, name |-> "nut",  stock |-> 1],
     [code |-> 2,    name |-> "nut",  stock |-> None]}

SomePartners ==
    {[key |-> "acme", prefix |-> "BUS", number |-> None],
     [key |-> "bean", prefix |-> "BUS", number |-> None],
     [key |-> "bean", prefix |-> "BUS", number |-> [prefix |-> "BUS", n |-> 2]]}

\* The German standard rate was lower for half a year.
SomeRates ==
    {[type |-> "STANDARD", rate |-> 19, from |-> -1, to |-> None, active |-> TRUE],
     [type |-> "STANDARD", rate |-> 16, from |-> 0,  to |-> 1, active |-> TRUE],
     [type |-> "REDUCED",  rate |-> 7,  from |-> -1, to |-> None, active |-> TRUE],
     [type |-> "REDUCED",  rate |-> 5,  from |-> 1,  to |-> None, active |-> FALSE]}

WorkerSymmetry == Permutations(Workers)
=============================================================================
