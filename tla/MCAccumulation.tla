--------------------------- MODULE MCAccumulation ---------------------------
(* Instances of Accumulation: blocks from small states, one after another  *)
(* only as far as the state space stays finite.  Services 1, 2 and 3 deal  *)
(* with money; 4 and 5, in states of their own, with privileges.           *)
EXTENDS Accumulation, TLC

CONSTANTS v1, v2

MCCalls == [s \in Ids |->
  IF s \in Holders THEN {"bless", "assign", "designate", "checkpoint"}
  ELSE {"transfer", "new", "upgrade", "eject", "checkpoint"}]

State(accounts, m, a, v, r, z) ==
  [accounts |-> accounts, manager |-> m, assigners |-> [c \in Cores |-> a], delegator |-> v,
   registrar |-> r, always |-> z, staging |-> v1, queue |-> [c \in Cores |-> v1]]

Account(balance, code) == [balance |-> balance, code |-> code, bare |-> TRUE]

(* Two services that run and one that the first may eject; the first is    *)
(* the registrar, who may put an account in the place of the one ejected.  *)
Funds ==
  {State(1 :> Account(2, Runs) @@ 2 :> Account(b, Runs) @@ 3 :> Account(3, 1), 1, 1, 1, 1, z) :
     b \in {1, 2}, z \in {<< >>, 2 :> 1}}

(* One manages, either holds the rest.                                     *)
Privileges ==
  {State(4 :> Account(1, Runs) @@ 5 :> Account(1, Runs), 4, a, v, a,
         IF a = v THEN << >> ELSE 5 :> 1) : a, v \in {4, 5}}

MCGenesis == Funds \cup Privileges

MCCodes == {Runs, 1}

MCBlocks == {<<[service |-> 1, gas |-> 2], [service |-> 2, gas |-> 2]>>,
             <<[service |-> 1, gas |-> 3], [service |-> 2, gas |-> 2]>>,
             <<[service |-> 6, gas |-> 1], [service |-> 2, gas |-> 2]>>,
             <<[service |-> 4, gas |-> 2], [service |-> 5, gas |-> 1]>>,
             <<[service |-> 5, gas |-> 2]>>}
=============================================================================
