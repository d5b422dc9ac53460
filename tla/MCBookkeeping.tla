--------------------------- MODULE MCBookkeeping ---------------------------
(***************************************************************************)
(* Four validators, two for each of two cores; rotations of two slots,     *)
(* epochs of four.  Blocks come one or five slots after each other:        *)
(* within a rotation, across one, and leaving out an epoch.                *)
(***************************************************************************)
EXTENDS Bookkeeping

MCDraws == [e \in 0..2 |-> CASE e = 0 -> <<3, 1, 1, 0>> [] e = 1 -> <<2, 5, 0, 7>> [] e = 2 -> <<0, 2, 1, 4>>]
MCMix(e, t) == (e + t + 1) % 3

MCValidatorSets == {<<"k1", "k2", "k3", "k4">>, <<"k3", "k1", "k5", "k6">>}
MCCulprits == {"k3"}

Digest(service, limit, used) == [service |-> service, gasLimit |-> limit, used |-> used]
MCWorks == {<<Digest("a", 1, 1), Digest("b", 2, 2)>>, <<Digest("b", 5, 1)>>}
MCMinGas == [s \in {"a", "b"} |-> IF s = "a" THEN 1 ELSE 2]

MCQueues == {[c \in Cores |-> <<"x", "y">>], [c \in Cores |-> <<"y", "y">>]}
MCLoads == {[author |-> 1, tickets |-> 1, preimages |-> <<"b">>]}
MCTurnouts == {{}, Validators}
MCGaps == {1, 5}
=============================================================================
