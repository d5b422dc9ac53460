----------------------------- MODULE MCDisputes -----------------------------
(* Four seats, two of them dishonest: a verdict needs three judgements.     *)
EXTENDS Disputes

CONSTANTS h1, h2, d1, d2, d3

MCValidatorSets == {<<h1, h2, d1, d2>>, <<d2, h1, d3, h2>>}
=============================================================================
