----------------------------- MODULE MCSafrole -----------------------------
(* Four keys for three seats, one ring with an emptied seat; epochs of four *)
(* slots, three of them open for tickets, so that more tickets than slots   *)
(* can be brought.                                                          *)
EXTENDS Safrole, TLC

MCValidatorSets == {<<"k1", "k2", "k3">>, <<"k4", NoKey, "k2">>}

KeyNumber == "k1" :> 0 @@ "k2" :> 1 @@ "k3" :> 2 @@ "k4" :> 3

(* Identifiers in another order for every entropy: 7 and 12 are coprime.   *)
MCId ==
  LET Draw(t) == 7 * (KeyNumber[t.key] * (N + 1) + t.attempt) + 5 * (t.eta + 3 * E)
      Size == Cardinality(Keys) * (N + 1)
  IN  [t \in Tickets |-> (Draw(t) % Size) + Size * (t.eta + 3 * E)]

MCFallbackSeat ==
  [x \in Etas \X (0 .. E - 1) |-> ((x[1] + 2 * x[2] + 3 * E) % V) + 1]
=============================================================================
