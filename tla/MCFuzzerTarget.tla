--------------------------- MODULE MCFuzzerTarget ---------------------------
(* A tree with forks that compete, and two blocks the codec refuses, one   *)
(* of them in a message whose length ends in 1.                            *)
EXTENDS FuzzerTarget, TLC

MCBlocks == {"g", "a1", "a2", "b1", "b2", "c1", "c2", "x1", "x2"}

MCParent ==
  "g" :> NoBlock @@ "a1" :> "g" @@ "a2" :> "g" @@ "b1" :> "a1" @@ "b2" :> "a2"
  @@ "c1" :> "b1" @@ "c2" :> "b1" @@ "x1" :> "b1" @@ "x2" :> "g"

MCSlot ==
  "g" :> 0 @@ "a1" :> 1 @@ "a2" :> 1 @@ "b1" :> 3 @@ "b2" :> 2
  @@ "c1" :> 4 @@ "c2" :> 4 @@ "x1" :> 4 @@ "x2" :> 1

MCSize ==
  "peerInfo" :> 2 @@ "initialize" :> 3 @@ "importBlock" :> 3 @@ "getState" :> 2
  @@ "stateRoot" :> 2 @@ "state" :> 3 @@ "error" :> 2
=============================================================================
