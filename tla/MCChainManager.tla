--------------------------- MODULE MCChainManager ---------------------------
(* A small block tree.  Of the three forks on the genesis two compete for  *)
(* one slot and the third has another; so do two forks further on, of      *)
(* which one comes after a block of another branch for the same slot.      *)
EXTENDS ForkHistory, TLC

MCBlocks == {"g", "a1", "a2", "a3", "b1", "b2", "b3", "c1", "c2"}

MCParent ==
  "g" :> NoBlock @@ "a1" :> "g" @@ "a2" :> "g" @@ "a3" :> "g" @@ "b1" :> "a1" @@ "b2" :> "a2"
  @@ "b3" :> "a3" @@ "c1" :> "b1" @@ "c2" :> "b1"

MCSlot ==
  "g" :> 0 @@ "a1" :> 1 @@ "a2" :> 2 @@ "a3" :> 1 @@ "b1" :> 3 @@ "b2" :> 3
  @@ "b3" :> 2 @@ "c1" :> 4 @@ "c2" :> 5
=============================================================================
