--------------------------- MODULE MountainRange ---------------------------
(***************************************************************************)
(* The accumulator of accumulation outputs: a range of perfect binary      *)
(* trees, at most one of each height.  A hash of two hashes is modelled by *)
(* the sequence of leaves under it, no peak by the empty sequence.         *)
(***************************************************************************)
EXTENDS Integers, SequencesExt

NoPeak == <<>>

\* What a tree becomes that meets those peaks one after the other.
GrownBy(tree, met) == FoldLeft(LAMBDA el, peak : peak \o el, tree, met)

\* appendMMR: the new tree takes the first free place, on its way there it
\* grows by every peak it meets, which leave theirs.
appendMMR(peaks, newPeak) ==
  LET places == {i \in 1..Len(peaks) + 1 : i = Len(peaks) + 1 \/ peaks[i] = NoPeak}
      free == CHOOSE i \in places : \A j \in places : i <= j
      grown == GrownBy(newPeak, SubSeq(peaks, 1, free - 1))
  IN  [i \in 1..(IF free > Len(peaks) THEN free ELSE Len(peaks)) |->
          IF i < free THEN NoPeak ELSE IF i = free THEN grown ELSE peaks[i]]

\* MMRSuperPeak: the hash of all peaks there are.
MMRSuperPeak(peaks) == SelectSeq(peaks, LAMBDA peak : peak # NoPeak)
=============================================================================
