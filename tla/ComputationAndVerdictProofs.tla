--------------------- MODULE ComputationAndVerdictProofs ---------------------
(***************************************************************************)
(* Proofs about the two ends of a work report.                             *)
(*                                                                         *)
(* Its computation: about Refinement for every package, every program an   *)
(* item may run, every gas and every inner machine, over the interpreter   *)
(* PvmJs for words of any width.                                           *)
(*                                                                         *)
(* The verdict about it: about Disputes for every number of validators,    *)
(* every validator sets in which dishonest seats stay below the quorum,    *)
(* and any verdicts, culprits and faults.                                  *)
(***************************************************************************)
EXTENDS Disputes, Refinement, FiniteSetTheorems, SequenceTheorems, WellFoundedInduction, TLAPS

(***************************************************************************)
(*                              THE VERDICT                                *)
(***************************************************************************)

(* One step, with the guards that hold of its extrinsic.                   *)
Step(newEpoch, iota, verdicts, culprits, faults) ==
  /\ \A r \in DOMAIN verdicts : VerdictValid(r, verdicts[r])
  /\ CulpritsValid(verdicts, culprits)
  /\ FaultsValid(verdicts, faults)
  /\ Block(newEpoch, iota, verdicts, culprits, faults)

LEMMA NextIsStep ==
  ASSUME Next
  PROVE  \E T \in SUBSET Reports, C \in SUBSET Keys, F \in SUBSET Keys :
         \E verdicts \in [T -> Ballots], culprits \in [C -> Reports],
            faults \in [F -> [target : Reports, vote : BOOLEAN]],
            newEpoch \in epoch .. MaxEpoch, iota \in ValidatorSets :
           Step(newEpoch, iota, verdicts, culprits, faults)
<1>a. PICK T \in UpTo(MaxVerdicts, Reports) : \E verdicts \in [T -> Ballots] :
        /\ \A r \in T : VerdictValid(r, verdicts[r])
        /\ \E C \in UpTo(MaxCulprits, Keys) : \E culprits \in [C -> Reports] :
             /\ CulpritsValid(verdicts, culprits)
             /\ \E F \in UpTo(MaxFaults, Keys) :
                \E faults \in [F -> [target : Reports, vote : BOOLEAN]] :
                  /\ FaultsValid(verdicts, faults)
                  /\ \E newEpoch \in epoch .. MaxEpoch, iota \in ValidatorSets :
                       Block(newEpoch, iota, verdicts, culprits, faults)
  BY Zenon DEF Next
<1>b. PICK verdicts \in [T -> Ballots] :
        /\ \A r \in T : VerdictValid(r, verdicts[r])
        /\ \E C \in UpTo(MaxCulprits, Keys) : \E culprits \in [C -> Reports] :
             /\ CulpritsValid(verdicts, culprits)
             /\ \E F \in UpTo(MaxFaults, Keys) :
                \E faults \in [F -> [target : Reports, vote : BOOLEAN]] :
                  /\ FaultsValid(verdicts, faults)
                  /\ \E newEpoch \in epoch .. MaxEpoch, iota \in ValidatorSets :
                       Block(newEpoch, iota, verdicts, culprits, faults)
  BY <1>a, Zenon
<1>c. PICK C \in UpTo(MaxCulprits, Keys) : \E culprits \in [C -> Reports] :
             /\ CulpritsValid(verdicts, culprits)
             /\ \E F \in UpTo(MaxFaults, Keys) :
                \E faults \in [F -> [target : Reports, vote : BOOLEAN]] :
                  /\ FaultsValid(verdicts, faults)
                  /\ \E newEpoch \in epoch .. MaxEpoch, iota \in ValidatorSets :
                       Block(newEpoch, iota, verdicts, culprits, faults)
  BY <1>b, Zenon
<1>d. PICK culprits \in [C -> Reports], F \in UpTo(MaxFaults, Keys) :
        /\ CulpritsValid(verdicts, culprits)
        /\ \E faults \in [F -> [target : Reports, vote : BOOLEAN]] :
             /\ FaultsValid(verdicts, faults)
             /\ \E newEpoch \in epoch .. MaxEpoch, iota \in ValidatorSets :
                  Block(newEpoch, iota, verdicts, culprits, faults)
  BY <1>c, Zenon
<1>1. PICK faults \in [F -> [target : Reports, vote : BOOLEAN]],
           newEpoch \in epoch .. MaxEpoch, iota \in ValidatorSets :
        /\ FaultsValid(verdicts, faults)
        /\ Block(newEpoch, iota, verdicts, culprits, faults)
  BY <1>d, Zenon
<1>2. T \in SUBSET Reports /\ C \in SUBSET Keys /\ F \in SUBSET Keys
  BY DEF UpTo
<1>3. Step(newEpoch, iota, verdicts, culprits, faults)
  BY <1>b, <1>d, <1>1 DEF Step
<1> QED
  BY <1>2, <1>3, Zenon

-----------------------------------------------------------------------------
LEMMA TypeStep ==
  ASSUME TypeOK,
         NEW T \in SUBSET Reports, NEW C \in SUBSET Keys, NEW F \in SUBSET Keys,
         NEW verdicts \in [T -> Ballots], NEW culprits \in [C -> Reports],
         NEW faults \in [F -> [target : Reports, vote : BOOLEAN]],
         NEW newEpoch \in epoch .. MaxEpoch, NEW iota \in ValidatorSets,
         Step(newEpoch, iota, verdicts, culprits, faults)
  PROVE  TypeOK'
<1> USE ConstantsAssumption
<1>1. epoch' \in Nat
  BY DEF Step, Block, TypeOK
<1>2. /\ good' \subseteq Reports /\ bad' \subseteq Reports /\ wonky' \subseteq Reports
      /\ offenders' \subseteq Keys
  BY DEF Step, Block, Record, TypeOK, VotedGood, VotedBad, VotedWonky
<1>3. gammaP' \in Seats /\ kappa' \in Seats /\ lambda' \in Seats
  BY DEF Step, Block, RotateValidators, TypeOK, Phi, Seats
<1>4. sinceOffence' \in [Keys -> 0 .. 3]
  BY DEF Step, Block, CountEpochs, TypeOK
<1> QED
  BY <1>1, <1>2, <1>3, <1>4 DEF TypeOK

(* Type correctness.                                                       *)
THEOREM TypeCorrect == Spec => []TypeOK
<1>1. Init => TypeOK
  BY ConstantsAssumption DEF Init, TypeOK, Seats
<1>2. TypeOK /\ [Next]_vars => TypeOK'
  <2>1. TypeOK /\ Next => TypeOK'
    BY NextIsStep, TypeStep
  <2>2. TypeOK /\ UNCHANGED vars => TypeOK'
    BY DEF TypeOK, vars
  <2> QED
    BY <2>1, <2>2
<1> QED
  BY <1>1, <1>2, PTL DEF Spec

-----------------------------------------------------------------------------
(* A report has at most one verdict for ever: a valid verdict is about a   *)
(* report without one, and one list decides a report once.                 *)
THEOREM OneVerdict == Spec => []VerdictsDisjoint
<1>1. Init => VerdictsDisjoint
  BY DEF Init, VerdictsDisjoint
<1>2. TypeOK /\ VerdictsDisjoint /\ [Next]_vars => VerdictsDisjoint'
  <2>1. ASSUME VerdictsDisjoint,
               NEW T \in SUBSET Reports, NEW C \in SUBSET Keys, NEW F \in SUBSET Keys,
               NEW verdicts \in [T -> Ballots], NEW culprits \in [C -> Reports],
               NEW faults \in [F -> [target : Reports, vote : BOOLEAN]],
               NEW newEpoch \in epoch .. MaxEpoch, NEW iota \in ValidatorSets,
               Step(newEpoch, iota, verdicts, culprits, faults)
        PROVE  VerdictsDisjoint'
    <3>1. \A r \in DOMAIN verdicts : r \notin good \cup bad \cup wonky
      BY <2>1 DEF Step, VerdictValid, AlreadyJudged
    <3>2. VotedGood(verdicts) \cap VotedBad(verdicts) = {}
      BY ConstantsAssumption DEF VotedGood, VotedBad, MinimumValidators
    <3>3. VotedGood(verdicts) \cup VotedBad(verdicts) \cup VotedWonky(verdicts)
            \subseteq DOMAIN verdicts
      BY DEF VotedGood, VotedBad, VotedWonky
    <3>4. /\ good' = good \cup VotedGood(verdicts)
          /\ bad' = bad \cup VotedBad(verdicts)
          /\ wonky' = wonky \cup VotedWonky(verdicts)
      BY <2>1 DEF Step, Block, Record
    <3>5. VotedWonky(verdicts) \cap (VotedGood(verdicts) \cup VotedBad(verdicts)) = {}
      BY DEF VotedWonky
    <3> QED
      BY <2>1, <3>1, <3>2, <3>3, <3>4, <3>5 DEF VerdictsDisjoint
  <2>2. VerdictsDisjoint /\ Next => VerdictsDisjoint'
    BY <2>1, NextIsStep
  <2>3. VerdictsDisjoint /\ UNCHANGED vars => VerdictsDisjoint'
    BY DEF VerdictsDisjoint, vars
  <2> QED
    BY <2>2, <2>3
<1> QED
  BY <1>1, <1>2, TypeCorrect, PTL DEF Spec

-----------------------------------------------------------------------------
(* The seats of a validator set that a dishonest key holds.                *)
Dishonest(seats) == {i \in Indices : seats[i] \in Keys \ Honest}

FewDishonest(seats) == Cardinality(Dishonest(seats)) < MinimumValidators

(* The strengthening of HonestNeverPunished: the judges' assumption holds  *)
(* of every validator set in office, and verdicts tell the truth.          *)
HonestInv ==
  /\ FewDishonest(gammaP) /\ FewDishonest(kappa) /\ FewDishonest(lambda)
  /\ VerdictsTruthful
  /\ HonestNeverPunished

LEMMA MinimumIsNat == MinimumValidators \in Nat /\ MinimumValidators > 0
BY ConstantsAssumption DEF MinimumValidators

LEMMA SeatsFinite ==
  ASSUME NEW S \in SUBSET Indices
  PROVE  IsFiniteSet(S) /\ Cardinality(S) \in Nat
<1>1. IsFiniteSet(Indices)
  BY ConstantsAssumption, FS_Interval DEF Indices
<1> QED
  BY <1>1, FS_Subset, FS_CardinalityType

(* Emptying the seats of offenders leaves no more dishonest seats.         *)
LEMMA PhiKeepsMinority ==
  ASSUME NEW iota \in ValidatorSets, NEW O
  PROVE  FewDishonest(Phi(iota, O))
<1>1. Dishonest(Phi(iota, O)) \subseteq Dishonest(iota)
  BY ConstantsAssumption DEF Dishonest, Phi
<1>2. Dishonest(iota) \subseteq Indices
  BY DEF Dishonest
<1>3. Cardinality(Dishonest(Phi(iota, O))) <= Cardinality(Dishonest(iota))
  BY <1>1, <1>2, SeatsFinite, FS_Subset
<1>4. Cardinality(Dishonest(iota)) < MinimumValidators
  BY HonestJudges DEF MinimumValidators, Dishonest
<1>5. /\ Cardinality(Dishonest(iota)) \in Nat
      /\ Cardinality(Dishonest(Phi(iota, O))) \in Nat
  BY <1>1, <1>2, SeatsFinite
<1> QED
  BY <1>3, <1>4, <1>5, MinimumIsNat DEF FewDishonest

(* Among the judges of a valid verdict one is honest, and says the truth.  *)
LEMMA HonestJudge ==
  ASSUME TypeOK, FewDishonest(kappa), FewDishonest(lambda),
         NEW r \in Reports, NEW ballot \in Ballots, VerdictValid(r, ballot)
  PROVE  \E i \in DOMAIN ballot.votes : ballot.votes[i] <=> r \in Valid
<1> DEFINE judges == DOMAIN ballot.votes
           seats == JudgingSet(ballot)
<1>1. judges \subseteq Indices
  BY DEF Ballots
<1>2. Cardinality(judges) = MinimumValidators
  BY DEF VerdictValid
<1>3. FewDishonest(seats)
  BY DEF JudgingSet
<1>4. ~ (judges \subseteq Dishonest(seats))
  <2> SUFFICES ASSUME judges \subseteq Dishonest(seats) PROVE FALSE
    OBVIOUS
  <2>1. Dishonest(seats) \subseteq Indices
    BY DEF Dishonest
  <2>2. Cardinality(judges) <= Cardinality(Dishonest(seats))
    BY <2>1, SeatsFinite, FS_Subset
  <2>3. Cardinality(Dishonest(seats)) \in Nat
    BY <2>1, SeatsFinite
  <2> HIDE DEF judges, seats
  <2> QED
    BY <1>2, <1>3, <2>2, <2>3, MinimumIsNat DEF FewDishonest
<1>5. PICK i \in judges : i \notin Dishonest(seats)
  BY <1>4
<1>6. SignsJudgement(seats[i], r, ballot.votes[i])
  BY <1>5 DEF VerdictValid
<1>7. seats[i] \in Honest
  BY <1>1, <1>5, <1>6 DEF SignsJudgement, Dishonest
<1> QED
  BY <1>5, <1>6, <1>7 DEF SignsJudgement

(* What a valid verdict decides is the truth.                              *)
LEMMA VerdictTells ==
  ASSUME TypeOK, FewDishonest(kappa), FewDishonest(lambda),
         NEW r \in Reports, NEW ballot \in Ballots, VerdictValid(r, ballot)
  PROVE  /\ Ayes(ballot) = 0 => r \notin Valid
         /\ Ayes(ballot) = MinimumValidators => r \in Valid
<1> DEFINE judges == DOMAIN ballot.votes
           ayes == {i \in judges : ballot.votes[i]}
<1>1. PICK i \in judges : ballot.votes[i] <=> r \in Valid
  BY HonestJudge
<1>2. judges \subseteq Indices /\ ayes \subseteq judges
  BY DEF Ballots
<1>3. IsFiniteSet(judges) /\ IsFiniteSet(ayes)
  BY <1>2, SeatsFinite
<1>4. Ayes(ballot) = Cardinality(ayes)
  BY DEF Ayes
<1>5. ASSUME Ayes(ballot) = 0 PROVE r \notin Valid
  <2>1. ayes = {}
    BY <1>3, <1>4, <1>5, FS_EmptySet
  <2> QED
    BY <1>1, <2>1
<1>6. ASSUME Ayes(ballot) = MinimumValidators PROVE r \in Valid
  <2>1. Cardinality(judges) = Cardinality(ayes)
    BY <1>4, <1>6 DEF VerdictValid
  <2>2. ayes = judges
    BY <1>2, <1>3, <2>1, FS_Subset
  <2> QED
    BY <1>1, <2>2
<1> QED
  BY <1>5, <1>6

LEMMA HonestStep ==
  ASSUME TypeOK, VerdictsDisjoint, HonestInv,
         NEW T \in SUBSET Reports, NEW C \in SUBSET Keys, NEW F \in SUBSET Keys,
         NEW verdicts \in [T -> Ballots], NEW culprits \in [C -> Reports],
         NEW faults \in [F -> [target : Reports, vote : BOOLEAN]],
         NEW newEpoch \in epoch .. MaxEpoch, NEW iota \in ValidatorSets,
         Step(newEpoch, iota, verdicts, culprits, faults)
  PROVE  HonestInv'
<1>1. FewDishonest(gammaP)' /\ FewDishonest(kappa)' /\ FewDishonest(lambda)'
  BY PhiKeepsMinority DEF HonestInv, Step, Block, RotateValidators, FewDishonest, Dishonest
<1>2. \A r \in T : /\ Ayes(verdicts[r]) = 0 => r \notin Valid
                   /\ Ayes(verdicts[r]) = MinimumValidators => r \in Valid
  BY VerdictTells DEF HonestInv, Step
<1>3. /\ good' = good \cup VotedGood(verdicts) /\ VotedGood(verdicts) \subseteq Valid
      /\ bad' = bad \cup VotedBad(verdicts) /\ VotedBad(verdicts) \cap Valid = {}
      /\ offenders' = offenders \cup C \cup F
  <2>1. DOMAIN verdicts = T /\ DOMAIN culprits = C /\ DOMAIN faults = F
    OBVIOUS
  <2>2. VotedGood(verdicts) \subseteq Valid /\ VotedBad(verdicts) \cap Valid = {}
    BY <1>2, <2>1 DEF VotedGood, VotedBad
  <2>3. /\ good' = good \cup VotedGood(verdicts)
        /\ bad' = bad \cup VotedBad(verdicts)
        /\ offenders' = offenders \cup DOMAIN culprits \cup DOMAIN faults
    BY Zenon DEF Step, Block, Record
  <2> QED
    BY <2>1, <2>2, <2>3
<1>4. VerdictsTruthful'
  BY <1>3 DEF HonestInv, VerdictsTruthful
<1>5. \A k \in C : k \notin Honest
  <2>1. \A k \in C : culprits[k] \in bad' /\ SignsGuarantee(k, culprits[k])
    BY <1>3 DEF Step, CulpritsValid
  <2> QED
    BY <1>4, <2>1 DEF VerdictsTruthful, SignsGuarantee
<1>6. \A k \in F : k \notin Honest
  <2> TAKE k \in F
  <2>1. SignsJudgement(k, faults[k].target, faults[k].vote)
    BY DEF Step, FaultsValid
  <2>2. Contradicts(faults[k], bad', good')
    BY <1>3 DEF Step, FaultsValid
  <2>3. CASE faults[k].vote
    BY <1>4, <2>1, <2>2, <2>3 DEF SignsJudgement, Contradicts, VerdictsTruthful
  <2>4. CASE ~faults[k].vote
    BY <1>4, <2>1, <2>2, <2>4 DEF SignsJudgement, Contradicts, VerdictsTruthful
  <2> QED
    BY <2>3, <2>4
<1> QED
  BY <1>1, <1>3, <1>4, <1>5, <1>6 DEF HonestInv, HonestNeverPunished

LEMMA HonestInvariant == Spec => []HonestInv
<1>1. Init => HonestInv
  BY HonestJudges
  DEF Init, HonestInv, FewDishonest, Dishonest, MinimumValidators, VerdictsTruthful,
      HonestNeverPunished
<1>2. TypeOK /\ VerdictsDisjoint /\ HonestInv /\ [Next]_vars => HonestInv'
  <2>1. TypeOK /\ VerdictsDisjoint /\ HonestInv /\ Next => HonestInv'
    BY NextIsStep, HonestStep
  <2>2. HonestInv /\ UNCHANGED vars => HonestInv'
    BY DEF HonestInv, vars, FewDishonest, Dishonest, VerdictsTruthful, HonestNeverPunished
  <2> QED
    BY <2>1, <2>2
<1> QED
  BY <1>1, <1>2, TypeCorrect, OneVerdict, PTL DEF Spec

(* Recorded verdicts tell the truth.                                       *)
THEOREM TruthfulVerdicts == Spec => []VerdictsTruthful
<1>1. HonestInv => VerdictsTruthful
  BY DEF HonestInv
<1> QED
  BY <1>1, HonestInvariant, PTL

(* No honest validator becomes an offender.                                *)
THEOREM HonestSafe == Spec => []HonestNeverPunished
<1>1. HonestInv => HonestNeverPunished
  BY DEF HonestInv
<1> QED
  BY <1>1, HonestInvariant, PTL

-----------------------------------------------------------------------------
(* An offender is gone from every validator set after three epoch changes. *)
THEOREM Expulsion == Spec => []OffendersExpelled
<1> DEFINE Inv == OffendersExpelled /\ (\A k \in Keys \ offenders : sinceOffence[k] = 0)
<1>1. Init => Inv
  BY DEF Init, OffendersExpelled
<1>2. TypeOK /\ Inv /\ [Next]_vars => Inv'
  <2>1. ASSUME TypeOK, Inv,
               NEW T \in SUBSET Reports, NEW C \in SUBSET Keys, NEW F \in SUBSET Keys,
               NEW verdicts \in [T -> Ballots], NEW culprits \in [C -> Reports],
               NEW faults \in [F -> [target : Reports, vote : BOOLEAN]],
               NEW newEpoch \in epoch .. MaxEpoch, NEW iota \in ValidatorSets,
               Step(newEpoch, iota, verdicts, culprits, faults)
        PROVE  Inv'
    <3>1. TypeOK'
      BY <2>1, TypeStep
    <3>2. offenders \subseteq offenders' /\ offenders' \subseteq Keys
      BY <2>1, <3>1 DEF Step, Block, Record, TypeOK
    <3>3. \A k \in Keys : sinceOffence'[k] =
              IF k \in offenders /\ newEpoch > epoch /\ sinceOffence[k] < 3
              THEN sinceOffence[k] + 1 ELSE sinceOffence[k]
      BY <2>1 DEF Step, Block, CountEpochs
    <3>4. \A k \in Keys \ offenders' : sinceOffence'[k] = 0
      BY <2>1, <3>2, <3>3
    <3>5. CASE newEpoch > epoch
      <4>1. /\ lambda' = kappa /\ kappa' = gammaP
            /\ gammaP' = Phi(iota, offenders')
        BY <2>1, <3>5 DEF Step, Block, RotateValidators
      <4>2. \A k \in offenders' : k \notin Seated(gammaP')
        BY <3>2, <4>1, ConstantsAssumption DEF Seated, Phi
      <4>3. ASSUME NEW k \in offenders'
            PROVE  /\ sinceOffence'[k] >= 2 => k \in offenders /\ sinceOffence[k] >= 1
                   /\ sinceOffence'[k] >= 3 => k \in offenders /\ sinceOffence[k] >= 2
        BY <2>1, <3>2, <3>3, <4>3 DEF TypeOK
      <4> QED
        BY <2>1, <3>4, <4>1, <4>2, <4>3 DEF OffendersExpelled
    <3>6. CASE ~(newEpoch > epoch)
      <4>1. UNCHANGED <<gammaP, kappa, lambda>>
        BY <2>1, <3>6 DEF Step, Block, RotateValidators
      <4>2. \A k \in Keys : sinceOffence'[k] = sinceOffence[k]
        BY <3>3, <3>6
      <4> QED
        BY <2>1, <3>2, <3>4, <4>1, <4>2 DEF OffendersExpelled
    <3> QED
      BY <3>5, <3>6
  <2>2. TypeOK /\ Inv /\ Next => Inv'
    BY <2>1, NextIsStep
  <2>3. Inv /\ UNCHANGED vars => Inv'
    BY DEF OffendersExpelled, vars
  <2> QED
    BY <2>2, <2>3
<1>3. Inv => OffendersExpelled
  OBVIOUS
<1> QED
  BY <1>1, <1>2, <1>3, TypeCorrect, PTL DEF Spec

(***************************************************************************)
(*                            THE COMPUTATION                              *)
(***************************************************************************)

(* Induction without a predicate: a nonempty set of numbers has a least    *)
(* element, since the intervals up to its members are finite sets and      *)
(* strict inclusion of these is well founded.                              *)
LEMMA LeastElement ==
  ASSUME NEW S \in SUBSET Nat, S # {}
  PROVE  \E m \in S : \A n \in S : m <= n
<1>. DEFINE T == {0 .. n : n \in S}
<1>1. T \subseteq FiniteSubsetsOf(Nat)
  <2>1. ASSUME NEW n \in S PROVE 0 .. n \in SUBSET Nat /\ IsFiniteSet(0 .. n)
    BY FS_Interval
  <2>. QED
    BY <2>1 DEF FiniteSubsetsOf
<1>2. T # {}
  OBVIOUS
<1>3. \E t \in T : \A u \in T : <<u, t>> \notin StrictSubsetOrdering(Nat)
  <2>. HIDE DEF T
  <2>. QED
    BY <1>1, <1>2, FS_StrictSubsetOrderingWellFounded, WFMin
<1>4. PICK m \in S : \A u \in T : <<u, 0 .. m>> \notin StrictSubsetOrdering(Nat)
  BY <1>3
<1>5. ASSUME NEW n \in S, n < m PROVE FALSE
  <2>1. <<0 .. n, 0 .. m>> \notin StrictSubsetOrdering(Nat)
    BY <1>4
  <2>2. 0 .. n \in SUBSET Nat /\ 0 .. m \in SUBSET Nat /\ 0 .. n \subseteq 0 .. m
    BY <1>5
  <2>3. m \in 0 .. m /\ m \notin 0 .. n
    BY <1>5
  <2>. QED
    BY <2>1, <2>2, <2>3 DEF StrictSubsetOrdering
<1>. QED
  BY <1>5

(* Induction, on the members of a set up to a bound.                       *)
LEMMA Induction ==
  ASSUME NEW N \in Nat, NEW S, 0 \in S,
         \A n \in 0 .. N - 1 : n \in S => n + 1 \in S
  PROVE  \A n \in 0 .. N : n \in S
<1>. DEFINE Bad == {n \in 0 .. N : n \notin S}
<1>. SUFFICES ASSUME Bad # {} PROVE FALSE
  OBVIOUS
<1>1. PICK m \in Bad : \A n \in Bad : m <= n
  <2>. Bad \in SUBSET Nat
    OBVIOUS
  <2>. HIDE DEF Bad
  <2>. QED
    BY LeastElement
<1>2. m # 0 /\ m - 1 \in 0 .. N - 1 /\ (m - 1) + 1 = m
  BY <1>1
<1>3. m - 1 \in S
  BY <1>1, <1>2
<1>. QED
  BY <1>1, <1>2, <1>3

-----------------------------------------------------------------------------
(* The machine with these parts; and a machine is made of its parts.       *)
MachineOf(pc, g, w, acl, mem, heap, exit) ==
  [pc |-> pc, gas |-> g, w |-> w, acl |-> acl, mem |-> mem, heap |-> heap, exit |-> exit]
IsMachine(m) == m = MachineOf(m.pc, m.gas, m.w, m.acl, m.mem, m.heap, m.exit)

(* Two machines that differ in their gas at most.                          *)
SameButGas(p, q) ==
  /\ IsMachine(p) /\ IsMachine(q)
  /\ p.pc = q.pc /\ p.w = q.w /\ p.acl = q.acl /\ p.mem = q.mem /\ p.heap = q.heap
  /\ p.exit = q.exit

LEMMA SameMachine ==
  ASSUME NEW p, NEW q, SameButGas(p, q), p.gas = q.gas
  PROVE  p = q
BY DEF SameButGas, IsMachine

LEMMA PartsOfMachine ==
  ASSUME NEW pc, NEW g, NEW w, NEW acl, NEW mem, NEW heap, NEW exit, NEW m,
         m = MachineOf(pc, g, w, acl, mem, heap, exit)
  PROVE  /\ IsMachine(m)
         /\ m.pc = pc /\ m.gas = g /\ m.w = w /\ m.acl = acl /\ m.mem = mem
         /\ m.heap = heap /\ m.exit = exit
BY DEF MachineOf, IsMachine

(* What one primitive does to two such machines: it leaves the gas alone   *)
(* and treats them alike.                                                  *)
Ends == {"panic", "hostCall", "halt", "pageFault"}
Alike(p1, q1, p, q) ==
  /\ SameButGas(p1, q1)
  /\ p1.gas = p.gas /\ q1.gas = q.gas
  /\ p1.exit = p.exit \/ p1.exit.why \in Ends

LEMMA AlikeBy ==
  ASSUME NEW p, NEW q, NEW p1, NEW q1, NEW pc, NEW w, NEW acl, NEW mem, NEW heap, NEW exit,
         exit = p.exit \/ exit.why \in Ends,
         p1 = MachineOf(pc, p.gas, w, acl, mem, heap, exit),
         q1 = MachineOf(pc, q.gas, w, acl, mem, heap, exit)
  PROVE  Alike(p1, q1, p, q)
BY PartsOfMachine DEF Alike, SameButGas

LEMMA WithPart ==
  ASSUME NEW m, IsMachine(m), NEW v
  PROVE  /\ [m EXCEPT !.pc = v] = MachineOf(v, m.gas, m.w, m.acl, m.mem, m.heap, m.exit)
         /\ [m EXCEPT !.gas = v] = MachineOf(m.pc, v, m.w, m.acl, m.mem, m.heap, m.exit)
         /\ [m EXCEPT !.w = v] = MachineOf(m.pc, m.gas, v, m.acl, m.mem, m.heap, m.exit)
         /\ [m EXCEPT !.mem = v] = MachineOf(m.pc, m.gas, m.w, m.acl, v, m.heap, m.exit)
         /\ [m EXCEPT !.exit = v] = MachineOf(m.pc, m.gas, m.w, m.acl, m.mem, m.heap, v)
BY DEF IsMachine, MachineOf

LEMMA WithRegister ==
  ASSUME NEW m, IsMachine(m), NEW r, NEW v
  PROVE  [m EXCEPT !.w[r] = v]
           = MachineOf(m.pc, m.gas, [m.w EXCEPT ![r] = v], m.acl, m.mem, m.heap, m.exit)
BY DEF IsMachine, MachineOf

LEMMA AlikeSelf ==
  ASSUME NEW p, NEW q, SameButGas(p, q)
  PROVE  Alike(p, q, p, q)
BY DEF Alike

LEMMA AlikeLeave ==
  ASSUME NEW p, NEW q, SameButGas(p, q), NEW exit, exit.why \in Ends
  PROVE  Alike(Leave(p, exit), Leave(q, exit), p, q)
<1>1. /\ Leave(p, exit) = MachineOf(p.pc, p.gas, p.w, p.acl, p.mem, p.heap, exit)
      /\ Leave(q, exit) = MachineOf(p.pc, q.gas, p.w, p.acl, p.mem, p.heap, exit)
  <2>1. IsMachine(p) /\ IsMachine(q)
    BY DEF SameButGas
  <2>2. /\ Leave(p, exit) = MachineOf(p.pc, p.gas, p.w, p.acl, p.mem, p.heap, exit)
        /\ Leave(q, exit) = MachineOf(q.pc, q.gas, q.w, q.acl, q.mem, q.heap, exit)
    BY ONLY <2>1, WithPart DEF Leave
  <2>. QED
    BY <2>2 DEF SameButGas
<1>. QED
  BY <1>1, AlikeBy

LEMMA AlikePc ==
  ASSUME NEW p, NEW q, SameButGas(p, q), NEW pc
  PROVE  Alike([p EXCEPT !.pc = pc], [q EXCEPT !.pc = pc], p, q)
<1>1. /\ [p EXCEPT !.pc = pc] = MachineOf(pc, p.gas, p.w, p.acl, p.mem, p.heap, p.exit)
      /\ [q EXCEPT !.pc = pc] = MachineOf(pc, q.gas, p.w, p.acl, p.mem, p.heap, p.exit)
  <2>1. IsMachine(p) /\ IsMachine(q)
    BY DEF SameButGas
  <2>2. /\ [p EXCEPT !.pc = pc] = MachineOf(pc, p.gas, p.w, p.acl, p.mem, p.heap, p.exit)
        /\ [q EXCEPT !.pc = pc] = MachineOf(pc, q.gas, q.w, q.acl, q.mem, q.heap, q.exit)
    BY ONLY <2>1, WithPart
  <2>. QED
    BY <2>2 DEF SameButGas
<1>. QED
  BY <1>1, AlikeBy

LEMMA AlikeMem ==
  ASSUME NEW p, NEW q, SameButGas(p, q), NEW mem
  PROVE  Alike([p EXCEPT !.mem = mem], [q EXCEPT !.mem = mem], p, q)
<1>1. /\ [p EXCEPT !.mem = mem] = MachineOf(p.pc, p.gas, p.w, p.acl, mem, p.heap, p.exit)
      /\ [q EXCEPT !.mem = mem] = MachineOf(p.pc, q.gas, p.w, p.acl, mem, p.heap, p.exit)
  <2>1. IsMachine(p) /\ IsMachine(q)
    BY DEF SameButGas
  <2>2. /\ [p EXCEPT !.mem = mem] = MachineOf(p.pc, p.gas, p.w, p.acl, mem, p.heap, p.exit)
        /\ [q EXCEPT !.mem = mem] = MachineOf(q.pc, q.gas, q.w, q.acl, mem, q.heap, q.exit)
    BY ONLY <2>1, WithPart
  <2>. QED
    BY <2>2 DEF SameButGas
<1>. QED
  BY <1>1, AlikeBy

LEMMA AlikeRegister ==
  ASSUME NEW p, NEW q, SameButGas(p, q), NEW r, NEW v
  PROVE  Alike([p EXCEPT !.w[r] = v], [q EXCEPT !.w[r] = v], p, q)
<1>. DEFINE w == [p.w EXCEPT ![r] = v]
<1>1. /\ [p EXCEPT !.w[r] = v] = MachineOf(p.pc, p.gas, w, p.acl, p.mem, p.heap, p.exit)
      /\ [q EXCEPT !.w[r] = v] = MachineOf(p.pc, q.gas, w, p.acl, p.mem, p.heap, p.exit)
  <2>1. IsMachine(p) /\ IsMachine(q)
    BY DEF SameButGas
  <2>2. /\ [p EXCEPT !.w[r] = v]
             = MachineOf(p.pc, p.gas, [p.w EXCEPT ![r] = v], p.acl, p.mem, p.heap, p.exit)
        /\ [q EXCEPT !.w[r] = v]
             = MachineOf(q.pc, q.gas, [q.w EXCEPT ![r] = v], q.acl, q.mem, q.heap, q.exit)
    BY ONLY <2>1, WithRegister
  <2>. QED
    BY <2>2 DEF SameButGas
<1>. QED
  BY <1>1, AlikeBy

LEMMA ExitsAreEnds ==
  /\ Panic.why \in Ends
  /\ \A what : Exit("halt", what).why \in Ends /\ Exit("hostCall", what).why \in Ends
               /\ Exit("pageFault", what).why \in Ends
BY DEF Panic, Exit, Ends

LEMMA AlikeBranch ==
  ASSUME NEW p, NEW q, SameButGas(p, q), NEW cache, NEW address, NEW condition, NEW skip
  PROVE  Alike(Branch(p, cache, address, condition, skip),
               Branch(q, cache, address, condition, skip), p, q)
<1>1. CASE condition /\ IsBlockBeginning(cache, address)
  BY <1>1, AlikePc DEF Branch
<1>2. CASE condition /\ ~IsBlockBeginning(cache, address)
  BY <1>2, AlikeLeave, ExitsAreEnds DEF Branch
<1>3. CASE ~condition
  <2>1. /\ Branch(p, cache, address, condition, skip) = [p EXCEPT !.pc = p.pc + skip]
        /\ Branch(q, cache, address, condition, skip) = [q EXCEPT !.pc = p.pc + skip]
    BY <1>3 DEF Branch, SameButGas
  <2>. QED
    BY <2>1, AlikePc
<1>. QED
  BY <1>1, <1>2, <1>3

LEMMA AlikeDjump ==
  ASSUME NEW p, NEW q, SameButGas(p, q), NEW prog, NEW cache, NEW a
  PROVE  Alike(Djump(p, prog, cache, a), Djump(q, prog, cache, a), p, q)
<1>. DEFINE Lands == /\ a # HaltAddress
                     /\ a \in 1..Len(prog.j) * ZA
                     /\ a % ZA = 0
                     /\ IsBlockBeginning(cache, prog.j[a \div ZA])
<1>1. CASE a = HaltAddress
  BY <1>1, AlikeLeave, ExitsAreEnds DEF Djump
<1>2. CASE Lands
  BY <1>2, AlikePc DEF Djump
<1>3. CASE a # HaltAddress /\ ~Lands
  BY <1>3, AlikeLeave, ExitsAreEnds DEF Djump
<1>. QED
  BY <1>1, <1>2, <1>3

LEMMA AlikeLoad ==
  ASSUME NEW p, NEW q, SameButGas(p, q), NEW address, NEW n, NEW rA, NEW value
  PROVE  Alike(LoadAt(p, address, n, rA, value), LoadAt(q, address, n, rA, value), p, q)
<1>0. p.acl = q.acl
  BY DEF SameButGas
<1>1. CASE CanRead(p.acl, address, n)
  <2>1. /\ LoadAt(p, address, n, rA, value) = [p EXCEPT !.w[rA] = value]
        /\ LoadAt(q, address, n, rA, value) = [q EXCEPT !.w[rA] = value]
    BY <1>0, <1>1 DEF LoadAt
  <2>2. Alike([p EXCEPT !.w[rA] = value], [q EXCEPT !.w[rA] = value], p, q)
    BY ONLY SameButGas(p, q), AlikeRegister
  <2>. QED
    BY <2>1, <2>2, Zenon
<1>2. CASE ~CanRead(p.acl, address, n)
  <2>. DEFINE location == FirstUnreadable(p.acl, address, n)
              exit == IF location < Pow(2) THEN Panic
                      ELSE Exit("pageFault", Zp * (location % Zp))
  <2>1. /\ LoadAt(p, address, n, rA, value) = Leave(p, exit)
        /\ LoadAt(q, address, n, rA, value) = Leave(q, exit)
    BY <1>0, <1>2 DEF LoadAt, HandleMemoryFault
  <2>2. exit.why \in Ends
    BY ExitsAreEnds
  <2>. HIDE DEF exit, location
  <2>. QED
    BY <2>1, <2>2, AlikeLeave
<1>. QED
  BY <1>1, <1>2

LEMMA AlikeStore ==
  ASSUME NEW p, NEW q, SameButGas(p, q), NEW location, NEW n, NEW value
  PROVE  Alike(StoreSafe(p, location, n, value), StoreSafe(q, location, n, value), p, q)
<1>0. p.acl = q.acl /\ p.mem = q.mem
  BY DEF SameButGas
<1>1. CASE CanWrite(p.acl, location, n)
  <2>. DEFINE mem == WriteAt(p.mem, location, n, value)
  <2>1. /\ StoreSafe(p, location, n, value) = [p EXCEPT !.mem = mem]
        /\ StoreSafe(q, location, n, value) = [q EXCEPT !.mem = mem]
    BY <1>0, <1>1 DEF StoreSafe
  <2>. QED
    BY SMTT(20), <2>1, AlikeMem
<1>2. CASE ~CanWrite(p.acl, location, n)
  <2>. DEFINE exit == Exit("pageFault", FirstUnwriteable(p.acl, location, n))
  <2>1. /\ StoreSafe(p, location, n, value) = Leave(p, exit)
        /\ StoreSafe(q, location, n, value) = Leave(q, exit)
    BY <1>0, <1>2 DEF StoreSafe
  <2>2. exit.why \in Ends
    BY ExitsAreEnds
  <2>. HIDE DEF exit
  <2>. QED
    BY <2>1, <2>2, AlikeLeave
<1>. QED
  BY <1>1, <1>2

(* Two alike steps after one another.                                      *)
LEMMA AlikeThen ==
  ASSUME NEW p, NEW q, NEW p1, NEW q1, NEW p2, NEW q2,
         Alike(p1, q1, p, q), Alike(p2, q2, p1, q1)
  PROVE  Alike(p2, q2, p, q)
BY DEF Alike

LEMMA WithPcAndGas ==
  ASSUME NEW m, IsMachine(m), NEW pc, NEW g
  PROVE  [m EXCEPT !.pc = pc, !.gas = g] = MachineOf(pc, g, m.w, m.acl, m.mem, m.heap, m.exit)
<1>. DEFINE m1 == [m EXCEPT !.pc = pc]
            m2 == [m1 EXCEPT !.gas = g]
<1>1. m1 = MachineOf(pc, m.gas, m.w, m.acl, m.mem, m.heap, m.exit)
  BY DEF IsMachine, MachineOf
<1>2. m2 = MachineOf(pc, g, m.w, m.acl, m.mem, m.heap, m.exit)
  <2>. HIDE DEF m1
  <2>. QED
    BY <1>1 DEF MachineOf
<1>3. m2 = [m EXCEPT !.pc = pc, !.gas = g]
  BY DEF IsMachine, MachineOf
<1>. QED
  BY <1>2, <1>3

LEMMA WithMemory ==
  ASSUME NEW m, IsMachine(m), NEW acl, NEW mem, NEW heap
  PROVE  [m EXCEPT !.acl = acl, !.mem = mem, !.heap = heap]
           = MachineOf(m.pc, m.gas, m.w, acl, mem, heap, m.exit)
<1>. DEFINE m1 == [m EXCEPT !.acl = acl]
            m2 == [m1 EXCEPT !.mem = mem]
            m3 == [m2 EXCEPT !.heap = heap]
<1>1. m1 = MachineOf(m.pc, m.gas, m.w, acl, m.mem, m.heap, m.exit)
  BY DEF IsMachine, MachineOf
<1>2. m2 = MachineOf(m.pc, m.gas, m.w, acl, mem, m.heap, m.exit)
  <2>. HIDE DEF m1
  <2>. QED
    BY <1>1 DEF MachineOf
<1>3. m3 = MachineOf(m.pc, m.gas, m.w, acl, mem, heap, m.exit)
  <2>. HIDE DEF m2
  <2>. QED
    BY <1>2 DEF MachineOf
<1>4. m3 = [m EXCEPT !.acl = acl, !.mem = mem, !.heap = heap]
  BY DEF IsMachine, MachineOf
<1>. QED
  BY <1>3, <1>4

(* The parts of a machine whose heap grew.                                 *)
LEMMA GrownIs ==
  ASSUME NEW m, IsMachine(m), NEW size
  PROVE  LET grows == m.heap.pointer + size >= m.heap.end
             cnt == IF grows THEN (size + Zp - 1) \div Zp ELSE 0
             new == {page \in Pages :
                       page \in m.heap.end \div Zp..(m.heap.end \div Zp) + cnt - 1}
         IN  Sbrk(m, size) =
               MachineOf(m.pc, m.gas, m.w,
                         [p \in Pages |-> IF p \in new THEN "write" ELSE m.acl[p]],
                         [a \in Addresses |-> IF a \div Zp \in new THEN 0 ELSE m.mem[a]],
                         [end |-> m.heap.end + cnt * Zp, pointer |-> m.heap.pointer + size],
                         m.exit)
<1>. DEFINE cnt == IF m.heap.pointer + size >= m.heap.end THEN (size + Zp - 1) \div Zp ELSE 0
            new == {page \in Pages :
                      page \in m.heap.end \div Zp..(m.heap.end \div Zp) + cnt - 1}
            acl == [p \in Pages |-> IF p \in new THEN "write" ELSE m.acl[p]]
            mem == [a \in Addresses |-> IF a \div Zp \in new THEN 0 ELSE m.mem[a]]
            heap == [end |-> m.heap.end + cnt * Zp, pointer |-> m.heap.pointer + size]
<1>1. Sbrk(m, size) = [m EXCEPT !.acl = acl, !.mem = mem, !.heap = heap]
  BY Zenon DEF Sbrk
<1>2. [m EXCEPT !.acl = acl, !.mem = mem, !.heap = heap]
        = MachineOf(m.pc, m.gas, m.w, acl, mem, heap, m.exit)
  <2>. HIDE DEF acl, mem, heap
  <2>. QED
    BY WithMemory
<1>. QED
  BY <1>1, <1>2, Zenon

LEMMA AlikeSbrk ==
  ASSUME NEW p, NEW q, SameButGas(p, q), NEW size
  PROVE  Alike(Sbrk(p, size), Sbrk(q, size), p, q)
<1>1. IsMachine(p) /\ IsMachine(q) /\ p.heap = q.heap /\ p.pc = q.pc /\ p.w = q.w
      /\ p.acl = q.acl /\ p.mem = q.mem /\ p.exit = q.exit
  BY DEF SameButGas
<1>. DEFINE grows == p.heap.pointer + size >= p.heap.end
            cnt == IF grows THEN (size + Zp - 1) \div Zp ELSE 0
            new == {page \in Pages :
                      page \in p.heap.end \div Zp..(p.heap.end \div Zp) + cnt - 1}
            acl == [x \in Pages |-> IF x \in new THEN "write" ELSE p.acl[x]]
            mem == [a \in Addresses |-> IF a \div Zp \in new THEN 0 ELSE p.mem[a]]
            heap == [end |-> p.heap.end + cnt * Zp, pointer |-> p.heap.pointer + size]
<1>2. Sbrk(p, size) = MachineOf(p.pc, p.gas, p.w, acl, mem, heap, p.exit)
  BY ONLY <1>1, GrownIs, Zenon
<1>3. Sbrk(q, size) = MachineOf(p.pc, q.gas, p.w, acl, mem, heap, p.exit)
  <2>1. Sbrk(q, size) =
          MachineOf(q.pc, q.gas, q.w,
                    [x \in Pages |-> IF x \in {page \in Pages :
                       page \in q.heap.end \div Zp..(q.heap.end \div Zp)
                         + (IF q.heap.pointer + size >= q.heap.end
                            THEN (size + Zp - 1) \div Zp ELSE 0) - 1} THEN "write" ELSE q.acl[x]],
                    [a \in Addresses |-> IF a \div Zp \in {page \in Pages :
                       page \in q.heap.end \div Zp..(q.heap.end \div Zp)
                         + (IF q.heap.pointer + size >= q.heap.end
                            THEN (size + Zp - 1) \div Zp ELSE 0) - 1} THEN 0 ELSE q.mem[a]],
                    [end |-> q.heap.end + (IF q.heap.pointer + size >= q.heap.end
                            THEN (size + Zp - 1) \div Zp ELSE 0) * Zp,
                     pointer |-> q.heap.pointer + size],
                    q.exit)
    BY ONLY <1>1, GrownIs, Zenon
  <2>. QED
    BY <2>1, <1>1, Zenon
<1>. HIDE DEF acl, mem, heap
<1>. QED
  BY <1>2, <1>3, AlikeBy

LEMMA AlikeSbrkJs ==
  ASSUME NEW p, NEW q, SameButGas(p, q), NEW o
  PROVE  Alike(SbrkJs(p, o), SbrkJs(q, o), p, q)
<1>. DEFINE size == Float(p.w[o.rA])
            p1 == IF size = 0 THEN p ELSE Sbrk(p, size)
            q1 == IF size = 0 THEN q ELSE Sbrk(q, size)
            location == p.heap.pointer
<1>1. p.w = q.w /\ p.heap = q.heap
  BY DEF SameButGas
<1>2. /\ SbrkJs(p, o) = [p1 EXCEPT !.w[o.rD] = location]
      /\ SbrkJs(q, o) = [q1 EXCEPT !.w[o.rD] = location]
  BY <1>1, Zenon DEF SbrkJs
<1>3. Alike(p1, q1, p, q)
  BY AlikeSelf, AlikeSbrk
<1>4. SameButGas(p1, q1)
  BY <1>3 DEF Alike
<1>. HIDE DEF p1, q1, location
<1>5. Alike([p1 EXCEPT !.w[o.rD] = location], [q1 EXCEPT !.w[o.rD] = location], p1, q1)
  BY <1>4, AlikeRegister
<1>. QED
  BY <1>2, <1>3, <1>5, AlikeThen

LEMMA AlikeBranchAfterMove ==
  ASSUME NEW p, NEW q, SameButGas(p, q), NEW r, NEW v,
         NEW cache, NEW address, NEW condition, NEW skip
  PROVE  Alike(Branch([p EXCEPT !.w[r] = v], cache, address, condition, skip),
               Branch([q EXCEPT !.w[r] = v], cache, address, condition, skip), p, q)
<1>. DEFINE p1 == [p EXCEPT !.w[r] = v]
            q1 == [q EXCEPT !.w[r] = v]
<1>1. Alike(p1, q1, p, q)
  BY AlikeRegister
<1>. HIDE DEF p1, q1
<1>2. SameButGas(p1, q1)
  BY <1>1 DEF Alike
<1>3. Alike(Branch(p1, cache, address, condition, skip),
            Branch(q1, cache, address, condition, skip), p1, q1)
  BY <1>2, AlikeBranch
<1>4. Alike(Branch(p1, cache, address, condition, skip),
            Branch(q1, cache, address, condition, skip), p, q)
  BY <1>1, <1>3, AlikeThen
<1>. QED
  BY <1>4 DEF p1, q1

LEMMA AlikeMoveAfterDjump ==
  ASSUME NEW p, NEW q, SameButGas(p, q), NEW r, NEW v, NEW prog, NEW cache, NEW a
  PROVE  Alike([Djump(p, prog, cache, a) EXCEPT !.w[r] = v],
               [Djump(q, prog, cache, a) EXCEPT !.w[r] = v], p, q)
<1>1. Alike(Djump(p, prog, cache, a), Djump(q, prog, cache, a), p, q)
  BY AlikeDjump
<1>2. PICK p1, q1 : p1 = Djump(p, prog, cache, a) /\ q1 = Djump(q, prog, cache, a)
  OBVIOUS
<1>3. SameButGas(p1, q1)
  BY <1>1, <1>2 DEF Alike
<1>4. Alike([p1 EXCEPT !.w[r] = v], [q1 EXCEPT !.w[r] = v], p1, q1)
  BY <1>3, AlikeRegister
<1>5. Alike([p1 EXCEPT !.w[r] = v], [q1 EXCEPT !.w[r] = v], p, q)
  BY <1>1, <1>2, <1>4, AlikeThen
<1>. QED
  BY <1>2, <1>5, Zenon

LEMMA AlikeMemory ==
  ASSUME NEW p, NEW q, SameButGas(p, q), NEW op \in Loads \cup Stores \cup {101}, NEW o
  PROVE  Alike(EvaluateMemory(op, p, o), EvaluateMemory(op, q, o), p, q)
<1>0. p.w = q.w /\ p.mem = q.mem
  BY DEF SameButGas
<1>1. CASE op \in 52..58
  <2>. DEFINE address == o.vX % Pow(4)
              read == ReadInto(p.mem, address, BytesMoved(op))
              value == IF op \in {53, 55, 57} THEN X_fn(BytesMoved(op), read) ELSE read
  <2>1. /\ EvaluateMemory(op, p, o) = LoadAt(p, address, BytesMoved(op), o.rA, value)
        /\ EvaluateMemory(op, q, o) = LoadAt(q, address, BytesMoved(op), o.rA, value)
    BY <1>0, <1>1 DEF EvaluateMemory, LoadImm
  <2>. HIDE DEF address, value
  <2>. QED
    BY <2>1, AlikeLoad
<1>2. CASE op \in 124..130
  <2>. DEFINE address == (p.w[o.rB] + o.vX) % Pow(4)
              read == ReadInto(p.mem, address, BytesMoved(op))
              value == IF op \in {125, 127, 129} THEN Z_inv(8, Z(BytesMoved(op), read)) ELSE read
  <2>1. /\ EvaluateMemory(op, p, o) = LoadAt(p, address, BytesMoved(op), o.rA, value)
        /\ EvaluateMemory(op, q, o) = LoadAt(q, address, BytesMoved(op), o.rA, value)
    BY <1>0, <1>2 DEF EvaluateMemory, LoadInd
  <2>. HIDE DEF address, value
  <2>. QED
    BY <2>1, AlikeLoad
<1>3. CASE op \in 30..33
  <2>1. EvaluateMemory(op, p, o) = StoreImm(op, p, o) /\ EvaluateMemory(op, q, o) = StoreImm(op, q, o)
    BY <1>3 DEF EvaluateMemory
  <2>. QED
    BY <2>1, AlikeStore DEF StoreImm
<1>4. CASE op \in 59..62
  <2>1. EvaluateMemory(op, p, o) = StoreReg(op, p, o) /\ EvaluateMemory(op, q, o) = StoreReg(op, q, o)
    BY <1>4 DEF EvaluateMemory
  <2>. QED
    BY <1>0, <2>1, AlikeStore DEF StoreReg
<1>5. CASE op \in 70..73
  <2>1. /\ EvaluateMemory(op, p, o) = StoreImmInd(op, p, o)
        /\ EvaluateMemory(op, q, o) = StoreImmInd(op, q, o)
    BY <1>5 DEF EvaluateMemory
  <2>. QED
    BY <1>0, <2>1, AlikeStore DEF StoreImmInd
<1>6. CASE op \in 120..123
  <2>1. EvaluateMemory(op, p, o) = StoreInd(op, p, o) /\ EvaluateMemory(op, q, o) = StoreInd(op, q, o)
    BY <1>6 DEF EvaluateMemory
  <2>. QED
    BY <1>0, <2>1, AlikeStore DEF StoreInd
<1>7. CASE op = 101
  <2>1. EvaluateMemory(op, p, o) = SbrkJs(p, o) /\ EvaluateMemory(op, q, o) = SbrkJs(q, o)
    BY <1>7 DEF EvaluateMemory
  <2>. QED
    BY <2>1, AlikeSbrkJs
<1>. QED
  BY <1>1, <1>2, <1>3, <1>4, <1>5, <1>6, <1>7 DEF Loads, Stores

LEMMA AlikeJump ==
  ASSUME NEW p, NEW q, SameButGas(p, q), NEW op \in JumpOpcodes, DecoderOf(op) # "unknown",
         NEW o, NEW prog, NEW cache, NEW skip
  PROVE  Alike(EvaluateJump(op, p, o, prog, cache, skip),
               EvaluateJump(op, q, o, prog, cache, skip), p, q)
<1>. DEFINE target == p.pc + o.offset
<1>0. p.w = q.w /\ p.pc = q.pc
  BY DEF SameButGas
<1>1. CASE op = 0
  <2>1. /\ EvaluateJump(op, p, o, prog, cache, skip) = Leave(p, Panic)
        /\ EvaluateJump(op, q, o, prog, cache, skip) = Leave(q, Panic)
    BY <1>1 DEF EvaluateJump
  <2>. QED
    BY <2>1, AlikeLeave, ExitsAreEnds
<1>2. CASE op = 1
  <2>1. /\ EvaluateJump(op, p, o, prog, cache, skip) = [p EXCEPT !.pc = p.pc + 1]
        /\ EvaluateJump(op, q, o, prog, cache, skip) = [q EXCEPT !.pc = p.pc + 1]
    BY <1>0, <1>2 DEF EvaluateJump
  <2>. QED
    BY <2>1, AlikePc
<1>3. CASE op = 10
  <2>1. /\ EvaluateJump(op, p, o, prog, cache, skip) = Leave(p, Exit("hostCall", o.vX))
        /\ EvaluateJump(op, q, o, prog, cache, skip) = Leave(q, Exit("hostCall", o.vX))
    BY <1>3 DEF EvaluateJump
  <2>. QED
    BY <2>1, AlikeLeave, ExitsAreEnds
<1>4. CASE op = 40
  <2>1. /\ EvaluateJump(op, p, o, prog, cache, skip) = Branch(p, cache, target, TRUE, skip)
        /\ EvaluateJump(op, q, o, prog, cache, skip) = Branch(q, cache, target, TRUE, skip)
    BY <1>0, <1>4 DEF EvaluateJump
  <2>. QED
    BY <2>1, AlikeBranch
<1>5. CASE op = 50
  <2>. DEFINE to == (p.w[o.rA] + o.vX) % Pow(4)
  <2>1. /\ EvaluateJump(op, p, o, prog, cache, skip) = Djump(p, prog, cache, to)
        /\ EvaluateJump(op, q, o, prog, cache, skip) = Djump(q, prog, cache, to)
    BY <1>0, <1>5 DEF EvaluateJump
  <2>. QED
    BY <2>1, AlikeDjump
<1>6. CASE op = 80
  <2>1. /\ EvaluateJump(op, p, o, prog, cache, skip)
             = Branch([p EXCEPT !.w[o.rA] = o.vX], cache, target, TRUE, skip)
        /\ EvaluateJump(op, q, o, prog, cache, skip)
             = Branch([q EXCEPT !.w[o.rA] = o.vX], cache, target, TRUE, skip)
    BY <1>0, <1>6 DEF EvaluateJump
  <2>2. Alike(Branch([p EXCEPT !.w[o.rA] = o.vX], cache, target, TRUE, skip),
              Branch([q EXCEPT !.w[o.rA] = o.vX], cache, target, TRUE, skip), p, q)
    BY ONLY SameButGas(p, q), AlikeBranchAfterMove
  <2>. QED
    BY <2>1, <2>2, Zenon
<1>7. CASE op \in 81..90
  <2>. DEFINE taken == ImmCondition(op, p.w[o.rA], o.vX)
  <2>1. /\ EvaluateJump(op, p, o, prog, cache, skip) = Branch(p, cache, target, taken, skip)
        /\ EvaluateJump(op, q, o, prog, cache, skip) = Branch(q, cache, target, taken, skip)
    BY <1>0, <1>7 DEF EvaluateJump
  <2>. QED
    BY <2>1, AlikeBranch
<1>8. CASE op \in 170..175
  <2>. DEFINE taken == RegCondition(op, p.w[o.rA], p.w[o.rB])
  <2>1. /\ EvaluateJump(op, p, o, prog, cache, skip) = Branch(p, cache, target, taken, skip)
        /\ EvaluateJump(op, q, o, prog, cache, skip) = Branch(q, cache, target, taken, skip)
    BY <1>0, <1>8 DEF EvaluateJump
  <2>. QED
    BY <2>1, AlikeBranch
<1>9. CASE op = 180
  <2>. DEFINE to == (p.w[o.rB] + o.vY) % Pow(4)
  <2>1. /\ EvaluateJump(op, p, o, prog, cache, skip)
             = [Djump(p, prog, cache, to) EXCEPT !.w[o.rA] = o.vX]
        /\ EvaluateJump(op, q, o, prog, cache, skip)
             = [Djump(q, prog, cache, to) EXCEPT !.w[o.rA] = o.vX]
    BY <1>0, <1>9 DEF EvaluateJump
  <2>2. Alike([Djump(p, prog, cache, to) EXCEPT !.w[o.rA] = o.vX],
              [Djump(q, prog, cache, to) EXCEPT !.w[o.rA] = o.vX], p, q)
    BY ONLY SameButGas(p, q), AlikeMoveAfterDjump
  <2>. QED
    BY <2>1, <2>2, Zenon
<1>10. op \in {0, 1, 10, 40, 50, 80, 180} \cup 81..90 \cup 170..175
  BY DEF JumpOpcodes, DecoderOf
<1>. QED
  BY <1>1, <1>2, <1>3, <1>4, <1>5, <1>6, <1>7, <1>8, <1>9, <1>10

(* An instruction treats machines that differ in their gas alike.          *)
LEMMA AlikeEvaluate ==
  ASSUME NEW p, NEW q, SameButGas(p, q), NEW op, DecoderOf(op) # "unknown",
         NEW o, NEW prog, NEW cache, NEW skip
  PROVE  Alike(Evaluate(op, p, o, prog, cache, skip), Evaluate(op, q, o, prog, cache, skip), p, q)
<1>1. CASE op \in JumpOpcodes
  BY <1>1, AlikeJump DEF Evaluate
<1>2. CASE op \notin JumpOpcodes /\ op \in Loads \cup Stores \cup {101}
  BY <1>2, AlikeMemory DEF Evaluate
<1>3. CASE op \notin JumpOpcodes /\ op \notin Loads \cup Stores \cup {101}
  <2>. DEFINE r == Written(op, o)
              v == WrittenValue(op, p, o)
  <2>1. WrittenValue(op, q, o) = v
    BY DEF WrittenValue, SameButGas
  <2>2. /\ Evaluate(op, p, o, prog, cache, skip) = [p EXCEPT !.w[r] = v]
        /\ Evaluate(op, q, o, prog, cache, skip) = [q EXCEPT !.w[r] = v]
    BY <1>3, <2>1, Zenon DEF Evaluate
  <2>3. Alike([p EXCEPT !.w[r] = v], [q EXCEPT !.w[r] = v], p, q)
    BY ONLY SameButGas(p, q), AlikeRegister
  <2>. QED
    BY <2>2, <2>3, Zenon
<1>. QED
  BY <1>1, <1>2, <1>3

(* ... and so does a whole turn, as long as both have gas.                 *)
LEMMA HydratedIs ==
  ASSUME NEW p, NEW q, SameButGas(p, q), p.exit = Running, NEW op, DecoderOf(op) # "unknown",
         NEW o, NEW prog, NEW cache, NEW skip,
         NEW p1, p1 = HydratedEvaluate(op, p, o, prog, cache, skip),
         NEW q1, q1 = HydratedEvaluate(op, q, o, prog, cache, skip)
  PROVE  /\ SameButGas(p1, q1)
         /\ p1.gas = p.gas - 1 /\ q1.gas = q.gas - 1
         /\ p1.exit = Running \/ p1.exit.why \in Ends
<1>1. PICK dp, dq : /\ dp = Evaluate(op, p, o, prog, cache, skip)
                    /\ dq = Evaluate(op, q, o, prog, cache, skip)
  OBVIOUS
<1>2. Alike(dp, dq, p, q)
  BY <1>1, AlikeEvaluate
<1>3. IsMachine(dp) /\ IsMachine(dq) /\ dp.pc = dq.pc /\ dp.exit = dq.exit
      /\ dp.w = dq.w /\ dp.acl = dq.acl /\ dp.mem = dq.mem /\ dp.heap = dq.heap
      /\ dp.gas = p.gas /\ dq.gas = q.gas /\ (dp.exit = Running \/ dp.exit.why \in Ends)
  BY <1>2 DEF Alike, SameButGas
<1>. DEFINE stays == HandlesPointer(op) \/ dp.exit.why = "pageFault"
            pc == IF stays THEN dp.pc ELSE dp.pc + skip
            Paid(d) == [d EXCEPT !.gas = @ - 1, !.pc = pc]
<1>4. p1 = [dp EXCEPT !.gas = @ - 1, !.pc = IF stays THEN @ ELSE @ + skip]
  BY <1>1, Zenon DEF HydratedEvaluate
<1>5. q1 = [dq EXCEPT !.gas = @ - 1, !.pc = IF stays THEN @ ELSE @ + skip]
  <2>1. q1 = [dq EXCEPT !.gas = @ - 1,
                        !.pc = IF HandlesPointer(op) \/ dq.exit.why = "pageFault"
                               THEN @ ELSE @ + skip]
    BY <1>1, Zenon DEF HydratedEvaluate
  <2>. QED
    BY <1>3, <2>1
<1>6. ASSUME NEW d, IsMachine(d), NEW b \in BOOLEAN
      PROVE  [d EXCEPT !.gas = @ - 1, !.pc = IF b THEN @ ELSE @ + skip]
               = MachineOf(IF b THEN d.pc ELSE d.pc + skip, d.gas - 1, d.w, d.acl, d.mem,
                           d.heap, d.exit)
  <2>. DEFINE d1 == [d EXCEPT !.gas = d.gas - 1]
              x == IF b THEN d.pc ELSE d.pc + skip
  <2>1. d1 = MachineOf(d.pc, d.gas - 1, d.w, d.acl, d.mem, d.heap, d.exit)
    BY <1>6, WithPart
  <2>2. d1.pc = d.pc
    BY <2>1 DEF MachineOf
  <2>3. [d EXCEPT !.gas = @ - 1, !.pc = IF b THEN @ ELSE @ + skip] = [d1 EXCEPT !.pc = x]
    BY <2>2
  <2>4. [d1 EXCEPT !.pc = x] = MachineOf(x, d.gas - 1, d.w, d.acl, d.mem, d.heap, d.exit)
    <3>. HIDE DEF d1, x
    <3>. QED
      BY <2>1 DEF MachineOf
  <2>. QED
    BY <2>3, <2>4
<1>7. stays \in BOOLEAN
  BY DEF HandlesPointer
<1>. HIDE DEF stays
<1>8. p1 = MachineOf(pc, dp.gas - 1, dp.w, dp.acl, dp.mem, dp.heap, dp.exit)
  BY <1>3, <1>4, <1>6, <1>7
<1>9. q1 = MachineOf(pc, dq.gas - 1, dq.w, dq.acl, dq.mem, dq.heap, dq.exit)
  BY <1>3, <1>5, <1>6, <1>7
<1>. HIDE DEF pc
<1>. QED
  BY <1>3, <1>8, <1>9, PartsOfMachine DEF SameButGas

LEMMA TurnIs ==
  ASSUME NEW p, NEW q, SameButGas(p, q), p.exit = Running,
         p.gas \in Nat, p.gas > 0, q.gas \in Nat, q.gas > 0, NEW prog,
         NEW p1, p1 = SingleStep(p, prog, IxPointerCache(prog)),
         NEW q1, q1 = SingleStep(q, prog, IxPointerCache(prog))
  PROVE  /\ SameButGas(p1, q1)
         /\ p1.exit = Running => p1.gas = p.gas - 1 /\ q1.gas = q.gas - 1
         /\ p1.exit.why # "outOfGas"
<1>. DEFINE cache == IxPointerCache(prog)
<1>0. p.pc = q.pc /\ IsMachine(p) /\ IsMachine(q)
  BY DEF SameButGas
<1>1. "outOfGas" \notin Ends /\ Running.why # "outOfGas" /\ Panic # Running
      /\ Panic.why # "outOfGas" /\ Exit("crash", 0) # Running /\ Exit("crash", 0).why # "outOfGas"
  BY DEF Ends, Running, Exit, Panic
<1>2. CASE p.pc \notin DOMAIN cache \/ DecoderOf(prog.c[p.pc]) = "unknown"
  <2>1. /\ p1 = [Leave(p, Panic) EXCEPT !.gas = @ - 1]
        /\ q1 = [Leave(q, Panic) EXCEPT !.gas = @ - 1]
    BY <1>0, <1>2 DEF SingleStep
  <2>2. p1 = MachineOf(p.pc, p.gas - 1, p.w, p.acl, p.mem, p.heap, Panic)
    BY <1>0, <2>1 DEF Leave, IsMachine, MachineOf
  <2>3. q1 = MachineOf(q.pc, q.gas - 1, q.w, q.acl, q.mem, q.heap, Panic)
    BY <1>0, <2>1 DEF Leave, IsMachine, MachineOf
  <2>. QED
    BY <1>1, <2>2, <2>3, PartsOfMachine DEF SameButGas
<1>3. CASE ~(p.pc \notin DOMAIN cache \/ DecoderOf(prog.c[p.pc]) = "unknown")
  <2>. DEFINE op == cache[p.pc].opCode
              decoder == DecoderOf(op)
              skip == cache[p.pc].skip + 1
              args == ArgsAt(prog, p.pc, skip)
  <2>1. op = prog.c[p.pc]
    BY <1>3 DEF IxPointerCache
  <2>2. decoder # "unknown"
    BY <1>3, <2>1
  <2>3. /\ p1 = IF Undecodable(decoder, args)
                THEN [Leave(p, Panic) EXCEPT !.pc = @ + skip, !.gas = @ - 2]
                ELSE IF Crashes(decoder, args) THEN Leave(p, Exit("crash", 0))
                ELSE HydratedEvaluate(op, p, Operands(decoder, args), prog, cache, skip)
        /\ q1 = IF Undecodable(decoder, args)
                THEN [Leave(q, Panic) EXCEPT !.pc = @ + skip, !.gas = @ - 2]
                ELSE IF Crashes(decoder, args) THEN Leave(q, Exit("crash", 0))
                ELSE HydratedEvaluate(op, q, Operands(decoder, args), prog, cache, skip)
    <3>1. ~(p.gas <= 0) /\ ~(q.gas <= 0)
      OBVIOUS
    <3>. HIDE DEF cache
    <3>2. ~(p.pc \notin DOMAIN cache) /\ ~(DecoderOf(prog.c[p.pc]) = "unknown")
      BY <1>3
    <3>3. p1 = SingleStep(p, prog, cache) /\ q1 = SingleStep(q, prog, cache)
      BY DEF cache
    <3>4. p1 = IF Undecodable(decoder, args)
                THEN [Leave(p, Panic) EXCEPT !.pc = @ + skip, !.gas = @ - 2]
                ELSE IF Crashes(decoder, args) THEN Leave(p, Exit("crash", 0))
                ELSE HydratedEvaluate(op, p, Operands(decoder, args), prog, cache, skip)
      BY <3>1, <3>2, <3>3, Zenon DEF SingleStep
    <3>5. q.pc \in DOMAIN cache /\ DecoderOf(prog.c[q.pc]) # "unknown"
      BY <1>0, <3>2, Zenon
    <3>6. q1 = IF Undecodable(DecoderOf(cache[q.pc].opCode), ArgsAt(prog, q.pc, cache[q.pc].skip + 1))
                THEN [Leave(q, Panic) EXCEPT !.pc = @ + (cache[q.pc].skip + 1), !.gas = @ - 2]
                ELSE IF Crashes(DecoderOf(cache[q.pc].opCode), ArgsAt(prog, q.pc, cache[q.pc].skip + 1))
                THEN Leave(q, Exit("crash", 0))
                ELSE HydratedEvaluate(cache[q.pc].opCode, q,
                       Operands(DecoderOf(cache[q.pc].opCode), ArgsAt(prog, q.pc, cache[q.pc].skip + 1)),
                       prog, cache, cache[q.pc].skip + 1)
      BY <3>1, <3>5, <3>3, Zenon DEF SingleStep
    <3>. QED
      BY <1>0, <3>4, <3>6, Zenon
  <2>. HIDE DEF op, decoder, skip, args, cache
  <2>4. CASE Undecodable(decoder, args)
    <3>1. /\ p1 = [Leave(p, Panic) EXCEPT !.pc = @ + skip, !.gas = @ - 2]
          /\ q1 = [Leave(q, Panic) EXCEPT !.pc = @ + skip, !.gas = @ - 2]
      BY <2>3, <2>4
    <3>2. ASSUME NEW m, IsMachine(m)
          PROVE  [Leave(m, Panic) EXCEPT !.pc = @ + skip, !.gas = @ - 2]
                   = MachineOf(m.pc + skip, m.gas - 2, m.w, m.acl, m.mem, m.heap, Panic)
      <4>1. PICK l : l = Leave(m, Panic)
        OBVIOUS
      <4>2. l = MachineOf(m.pc, m.gas, m.w, m.acl, m.mem, m.heap, Panic)
        BY <3>2, <4>1, WithPart DEF Leave
      <4>3. IsMachine(l) /\ l.pc = m.pc /\ l.gas = m.gas
        BY <4>2, PartsOfMachine
      <4>4. [l EXCEPT !.pc = l.pc + skip, !.gas = l.gas - 2]
              = MachineOf(l.pc + skip, l.gas - 2, l.w, l.acl, l.mem, l.heap, l.exit)
        BY <4>3, WithPcAndGas
      <4>5. l.w = m.w /\ l.acl = m.acl /\ l.mem = m.mem /\ l.heap = m.heap /\ l.exit = Panic
        BY <4>2, PartsOfMachine
      <4>. QED
        BY <4>1, <4>3, <4>4, <4>5, Zenon
    <3>3. /\ p1 = MachineOf(p.pc + skip, p.gas - 2, p.w, p.acl, p.mem, p.heap, Panic)
          /\ q1 = MachineOf(q.pc + skip, q.gas - 2, q.w, q.acl, q.mem, q.heap, Panic)
      BY <1>0, <3>1, <3>2
    <3>. QED
      BY <1>0, <1>1, <3>3, PartsOfMachine DEF SameButGas
  <2>5. CASE ~Undecodable(decoder, args) /\ Crashes(decoder, args)
    <3>1. p1 = Leave(p, Exit("crash", 0)) /\ q1 = Leave(q, Exit("crash", 0))
      BY <2>3, <2>5
    <3>2. /\ p1 = MachineOf(p.pc, p.gas, p.w, p.acl, p.mem, p.heap, Exit("crash", 0))
          /\ q1 = MachineOf(q.pc, q.gas, q.w, q.acl, q.mem, q.heap, Exit("crash", 0))
      BY <1>0, <3>1, WithPart DEF Leave
    <3>. QED
      BY <1>1, <3>2, PartsOfMachine DEF SameButGas
  <2>6. CASE ~Undecodable(decoder, args) /\ ~Crashes(decoder, args)
    <3>1. /\ p1 = HydratedEvaluate(op, p, Operands(decoder, args), prog, cache, skip)
          /\ q1 = HydratedEvaluate(op, q, Operands(decoder, args), prog, cache, skip)
      BY <2>3, <2>6
    <3>2. DecoderOf(op) # "unknown"
      BY <2>2 DEF decoder
    <3>3. /\ SameButGas(p1, q1)
          /\ p1.gas = p.gas - 1 /\ q1.gas = q.gas - 1
          /\ p1.exit = Running \/ p1.exit.why \in Ends
      BY <3>1, <3>2, HydratedIs
    <3>. QED
      BY <1>1, <3>3
  <2>. QED
    BY <2>4, <2>5, <2>6
<1>. QED
  BY <1>2, <1>3

-----------------------------------------------------------------------------
(* The turns of a run, as far as N.                                        *)
Turn(prog, m) == IF m.exit = Running THEN SingleStep(m, prog, IxPointerCache(prog)) ELSE m
IsRun(f, prog, m, N) == f = [n \in 0..N |-> IF n = 0 THEN m ELSE Turn(prog, f[n - 1])]

LEMMA RunParts ==
  ASSUME NEW f, NEW prog, NEW m, NEW N \in Nat, IsRun(f, prog, m, N)
  PROVE  f[0] = m /\ \A n \in 1..N : f[n] = Turn(prog, f[n - 1])
<1>1. \A n \in 0..N : f[n] = IF n = 0 THEN m ELSE Turn(prog, f[n - 1])
  BY Zenon DEF IsRun
<1>2. 0 \in 0..N /\ \A n \in 1..N : n \in 0..N /\ n # 0
  OBVIOUS
<1>. QED
  BY <1>1, <1>2

LEMMA RunExists ==
  ASSUME NEW prog, NEW m, NEW N \in Nat
  PROVE  \E f : IsRun(f, prog, m, N)
<1>. DEFINE S == {k \in 0..N : \E f : IsRun(f, prog, m, k)}
<1>1. 0 \in S
  <2>. DEFINE f == [n \in 0..0 |-> m]
  <2>1. f = [n \in 0..0 |-> IF n = 0 THEN m ELSE Turn(prog, f[n - 1])]
    OBVIOUS
  <2>2. IsRun(f, prog, m, 0)
    BY <2>1, Zenon DEF IsRun
  <2>. HIDE DEF f
  <2>. QED
    BY <2>2
<1>2. ASSUME NEW k \in 0..N - 1, k \in S PROVE k + 1 \in S
  <2>1. PICK f : IsRun(f, prog, m, k)
    BY <1>2
  <2>2. f[0] = m /\ \A n \in 1..k : f[n] = Turn(prog, f[n - 1])
    BY <2>1, RunParts
  <2>. DEFINE g == [n \in 0..k + 1 |-> IF n = k + 1 THEN Turn(prog, f[k]) ELSE f[n]]
  <2>3. ASSUME NEW n \in 0..k + 1
        PROVE  g[n] = IF n = 0 THEN m ELSE Turn(prog, g[n - 1])
    <3>1. CASE n = 0
      BY <2>2, <3>1
    <3>2. CASE n = k + 1
      <4>1. n - 1 = k /\ n - 1 \in 0..k + 1 /\ n - 1 # k + 1 /\ n # 0
        BY <3>2
      <4>2. g[n - 1] = f[k] /\ g[n] = Turn(prog, f[k])
        BY <3>2, <4>1
      <4>. HIDE DEF g
      <4>. QED
        BY <4>1, <4>2
    <3>3. CASE n # 0 /\ n # k + 1
      <4>1. n \in 1..k /\ n - 1 \in 0..k + 1 /\ n - 1 # k + 1
        BY <3>3
      <4>2. g[n - 1] = f[n - 1] /\ g[n] = f[n]
        BY <3>3, <4>1
      <4>. HIDE DEF g
      <4>. QED
        BY <3>3, <4>1, <4>2, <2>2
    <3>. QED
      BY <3>1, <3>2, <3>3
  <2>4. g = [n \in 0..k + 1 |-> g[n]]
    OBVIOUS
  <2>. HIDE DEF g
  <2>5. g = [n \in 0..k + 1 |-> IF n = 0 THEN m ELSE Turn(prog, g[n - 1])]
    BY <2>3, <2>4
  <2>6. IsRun(g, prog, m, k + 1)
    BY <2>5, Zenon DEF IsRun
  <2>. QED
    BY <2>6
<1>3. \A n \in 0..N : n \in S
  <2>. HIDE DEF S
  <2>. QED
    BY <1>1, <1>2, Induction
<1>4. N \in S
  BY <1>3
<1>. QED
  BY <1>4

LEMMA RunIs ==
  ASSUME NEW prog, NEW m, m.gas \in Nat
  PROVE  \E f : IsRun(f, prog, m, m.gas + 1) /\ RunToExit(prog, m) = f[m.gas + 1]
<1>. DEFINE turns == CHOOSE f : IsRun(f, prog, m, m.gas + 1)
<1>1. IsRun(turns, prog, m, m.gas + 1)
  <2>1. \E f : IsRun(f, prog, m, m.gas + 1)
    BY RunExists
  <2>. QED
    BY <2>1, Zenon
<1>2. RunToExit(prog, m) = turns[m.gas + 1]
  BY Zenon DEF RunToExit, IsRun, Turn
<1>. QED
  BY <1>1, <1>2

(* Two machines that differ in their gas take the same turns until the gas *)
(* of one of them is used up; each of these turns costs one gas.           *)
Enough(K, N, M, p, q) ==
  /\ p.gas \in Nat /\ q.gas \in Nat /\ N \in Nat /\ M \in Nat /\ K \in Nat
  /\ K <= N /\ K <= M /\ K <= p.gas /\ K <= q.gas

LEMMA RunsAlike ==
  ASSUME NEW prog, NEW p, NEW q, SameButGas(p, q), p.exit = Running,
         NEW N, NEW f, IsRun(f, prog, p, N), NEW M, NEW h, IsRun(h, prog, q, M),
         NEW K, Enough(K, N, M, p, q)
  PROVE  \A n \in 0..K :
           /\ SameButGas(f[n], h[n])
           /\ f[n].exit = Running => f[n].gas = p.gas - n /\ h[n].gas = q.gas - n
           /\ f[n].exit.why # "outOfGas"
<1>. DEFINE Good(n) == /\ SameButGas(f[n], h[n])
                       /\ f[n].exit = Running => f[n].gas = p.gas - n /\ h[n].gas = q.gas - n
                       /\ f[n].exit.why # "outOfGas"
            S == {n \in 0..K : Good(n)}
<1>. /\ p.gas \in Nat /\ q.gas \in Nat /\ N \in Nat /\ M \in Nat /\ K \in Nat
     /\ K <= N /\ K <= M /\ K <= p.gas /\ K <= q.gas
  BY DEF Enough
<1>1. /\ f[0] = p /\ \A n \in 1..N : f[n] = Turn(prog, f[n - 1])
      /\ h[0] = q /\ \A n \in 1..M : h[n] = Turn(prog, h[n - 1])
  BY RunParts
<1>2. 0 \in S
  BY <1>1 DEF Running, Exit
<1>3. ASSUME NEW k \in 0..K - 1, k \in S PROVE k + 1 \in S
  <2>1. k + 1 \in 1..N /\ k + 1 \in 1..M /\ (k + 1) - 1 = k /\ k + 1 \in 0..K
    OBVIOUS
  <2>2. f[k + 1] = Turn(prog, f[k]) /\ h[k + 1] = Turn(prog, h[k])
    BY <1>1, <2>1
  <2>3. Good(k)
    BY <1>3
  <2>4. CASE f[k].exit = Running
    <3>1. h[k].exit = Running
      BY <2>3, <2>4 DEF SameButGas
    <3>2. /\ f[k + 1] = SingleStep(f[k], prog, IxPointerCache(prog))
          /\ h[k + 1] = SingleStep(h[k], prog, IxPointerCache(prog))
      BY <2>2, <2>4, <3>1 DEF Turn
    <3>3. f[k].gas \in Nat /\ f[k].gas > 0 /\ h[k].gas \in Nat /\ h[k].gas > 0
          /\ f[k].gas = p.gas - k /\ h[k].gas = q.gas - k
      BY <2>3, <2>4
    <3>4. SameButGas(f[k], h[k])
      BY <2>3
    <3>5. /\ SameButGas(f[k + 1], h[k + 1])
          /\ f[k + 1].exit = Running =>
               f[k + 1].gas = f[k].gas - 1 /\ h[k + 1].gas = h[k].gas - 1
          /\ f[k + 1].exit.why # "outOfGas"
      BY ONLY <2>4, <3>2, <3>3, <3>4, TurnIs
    <3>6. Good(k + 1)
      BY <3>3, <3>5
    <3>. QED
      BY <2>1, <3>6
  <2>5. CASE f[k].exit # Running
    <3>1. h[k].exit # Running
      BY <2>3, <2>5 DEF SameButGas
    <3>2. f[k + 1] = f[k] /\ h[k + 1] = h[k]
      BY <2>2, <2>5, <3>1 DEF Turn
    <3>3. Good(k + 1)
      BY <2>3, <2>5, <3>2
    <3>. QED
      BY <2>1, <3>3
  <2>. QED
    BY <2>4, <2>5
<1>4. \A n \in 0..K : n \in S
  <2>. HIDE DEF S
  <2>. QED
    BY <1>2, <1>3, Induction
<1>. QED
  BY <1>4

LEMMA LeaveIs ==
  ASSUME NEW m, IsMachine(m), NEW e
  PROVE  Leave(m, e) = MachineOf(m.pc, m.gas, m.w, m.acl, m.mem, m.heap, e)
<1>1. m = MachineOf(m.pc, m.gas, m.w, m.acl, m.mem, m.heap, m.exit)
  BY Zenon DEF IsMachine
<1>. QED
  BY <1>1 DEF Leave, MachineOf

LEMMA SameAsItself ==
  ASSUME NEW m, IsMachine(m)
  PROVE  SameButGas(m, m)
BY DEF SameButGas

(* A run ends out of gas when it still runs with nothing left.             *)
LEMMA RunEnds ==
  ASSUME NEW prog, NEW m, IsMachine(m), m.exit = Running, m.gas \in Nat,
         NEW f, IsRun(f, prog, m, m.gas + 1),
         NEW last, last = f[m.gas], NEW done, done = f[m.gas + 1]
  PROVE  /\ IsMachine(last) /\ IsMachine(done)
         /\ done.exit.why = "outOfGas" =>
              /\ last.exit = Running /\ last.gas = 0
              /\ done.pc = last.pc /\ done.w = last.w /\ done.acl = last.acl
              /\ done.mem = last.mem /\ done.heap = last.heap
<1>1. /\ SameButGas(last, last)
      /\ last.exit = Running => last.gas = m.gas - m.gas
      /\ last.exit.why # "outOfGas"
  <2>1. PICK G, N : G = m.gas /\ N = m.gas + 1
    OBVIOUS
  <2>2. /\ G \in Nat /\ N \in Nat /\ G <= N /\ G <= m.gas /\ G \in 0..G /\ m.gas \in Nat
        /\ m.exit = Running /\ Enough(G, N, N, m, m)
    BY <2>1 DEF Enough
  <2>3. SameButGas(m, m) /\ IsRun(f, prog, m, N)
    BY <2>1, SameAsItself
  <2>4. \A n \in 0..G :
          /\ SameButGas(f[n], f[n])
          /\ f[n].exit = Running => f[n].gas = m.gas - n /\ f[n].gas = m.gas - n
          /\ f[n].exit.why # "outOfGas"
    <3>1. Enough(G, N, N, m, m) /\ m.exit = Running
      BY <2>2
    <3>2. PICK q, h : q = m /\ h = f
      OBVIOUS
    <3>3. /\ Enough(G, N, N, m, q) /\ SameButGas(m, q) /\ IsRun(h, prog, q, N)
          /\ IsRun(f, prog, m, N)
      BY <2>3, <3>1, <3>2
    <3>4. \A n \in 0..G :
            /\ SameButGas(f[n], h[n])
            /\ f[n].exit = Running => f[n].gas = m.gas - n /\ h[n].gas = q.gas - n
            /\ f[n].exit.why # "outOfGas"
      BY ONLY <3>1, <3>3, RunsAlike
    <3>. QED
      BY <3>2, <3>4
  <2>. QED
    BY <2>1, <2>2, <2>4
<1>2. IsMachine(last)
  BY <1>1 DEF SameButGas
<1>3. done = Turn(prog, last)
  <2>1. m.gas + 1 \in Nat /\ m.gas + 1 \in 1..m.gas + 1 /\ (m.gas + 1) - 1 = m.gas
    OBVIOUS
  <2>2. f[m.gas + 1] = Turn(prog, f[(m.gas + 1) - 1])
    BY <2>1, RunParts
  <2>. QED
    BY <2>1, <2>2
<1>4. CASE last.exit # Running
  BY <1>1, <1>2, <1>3, <1>4 DEF Turn
<1>5. CASE last.exit = Running
  <2>1. last.gas = 0
    BY <1>1, <1>5
  <2>2. done = Leave(last, Exit("outOfGas", 0))
    BY <1>3, <1>5, <2>1 DEF Turn, SingleStep
  <2>3. done = MachineOf(last.pc, last.gas, last.w, last.acl, last.mem, last.heap,
                         Exit("outOfGas", 0))
    BY <1>2, <2>2, LeaveIs
  <2>. QED
    BY <1>2, <1>5, <2>1, <2>3, PartsOfMachine
<1>. QED
  BY <1>4, <1>5

(* Where a run stopped for want of gas, another one goes on.               *)
Adds(G, d, N) == G \in Nat /\ d \in Nat /\ N \in Nat /\ G + d = N

LEMMA RunGoesOn ==
  ASSUME NEW prog, NEW m, NEW N, NEW h, IsRun(h, prog, m, N),
         NEW G, NEW d, Adds(G, d, N), NEW k, IsRun(k, prog, h[G], d)
  PROVE  k[d] = h[N]
<1>. DEFINE S == {n \in 0..d : k[n] = h[G + n]}
<1>. G \in Nat /\ d \in Nat /\ N \in Nat /\ G + d = N
  BY DEF Adds
<1>1. /\ \A n \in 1..N : h[n] = Turn(prog, h[n - 1])
      /\ k[0] = h[G] /\ \A n \in 1..d : k[n] = Turn(prog, k[n - 1])
  BY RunParts
<1>2. 0 \in S
  BY <1>1
<1>3. ASSUME NEW n \in 0..d - 1, n \in S PROVE n + 1 \in S
  <2>1. n + 1 \in 1..d /\ (n + 1) - 1 = n /\ n + 1 \in 0..d
        /\ G + (n + 1) \in 1..N /\ (G + (n + 1)) - 1 = G + n
    OBVIOUS
  <2>2. k[n + 1] = Turn(prog, k[n]) /\ h[G + (n + 1)] = Turn(prog, h[G + n])
    BY <1>1, <2>1
  <2>3. k[n] = h[G + n]
    BY <1>3
  <2>. QED
    BY <2>1, <2>2, <2>3
<1>4. \A n \in 0..d : n \in S
  <2>. HIDE DEF S
  <2>. QED
    BY <1>2, <1>3, Induction
<1>5. d \in S
  BY <1>4
<1>. QED
  BY <1>5

(* One invocation with all the gas, or one after the other: for every      *)
(* program and every machine, the same end.                                *)
THEOREM InvocationsAdd ==
  ASSUME NEW prog, NEW m, IsMachine(m), m.exit = Running, m.gas \in Nat, NEW d \in Nat,
         NEW done, done = RunToExit(prog, m), done.exit.why = "outOfGas"
  PROVE  RunToExit(prog, [m EXCEPT !.gas = @ + d])
           = RunToExit(prog, MachineOf(done.pc, d, done.w, done.acl, done.mem, done.heap, Running))
<1>. DEFINE m2 == [m EXCEPT !.gas = @ + d]
            m3 == MachineOf(done.pc, d, done.w, done.acl, done.mem, done.heap, Running)
<1>1. /\ IsMachine(m2) /\ m2.gas = m.gas + d /\ m2.exit = Running
      /\ SameButGas(m, m2)
  <2>1. m2 = MachineOf(m.pc, m.gas + d, m.w, m.acl, m.mem, m.heap, m.exit)
    BY DEF IsMachine, MachineOf
  <2>. HIDE DEF m2
  <2>. QED
    BY <2>1, PartsOfMachine DEF SameButGas
<1>2. IsMachine(m3) /\ m3.gas = d /\ m3.exit = Running /\ m3.pc = done.pc /\ m3.w = done.w
      /\ m3.acl = done.acl /\ m3.mem = done.mem /\ m3.heap = done.heap
  BY PartsOfMachine
<1>. HIDE DEF m2, m3
<1>3. PICK f : IsRun(f, prog, m, m.gas + 1) /\ done = f[m.gas + 1]
  BY RunIs
<1>4. PICK h : IsRun(h, prog, m2, m2.gas + 1) /\ RunToExit(prog, m2) = h[m2.gas + 1]
  <2>1. m2.gas \in Nat
    BY <1>1
  <2>. QED
    BY <2>1, RunIs
<1>5. PICK k : IsRun(k, prog, m3, m3.gas + 1) /\ RunToExit(prog, m3) = k[m3.gas + 1]
  BY <1>2, RunIs
<1>6. PICK last : last = f[m.gas]
  OBVIOUS
<1>7. /\ last.exit = Running /\ last.gas = 0
      /\ done.pc = last.pc /\ done.w = last.w /\ done.acl = last.acl
      /\ done.mem = last.mem /\ done.heap = last.heap
  BY <1>3, <1>6, RunEnds
<1>8. PICK G, N : G = m.gas /\ N = m.gas + d + 1
  OBVIOUS
<1>9. SameButGas(last, h[G]) /\ h[G].gas = d
  <2>1. G \in Nat /\ G + 1 \in Nat /\ N \in Nat /\ G <= G + 1 /\ G <= N /\ G <= m.gas /\ G <= m2.gas
        /\ G \in 0..G /\ m.gas = G /\ m2.gas = G + d /\ m2.gas \in Nat
    BY <1>1, <1>8
  <2>2. IsRun(f, prog, m, G + 1) /\ IsRun(h, prog, m2, N)
    BY <1>1, <1>3, <1>4, <1>8
  <2>3. SameButGas(m, m2) /\ m.exit = Running /\ m.gas \in Nat
    BY <1>1
  <2>. PICK G1 : G1 = G + 1
    OBVIOUS
  <2>5. Enough(G, G1, N, m, m2) /\ IsRun(f, prog, m, G1)
    BY <2>1, <2>2 DEF Enough
  <2>4. \A n \in 0..G :
          /\ SameButGas(f[n], h[n])
          /\ f[n].exit = Running => f[n].gas = m.gas - n /\ h[n].gas = m2.gas - n
          /\ f[n].exit.why # "outOfGas"
    BY ONLY <2>2, <2>3, <2>5, RunsAlike
  <2>. QED
    BY <1>6, <1>7, <1>8, <2>1, <2>4
<1>10. h[G] = m3
  <2>1. SameButGas(h[G], m3) /\ h[G].gas = m3.gas
    BY <1>2, <1>7, <1>9 DEF SameButGas
  <2>. QED
    BY <2>1, SameMachine
<1>11. k[d + 1] = h[N]
  <2>1. PICK d1 : d1 = d + 1
    OBVIOUS
  <2>2. Adds(G, d1, N)
    BY <1>8, <2>1 DEF Adds
  <2>3. IsRun(h, prog, m2, N) /\ IsRun(k, prog, h[G], d1)
    BY <1>1, <1>2, <1>4, <1>5, <1>8, <1>10, <2>1
  <2>4. k[d1] = h[N]
    BY ONLY <2>2, <2>3, RunGoesOn
  <2>. QED
    BY <2>1, <2>4
<1>12. RunToExit(prog, m2) = h[N] /\ RunToExit(prog, m3) = k[d + 1]
  BY <1>1, <1>2, <1>4, <1>5, <1>8
<1>. QED
  BY <1>11, <1>12 DEF m2, m3

-----------------------------------------------------------------------------
(* What is true of an inner machine g whose trail is t.                    *)
Sound(g, t) ==
  /\ g = [prog |-> g.prog, pc |-> g.pc, ram |-> g.ram]
  /\ t = [start |-> t.start, w |-> t.w, over |-> t.over]
  /\ IsMachine(t.start) /\ t.start.exit = Running /\ t.start.gas \in Nat
  /\ \E alone : /\ alone = RunToExit(g.prog, t.start)
                /\ g.pc = IF alone.exit.why = "hostCall" THEN alone.pc + 1 ELSE alone.pc
                /\ g.ram = RamOf(alone)
                /\ t.w = alone.w
                /\ ~t.over => alone.exit.why = "outOfGas"

GuestsInv ==
  /\ DOMAIN trails = DOMAIN guests
  /\ \A n \in DOMAIN guests : Sound(guests[n], trails[n])

LEMMA MachineIs ==
  ASSUME NEW g, NEW w, NEW grant \in Nat, NEW m, m = Machine(g, w, grant)
  PROVE  /\ m = MachineOf(g.pc, grant, w, g.ram.acl, g.ram.mem, g.ram.heap, Running)
         /\ IsMachine(m) /\ m.exit = Running /\ m.gas \in Nat /\ m.gas = grant
<1>1. m = MachineOf(g.pc, grant, w, g.ram.acl, g.ram.mem, g.ram.heap, Running)
  BY DEF Machine, MachineOf
<1>. QED
  BY <1>1, PartsOfMachine

(* A run with no gas changes nothing.                                      *)
LEMMA RunOfNothing ==
  ASSUME NEW prog, NEW m, IsMachine(m), m.gas = 0, m.exit = Running,
         NEW done, done = RunToExit(prog, m)
  PROVE  /\ done.exit.why = "outOfGas"
         /\ done.pc = m.pc /\ done.w = m.w /\ done.acl = m.acl /\ done.mem = m.mem
         /\ done.heap = m.heap
<1>1. PICK f : IsRun(f, prog, m, 1) /\ done = f[1]
  <2>1. m.gas \in Nat /\ m.gas + 1 = 1
    OBVIOUS
  <2>. QED
    BY <2>1, RunIs
<1>2. done = Turn(prog, m)
  <2>1. 1 \in Nat /\ 1 \in 1..1 /\ 1 - 1 = 0
    OBVIOUS
  <2>2. f[0] = m /\ f[1] = Turn(prog, f[1 - 1])
    BY <1>1, <2>1, RunParts
  <2>. QED
    BY <1>1, <2>1, <2>2
<1>3. done = Leave(m, Exit("outOfGas", 0))
  BY <1>2 DEF Turn, SingleStep
<1>4. done = MachineOf(m.pc, m.gas, m.w, m.acl, m.mem, m.heap, Exit("outOfGas", 0))
  BY <1>3, LeaveIs
<1>. QED
  BY <1>4, PartsOfMachine DEF Exit

LEMMA SoundStart ==
  ASSUME NEW prog, NEW pc, NEW g, g = [prog |-> prog, pc |-> pc, ram |-> NewRam],
         NEW t, t = [start |-> Machine(g, NoRegisters, 0), w |-> NoRegisters, over |-> TRUE]
  PROVE  Sound(g, t)
<1>1. PICK m, alone : m = t.start /\ alone = RunToExit(g.prog, m)
  OBVIOUS
<1>2. m = Machine(g, NoRegisters, 0)
  BY <1>1
<1>3. /\ m = MachineOf(g.pc, 0, NoRegisters, g.ram.acl, g.ram.mem, g.ram.heap, Running)
      /\ IsMachine(m) /\ m.exit = Running /\ m.gas \in Nat /\ m.gas = 0
  <2>1. 0 \in Nat
    OBVIOUS
  <2>. QED
    BY <1>2, <2>1, MachineIs
<1>4. /\ alone.exit.why = "outOfGas"
      /\ alone.pc = m.pc /\ alone.w = m.w /\ alone.acl = m.acl /\ alone.mem = m.mem
      /\ alone.heap = m.heap
  BY <1>1, <1>3, RunOfNothing
<1>5. /\ m.pc = g.pc /\ m.w = NoRegisters /\ m.acl = g.ram.acl /\ m.mem = g.ram.mem
      /\ m.heap = g.ram.heap
  BY <1>3, PartsOfMachine
<1>6. g.ram = RamOf(alone)
  <2>1. g.ram = NewRam /\ NewRam = [acl |-> NewRam.acl, mem |-> NewRam.mem, heap |-> NewRam.heap]
    BY DEF NewRam
  <2>. QED
    BY <1>4, <1>5, <2>1 DEF RamOf
<1>7. g.pc = IF alone.exit.why = "hostCall" THEN alone.pc + 1 ELSE alone.pc
  <2>1. alone.pc = pc
    BY <1>4, <1>5
  <2>. QED
    BY <1>4, <2>1
<1>. QED
  BY <1>1, <1>3, <1>4, <1>5, <1>6, <1>7 DEF Sound

MoreGas(m, grant) == [m EXCEPT !.gas = @ + grant]

LEMMA SoundNext ==
  ASSUME NEW g, NEW t, Sound(g, t), NEW w, NEW grant \in Nat,
         NEW done, done = RunToExit(g.prog, Machine(g, w, grant)),
         NEW fresh \in BOOLEAN, fresh <=> (t.over \/ w # t.w),
         NEW t2, t2 = [start |-> IF fresh THEN Machine(g, w, grant)
                                 ELSE MoreGas(t.start, grant),
                       w |-> done.w, over |-> done.exit.why # "outOfGas"],
         NEW g2, g2 = [prog |-> g.prog, pc |-> NextPc(g, done), ram |-> RamOf(done)]
  PROVE  Sound(g2, t2)
<1>2. g2.prog = g.prog /\ g2.pc = NextPc(g, done) /\ g2.ram = RamOf(done)
      /\ g2 = [prog |-> g2.prog, pc |-> g2.pc, ram |-> g2.ram]
  OBVIOUS
<1>3. t2.w = done.w /\ (t2.over <=> done.exit.why # "outOfGas")
      /\ t2 = [start |-> t2.start, w |-> t2.w, over |-> t2.over]
  OBVIOUS
<1>4. g2.pc = IF done.exit.why = "hostCall" THEN done.pc + 1 ELSE done.pc
  BY <1>2 DEF NextPc
<1>5. PICK m : m = Machine(g, w, grant)
  OBVIOUS
<1>6. /\ m = MachineOf(g.pc, grant, w, g.ram.acl, g.ram.mem, g.ram.heap, Running)
      /\ IsMachine(m) /\ m.exit = Running /\ m.gas \in Nat /\ m.gas = grant
  BY <1>5, MachineIs
<1>7. /\ IsMachine(t2.start) /\ t2.start.exit = Running /\ t2.start.gas \in Nat
      /\ RunToExit(g.prog, t2.start) = done
  <2>1. CASE fresh
    <3>1. t2.start = m
      BY <1>5, <2>1
    <3>. QED
      BY <1>5, <1>6, <3>1
  <2>2. CASE ~fresh
    <3>1. ~t.over /\ w = t.w
      BY <2>2
    <3>2. PICK s, alone :
            /\ s = t.start /\ IsMachine(s) /\ s.exit = Running /\ s.gas \in Nat
            /\ alone = RunToExit(g.prog, s)
            /\ g.pc = IF alone.exit.why = "hostCall" THEN alone.pc + 1 ELSE alone.pc
            /\ g.ram = RamOf(alone) /\ t.w = alone.w /\ alone.exit.why = "outOfGas"
      BY <3>1 DEF Sound
    <3>3. g.pc = alone.pc /\ w = alone.w /\ g.ram.acl = alone.acl /\ g.ram.mem = alone.mem
          /\ g.ram.heap = alone.heap
      BY <3>1, <3>2 DEF RamOf
    <3>4. m = MachineOf(alone.pc, grant, alone.w, alone.acl, alone.mem, alone.heap, Running)
      BY <1>6, <3>3
    <3>5. PICK q : q = MoreGas(s, grant)
      OBVIOUS
    <3>6. RunToExit(g.prog, [s EXCEPT !.gas = @ + grant])
            = RunToExit(g.prog, MachineOf(alone.pc, grant, alone.w, alone.acl, alone.mem,
                                          alone.heap, Running))
      BY ONLY <3>2, grant \in Nat, InvocationsAdd
    <3>7. RunToExit(g.prog, q) = done
      BY Zenon, <1>5, <3>4, <3>5, <3>6 DEF MoreGas
    <3>8. t2.start = q
      BY <2>2, <3>2, <3>5
    <3>9. q = MachineOf(s.pc, s.gas + grant, s.w, s.acl, s.mem, s.heap, s.exit)
      BY <3>2, <3>5 DEF IsMachine, MachineOf, MoreGas
    <3>10. IsMachine(q) /\ q.exit = Running /\ q.gas \in Nat
      BY <3>2, <3>9, PartsOfMachine
    <3>. QED
      BY <3>7, <3>8, <3>10
  <2>. QED
    BY <2>1, <2>2
<1>8. \E alone : /\ alone = RunToExit(g2.prog, t2.start)
                 /\ g2.pc = IF alone.exit.why = "hostCall" THEN alone.pc + 1 ELSE alone.pc
                 /\ g2.ram = RamOf(alone)
                 /\ t2.w = alone.w
                 /\ ~t2.over => alone.exit.why = "outOfGas"
  <2>1. done = RunToExit(g2.prog, t2.start)
    BY <1>2, <1>7
  <2>. QED
    BY <1>2, <1>3, <1>4, <2>1
<1>. QED
  BY <1>2, <1>3, <1>7, <1>8 DEF Sound

LEMMA GuestSet ==
  ASSUME GuestsInv, NEW n, NEW g, NEW trail, SetGuest(n, g, trail), Sound(g, trail)
  PROVE  GuestsInv'
<1>1. PICK D : D = DOMAIN guests
  OBVIOUS
<1>2. /\ guests' = [k \in D \cup {n} |-> IF k = n THEN g ELSE guests[k]]
      /\ trails' = [k \in D \cup {n} |-> IF k = n THEN trail ELSE trails[k]]
  BY Zenon, <1>1 DEF SetGuest
<1>3. DOMAIN trails' = D \cup {n} /\ DOMAIN guests' = D \cup {n}
  BY <1>2
<1>4. ASSUME NEW k \in D \cup {n} PROVE Sound(guests'[k], trails'[k])
  <2>1. CASE k = n
    BY <1>2, <2>1
  <2>2. CASE k # n
    <3>1. k \in DOMAIN guests /\ guests'[k] = guests[k] /\ trails'[k] = trails[k]
      BY <1>1, <1>2, <2>2
    <3>. QED
      BY <3>1 DEF GuestsInv
  <2>. QED
    BY <2>1, <2>2
<1>. QED
  BY <1>3, <1>4 DEF GuestsInv

LEMMA GuestsStart ==
  ASSUME RefineInit
  PROVE  GuestsInv
BY DEF RefineInit, GuestsInv, Empty

LEMMA GuestsGone ==
  ASSUME guests' = Empty, trails' = Empty
  PROVE  GuestsInv'
BY DEF GuestsInv, Empty

LEMMA GuestsStay ==
  ASSUME GuestsInv, UNCHANGED <<guests, trails>>
  PROVE  GuestsInv'
BY DEF GuestsInv

LEMMA EndWithGuests ==
  ASSUME NEW res, NEW out, NEW used, EndWith(res, out, used)
  PROVE  GuestsInv'
<1>1. guests' = Empty /\ trails' = Empty
  BY DEF EndWith
<1>. QED
  BY <1>1, GuestsGone

LEMMA AnswersGuests ==
  ASSUME GuestsInv, NEW value, Answers(value)
  PROVE  GuestsInv'
<1>1. UNCHANGED <<guests, trails>>
  BY DEF Answers, context
<1>. QED
  BY <1>1, GuestsStay

LEMMA ThrowGuests ==
  ASSUME GuestsInv, NEW why, Throw(why)
  PROVE  GuestsInv'
<1>1. UNCHANGED <<guests, trails>>
  BY DEF Throw, context
<1>. QED
  BY <1>1, GuestsStay

LEMMA GuestsNext ==
  ASSUME GuestsInv, [RefineNext]_refineVars
  PROVE  GuestsInv'
<1>1. CASE Authorize
  BY <1>1, GuestsStay DEF Authorize, context
<1>2. CASE StartItem
  <2>1. CASE \E why : EndWith(Error(why), <<>>, 0)
    BY <2>1, EndWithGuests
  <2>2. CASE UNCHANGED context
    BY <2>2, GuestsStay DEF context
  <2>. QED
    BY Zenon, <1>2, <2>1, <2>2 DEF StartItem
<1>3. CASE End \/ TooPoor \/ BadArguments
  BY <1>3, EndWithGuests DEF End, Return, Panics, RunsDry, TooPoor, BadArguments
<1>4. CASE Assemble \/ Encode
  BY <1>4, ThrowGuests DEF Assemble, Encode
<1>5. CASE Gas \/ Fetch \/ Lookup \/ Other \/ Peek
  BY <1>5, AnswersGuests, ThrowGuests DEF Gas, Fetch, Lookup, Other, Peek
<1>6. CASE Poke \/ ChangePages
  BY <1>6, AnswersGuests, ThrowGuests DEF Poke, ChangePages
<1>7. CASE Export
  <2>1. CASE \E value : Answers(value)
    BY <2>1, AnswersGuests
  <2>2. CASE UNCHANGED <<guests, trails>>
    BY <2>2, GuestsStay
  <2>. QED
    BY <1>7, <2>1, <2>2 DEF Export
<1>8. CASE StartMachine
  <2>1. CASE \E value : Answers(value)
    BY <2>1, AnswersGuests
  <2>2. ASSUME NEW prog \in Codes, NEW pc \in StartPcs, NEW g, NEW n,
               g = [prog |-> prog, pc |-> pc, ram |-> NewRam],
               SetGuest(n, g, [start |-> Machine(g, NoRegisters, 0),
                               w |-> NoRegisters, over |-> TRUE])
        PROVE  GuestsInv'
    <3>1. PICK t : t = [start |-> Machine(g, NoRegisters, 0), w |-> NoRegisters, over |-> TRUE]
      OBVIOUS
    <3>2. Sound(g, t)
      BY <2>2, <3>1, SoundStart
    <3>3. SetGuest(n, g, t)
      BY <2>2, <3>1
    <3>. QED
      BY <3>2, <3>3, GuestSet
  <2>. QED
    BY Zenon, <1>8, <2>1, <2>2 DEF StartMachine
<1>9. CASE Invoke
  <2>1. CASE \E value : Answers(value)
    BY <2>1, AnswersGuests
  <2>2. CASE \E why : Throw(why)
    BY <2>2, ThrowGuests
  <2>3. ASSUME NEW n \in DOMAIN guests, NEW grant \in Grants, NEW w, NEW g, g = guests[n],
               NEW done, done = RunToExit(g.prog, Machine(g, w, grant)),
               SetGuest(n, [g EXCEPT !.pc = NextPc(g, done), !.ram = RamOf(done)],
                        Trail(n, w, grant, done))
        PROVE  GuestsInv'
    <3>1. PICK t, t2, g2 :
            /\ t = trails[n] /\ t2 = Trail(n, w, grant, done)
            /\ g2 = [g EXCEPT !.pc = NextPc(g, done), !.ram = RamOf(done)]
      OBVIOUS
    <3>2. Sound(g, t)
      BY <2>3, <3>1 DEF GuestsInv
    <3>3. PICK fresh \in BOOLEAN : fresh <=> (t.over \/ w # t.w)
      <4>1. CASE t.over \/ w # t.w
        BY <4>1
      <4>2. CASE ~(t.over \/ w # t.w)
        BY <4>2
      <4>. QED
        BY <4>1, <4>2
    <3>4. t2 = [start |-> IF fresh THEN Machine(g, w, grant)
                          ELSE MoreGas(t.start, grant),
                w |-> done.w, over |-> done.exit.why # "outOfGas"]
      <4>1. t2 = [start |-> IF t.over \/ w # t.w THEN Machine(g, w, grant)
                            ELSE MoreGas(t.start, grant),
                  w |-> done.w, over |-> done.exit.why # "outOfGas"]
        BY Zenon, <2>3, <3>1 DEF Trail, MoreGas
      <4>. QED
        BY <3>3, <4>1
    <3>5. grant \in Nat
      BY GrantsAssumption
    <3>6. g2 = [prog |-> g.prog, pc |-> NextPc(g, done), ram |-> RamOf(done)]
      <4>1. g = [prog |-> g.prog, pc |-> g.pc, ram |-> g.ram]
        BY Zenon, <3>2 DEF Sound
      <4>2. PICK a, b, c, x, y : /\ a = g.prog /\ b = g.pc /\ c = g.ram
                                 /\ x = NextPc(g, done) /\ y = RamOf(done)
        OBVIOUS
      <4>3. g = [prog |-> a, pc |-> b, ram |-> c] /\ g2 = [g EXCEPT !.pc = x, !.ram = y]
        BY <3>1, <4>1, <4>2
      <4>4. g2 = [prog |-> a, pc |-> x, ram |-> y]
        BY ONLY <4>3
      <4>. QED
        BY <4>2, <4>4
    <3>8. Sound(g2, t2)
      BY ONLY <3>2, <3>3, <3>4, <3>5, <3>6, done = RunToExit(g.prog, Machine(g, w, grant)),
         SoundNext
    <3>7. SetGuest(n, g2, t2)
      BY Zenon, <2>3, <3>1
    <3>. QED
      BY <3>7, <3>8, GuestSet
  <2>. QED
    BY Zenon, <1>9, <2>1, <2>2, <2>3 DEF Invoke
<1>10. CASE Expunge
  <2>1. CASE \E value : Answers(value)
    BY <2>1, AnswersGuests
  <2>2. ASSUME NEW n,
               guests' = [k \in DOMAIN guests \ {n} |-> guests[k]],
               trails' = [k \in DOMAIN guests \ {n} |-> trails[k]]
        PROVE  GuestsInv'
    BY <2>2 DEF GuestsInv
  <2>. QED
    BY Zenon, <1>10, <2>1, <2>2 DEF Expunge
<1>11. CASE UNCHANGED refineVars
  BY <1>11, GuestsStay DEF refineVars
<1>. QED
  BY <1>1, <1>2, <1>3, <1>4, <1>5, <1>6, <1>7, <1>8, <1>9, <1>10, <1>11 DEF RefineNext

(* An inner machine that runs out of gas and is invoked again with the     *)
(* registers it handed back does what one invocation with all the gas      *)
(* would have done, whatever its program and however often it is invoked   *)
(* (functions.ts:833-943).                                                 *)
THEOREM InvocationsComposed == Refining => []InvocationsCompose
<1>1. GuestsInv => InvocationsCompose
  BY DEF GuestsInv, Sound, InvocationsCompose
<1>. QED
  BY <1>1, GuestsStart, GuestsNext, PTL DEF Refining

-----------------------------------------------------------------------------
(* What the items may export, one after the other.                         *)

IsSeq(q) == \E S : q \in Seq(S)

\* A nonempty set of numbers up to a bound has a greatest element.
LEMMA GreatestElement ==
  ASSUME NEW N \in Nat, NEW S \in SUBSET (0..N), S # {}
  PROVE  Max(S) \in S /\ \A n \in S : n <= Max(S)
<1>. DEFINE T == {N - n : n \in S}
<1>1. T \in SUBSET Nat /\ T # {}
  OBVIOUS
<1>2. PICK m \in T : \A n \in T : m <= n
  <2>. HIDE DEF T
  <2>. QED
    BY <1>1, LeastElement
<1>3. PICK k \in S : m = N - k
  BY <1>2
<1>4. ASSUME NEW n \in S PROVE n <= k
  <2>. N - n \in T
    OBVIOUS
  <2>. m <= N - n
    BY <1>2
  <2>. QED
    BY <1>3
<1>5. \A n \in S : k >= n
  BY <1>4
<1>6. PICK l \in S : (\A n \in S : l >= n) /\ l = Max(S)
  BY <1>5 DEF Max
<1>. QED
  BY <1>6

LEMMA GreatestIs ==
  ASSUME NEW k \in Nat, NEW S \in SUBSET (1..k), k \in S
  PROVE  Max(S) = k
<1>1. S \in SUBSET (0..k) /\ S # {}
  OBVIOUS
<1>2. PICK m : m = Max(S)
  OBVIOUS
<1>3. m \in S /\ k <= m
  BY <1>1, <1>2, GreatestElement
<1>4. m = k
  BY <1>3
<1>. QED
  BY <1>2, <1>4

\* iter adds up the counts of the tasks at the indices of a set, the last one last.
Adding(iter, s, D) ==
  /\ DOMAIN iter = SUBSET D
  /\ \A T \in SUBSET D :
       iter[T] = IF T = {} THEN 0 ELSE iter[T \ {Max(T)}] + s[Max(T)].exportCount

LEMMA AddingExists ==
  ASSUME NEW s, NEW N \in Nat
  PROVE  \E iter : Adding(iter, s, 1..N)
<1>. DEFINE G == {k \in 0..N : \E iter : Adding(iter, s, 1..k)}
<1>1. 0 \in G
  <2>. DEFINE z == [T \in {{}} |-> 0]
  <2>1. 1..0 = {} /\ SUBSET {} = {{}} /\ DOMAIN z = {{}} /\ z[{}] = 0
    OBVIOUS
  <2>. HIDE DEF z
  <2>2. Adding(z, s, 1..0)
    BY <2>1 DEF Adding
  <2>. QED
    BY <2>2
<1>2. ASSUME NEW k \in 0..N - 1, k \in G PROVE k + 1 \in G
  <2>1. PICK f : Adding(f, s, 1..k)
    BY <1>2
  <2>2. PICK l : l = k + 1
    OBVIOUS
  <2>3. /\ l \in Nat /\ l \in 1..l /\ l \notin 1..k /\ 1..l = (1..k) \cup {l}
        /\ k \in Nat
    BY <2>2
  <2>. DEFINE g == [T \in SUBSET (1..l) |->
                      IF l \in T THEN f[T \ {l}] + s[l].exportCount ELSE f[T]]
  <2>4. ASSUME NEW T \in SUBSET (1..l)
        PROVE  g[T] = IF T = {} THEN 0 ELSE g[T \ {Max(T)}] + s[Max(T)].exportCount
    <3>1. CASE l \in T
      <4>1. Max(T) = l
        BY <2>3, <3>1, GreatestIs
      <4>2. T \ {l} \in SUBSET (1..l) /\ l \notin T \ {l} /\ T # {}
        BY <3>1
      <4>3. g[T \ {l}] = f[T \ {l}] /\ g[T] = f[T \ {l}] + s[l].exportCount
        BY <3>1, <4>2
      <4>. HIDE DEF g
      <4>. QED
        BY <4>1, <4>2, <4>3
    <3>2. CASE l \notin T
      <4>1. T \in SUBSET (1..k)
        BY <2>3, <3>2
      <4>2. f[T] = IF T = {} THEN 0 ELSE f[T \ {Max(T)}] + s[Max(T)].exportCount
        BY <2>1, <4>1 DEF Adding
      <4>3. PICK U : U = T \ {Max(T)}
        OBVIOUS
      <4>4. U \in SUBSET (1..l) /\ l \notin U
        BY <3>2, <4>3
      <4>5. g[T] = f[T] /\ g[U] = f[U]
        BY <3>2, <4>4
      <4>. HIDE DEF g
      <4>. QED
        BY <4>2, <4>3, <4>5
    <3>. QED
      BY <3>1, <3>2
  <2>5. DOMAIN g = SUBSET (1..l)
    OBVIOUS
  <2>. HIDE DEF g
  <2>6. Adding(g, s, 1..l)
    BY <2>4, <2>5 DEF Adding
  <2>. QED
    BY <2>2, <2>6
<1>3. \A k \in 0..N : k \in G
  <2>. HIDE DEF G
  <2>. QED
    BY <1>1, <1>2, Induction
<1>. QED
  BY <1>3

LEMMA FoldIsAdding ==
  ASSUME NEW s, NEW N \in Nat, DOMAIN s = 1..N
  PROVE  \E iter : /\ Adding(iter, s, 1..N)
                   /\ FoldLeft(LAMBDA sum, it : sum + it.exportCount, 0, s) = iter[1..N]
<1>. DEFINE Body(g) == [T \in SUBSET (1..N) |->
                          IF T = {} THEN 0
                          ELSE g[T \ {Max(T)}] + s[Max(T)].exportCount]
            it == CHOOSE g : g = Body(g)
<1>1. FoldLeft(LAMBDA sum, task : sum + task.exportCount, 0, s) = it[1..N]
  BY DEF FoldLeft, MapThenFoldSet
<1>2. PICK h : Adding(h, s, 1..N)
  BY AddingExists
<1>3. PICK g : g = Body(g) /\ g = it
  <2>. DEFINE k == [T \in SUBSET (1..N) |-> h[T]]
  <2>1. k = Body(k)
    BY <1>2 DEF Adding
  <2>. HIDE DEF k, Body
  <2>. QED
    BY <2>1
<1>4. Adding(g, s, 1..N)
  BY <1>3 DEF Adding
<1>. QED
  BY <1>1, <1>3, <1>4

\* h adds up the counts of the tasks from the first one on.
Total(h, s, N) == h[0] = 0 /\ \A k \in 1..N : h[k] = h[k - 1] + s[k].exportCount
Totals(h, s, N) ==
  /\ h \in [0..N -> Nat]
  /\ Total(h, s, N)

LEMMA AddingIsTotal ==
  ASSUME NEW s, NEW N \in Nat, NEW iter, Adding(iter, s, 1..N), NEW h, Total(h, s, N)
  PROVE  iter[1..N] = h[N]
<1>. DEFINE G == {k \in 0..N : iter[1..k] = h[k]}
<1>1. 0 \in G
  <2>1. 1..0 = {} /\ {} \in SUBSET (1..N)
    OBVIOUS
  <2>2. iter[{}] = 0
    BY <2>1 DEF Adding
  <2>. QED
    BY <2>1, <2>2 DEF Total
<1>2. ASSUME NEW k \in 0..N - 1, k \in G PROVE k + 1 \in G
  <2>1. PICK l : l = k + 1
    OBVIOUS
  <2>a. l \in Nat /\ l \in 1..N /\ l - 1 = k /\ l \in 0..N /\ l \in 1..l
    BY <2>1
  <2>b. \A n \in 1..l : n \in 1..N
    BY <2>a
  <2>2. /\ l \in Nat /\ l \in 1..N /\ l - 1 = k /\ l \in 0..N /\ 1..l \in SUBSET (1..N)
        /\ l \in 1..l /\ 1..l # {} /\ 1..l \in SUBSET (1..l)
    BY Zenon, <2>a, <2>b
  <2>9. (1..l) \ {l} = 1..k
    BY <2>1
  <2>3. Max(1..l) = l
    BY ONLY <2>2, GreatestIs
  <2>4. iter[1..l] = iter[(1..l) \ {Max(1..l)}] + s[Max(1..l)].exportCount
    BY <2>2 DEF Adding
  <2>5. iter[1..l] = iter[1..k] + s[l].exportCount
    BY <2>3, <2>4, <2>9
  <2>6. iter[1..k] = h[k]
    BY <1>2
  <2>7. h[l] = h[k] + s[l].exportCount
    BY <2>2 DEF Total
  <2>8. iter[1..l] = h[l]
    BY <2>5, <2>6, <2>7
  <2>. QED
    BY <2>1, <2>2, <2>8
<1>3. \A k \in 0..N : k \in G
  <2>. HIDE DEF G
  <2>. QED
    BY <1>1, <1>2, Induction
<1>. QED
  BY <1>3

LEMMA TotalsExist ==
  ASSUME NEW s, NEW N \in Nat, \A k \in 1..N : s[k].exportCount \in Nat
  PROVE  \E h : Totals(h, s, N)
<1>. DEFINE S == {k \in 0..N : \E h : Totals(h, s, k)}
<1>1. 0 \in S
  <2>. DEFINE z == [k \in 0..0 |-> 0]
  <2>1. z \in [0..0 -> Nat] /\ z[0] = 0 /\ 1..0 = {}
    OBVIOUS
  <2>. HIDE DEF z
  <2>2. Totals(z, s, 0)
    BY <2>1 DEF Totals, Total
  <2>. QED
    BY <2>2
<1>2. ASSUME NEW k \in 0..N - 1, k \in S PROVE k + 1 \in S
  <2>1. PICK h : Totals(h, s, k)
    BY <1>2
  <2>2. PICK l, c : l = k + 1 /\ c = s[l].exportCount
    OBVIOUS
  <2>3. l \in 1..N /\ l \in Nat /\ k \in Nat /\ l - 1 = k /\ c \in Nat /\ k \in 0..k
    BY <2>2
  <2>4. h[k] \in Nat
    BY <2>1, <2>3 DEF Totals, Total
  <2>. DEFINE g == [n \in 0..l |-> IF n = l THEN h[k] + c ELSE h[n]]
  <2>5. g \in [0..l -> Nat]
    <3>1. ASSUME NEW n \in 0..l PROVE g[n] \in Nat
      <4>1. CASE n = l
        BY <2>3, <2>4, <4>1
      <4>2. CASE n # l
        <5>1. n \in 0..k
          BY <2>2, <4>2
        <5>. QED
          BY <2>1, <4>2, <5>1 DEF Totals, Total
      <4>. QED
        BY <4>1, <4>2
    <3>. QED
      BY <3>1
  <2>6. g[0] = 0
    BY <2>1, <2>3 DEF Totals, Total
  <2>7. ASSUME NEW n \in 1..l PROVE g[n] = g[n - 1] + s[n].exportCount
    <3>1. n \in 0..l /\ n - 1 \in 0..l /\ n - 1 # l
      BY <2>3
    <3>2. CASE n = l
      <4>1. g[n] = h[k] + c /\ g[n - 1] = h[n - 1]
        BY <3>1, <3>2
      <4>. HIDE DEF g
      <4>. QED
        BY <2>2, <2>3, <3>2, <4>1
    <3>3. CASE n # l
      <4>1. g[n] = h[n] /\ g[n - 1] = h[n - 1]
        BY <3>1, <3>3
      <4>2. n \in 1..k
        BY <2>2, <3>3
      <4>3. h[n] = h[n - 1] + s[n].exportCount
        BY <2>1, <4>2 DEF Totals, Total
      <4>. HIDE DEF g
      <4>. QED
        BY <4>1, <4>3
    <3>. QED
      BY <3>2, <3>3
  <2>. HIDE DEF g
  <2>8. Totals(g, s, l)
    BY <2>5, <2>6, <2>7 DEF Totals, Total
  <2>. QED
    BY <2>2, <2>8
<1>3. \A k \in 0..N : k \in S
  <2>. HIDE DEF S
  <2>. QED
    BY <1>1, <1>2, Induction
<1>. QED
  BY <1>3

(* The exports of an item begin where those of the one before it end.      *)
LEMMA OffsetsAre ==
  ASSUME NEW N \in Nat, N = Len(Items), NEW S, Items \in Seq(S),
         \A k \in 1..N : Items[k].exportCount \in Nat
  PROVE  /\ OffsetOf(1) = 0
         /\ \A i \in 1..N : OffsetOf(i + 1) = OffsetOf(i) + Items[i].exportCount
         /\ \A i \in 1..N + 1 : OffsetOf(i) \in Nat
<1>1. PICK h : Totals(h, Items, N)
  BY TotalsExist
<1>2. ASSUME NEW i \in 1..N + 1 PROVE OffsetOf(i) = h[i - 1]
  <2>1. PICK n, s : n = i - 1 /\ s = SubSeq(Items, 1, i - 1)
    OBVIOUS
  <2>2. n \in Nat /\ n <= N /\ DOMAIN s = 1..n /\ \A k \in 1..n : s[k] = Items[k]
    BY <2>1
  <2>3. PICK iter :
          /\ Adding(iter, s, 1..n)
          /\ FoldLeft(LAMBDA sum, it : sum + it.exportCount, 0, s) = iter[1..n]
    BY <2>2, FoldIsAdding
  <2>4. OffsetOf(i) = iter[1..n]
    BY <2>1, <2>3 DEF OffsetOf
  <2>5. Total(h, s, n)
    BY <1>1, <2>2 DEF Totals, Total
  <2>6. iter[1..n] = h[n]
    <3>1. n \in Nat /\ Adding(iter, s, 1..n) /\ Total(h, s, n)
      BY <2>2, <2>3, <2>5
    <3>. QED
      BY Zenon, <3>1, AddingIsTotal
  <2>. QED
    BY <2>1, <2>4, <2>6
<1>3. OffsetOf(1) = 0
  <2>1. 1 \in 1..N + 1 /\ 1 - 1 = 0
    OBVIOUS
  <2>2. OffsetOf(1) = h[1 - 1]
    BY <1>2, <2>1
  <2>. QED
    BY <1>1, <2>1, <2>2 DEF Totals, Total
<1>4. ASSUME NEW i \in 1..N PROVE OffsetOf(i + 1) = OffsetOf(i) + Items[i].exportCount
  <2>1. i + 1 \in 1..N + 1 /\ i \in 1..N + 1 /\ (i + 1) - 1 = i
    OBVIOUS
  <2>2. PICK j : j = i + 1
    OBVIOUS
  <2>3. OffsetOf(j) = h[j - 1] /\ j - 1 = i
    BY <1>2, <2>1, <2>2
  <2>4. OffsetOf(i) = h[i - 1]
    BY <1>2, <2>1
  <2>5. h[i] = h[i - 1] + Items[i].exportCount
    BY <1>1 DEF Totals, Total
  <2>. QED
    BY <2>2, <2>3, <2>4, <2>5
<1>5. ASSUME NEW i \in 1..N + 1 PROVE OffsetOf(i) \in Nat
  <2>1. i - 1 \in 0..N
    OBVIOUS
  <2>. QED
    BY <1>1, <1>2, <2>1 DEF Totals, Total
<1>. QED
  BY <1>3, <1>4, <1>5

(* The exports so far are those of the items refined; what the program of  *)
(* the item at hand was told is among its segments; and what the programs  *)
(* of the items that succeeded were told is among the exports.             *)
Fresh == {"authorize", "between", "encoding"}

Pending(t) ==
  /\ stage \notin Fresh
  /\ t.index - OffsetOf(item) + 1 \in 1..Len(segments)
  /\ segments[t.index - OffsetOf(item) + 1] = t.content
Placed(t) ==
  /\ t.index + 1 \in 1..Len(exports)
  /\ exports[t.index + 1] = t.content
Kept(t) ==
  /\ t.item \in 1..item /\ t.index \in Nat
  /\ t.item = item => Pending(t)
  /\ t.item < item /\ digests[t.item].why = "ok" => Placed(t)

ShapeInv ==
  /\ package \in Packages
  /\ IsSeq(digests) /\ IsSeq(exports) /\ IsSeq(segments)
  /\ Len(digests) <= Len(Items)
  /\ stage = "running" => Len(digests) < Len(Items)
  /\ stage \in Fresh => segments = <<>>
  /\ Len(exports) = OffsetOf(item)

ExportsInv == ShapeInv /\ \A t \in told : Kept(t)

LEMMA SeqFacts ==
  ASSUME NEW q, IsSeq(q)
  PROVE  Len(q) \in Nat /\ DOMAIN q = 1..Len(q)
BY DEF IsSeq

LEMMA Appended ==
  ASSUME NEW q, IsSeq(q), NEW v
  PROVE  /\ IsSeq(Append(q, v)) /\ Len(Append(q, v)) = Len(q) + 1 /\ Len(q) \in Nat
         /\ Append(q, v)[Len(q) + 1] = v
         /\ \A i \in 1..Len(q) : Append(q, v)[i] = q[i]
<1>1. PICK S : q \in Seq(S)
  BY DEF IsSeq
<1>. DEFINE T == S \cup {v}
<1>2. q \in Seq(T) /\ v \in T
  BY <1>1
<1>. HIDE DEF T
<1>. QED
  BY <1>2 DEF IsSeq

LEMMA Concatenated ==
  ASSUME NEW q, IsSeq(q), NEW r, IsSeq(r)
  PROVE  /\ IsSeq(q \o r) /\ Len(q \o r) = Len(q) + Len(r) /\ Len(q) \in Nat /\ Len(r) \in Nat
         /\ \A i \in 1..Len(q) : (q \o r)[i] = q[i]
         /\ \A i \in 1..Len(r) : (q \o r)[Len(q) + i] = r[i]
<1>1. PICK S, U : q \in Seq(S) /\ r \in Seq(U)
  BY DEF IsSeq
<1>. DEFINE T == S \cup U
<1>2. q \in Seq(T) /\ r \in Seq(T)
  BY <1>1
<1>. HIDE DEF T
<1>3. q \o r \in Seq(T)
  BY <1>2
<1>. QED
  BY <1>2, <1>3 DEF IsSeq

LEMMA ItemsAre ==
  ASSUME package \in Packages
  PROVE  /\ Items \in Seq(Tasks) /\ Len(Items) \in Nat
         /\ \A k \in 1..Len(Items) : Items[k] \in Tasks /\ Items[k].exportCount \in Nat
<1>1. Items \in Seq(Tasks)
  BY PackagesAssumption DEF Items
<1>2. Len(Items) \in Nat /\ \A k \in 1..Len(Items) : Items[k] \in Tasks
  BY <1>1
<1>3. \A task \in Tasks : task.exportCount \in Nat
  BY DEF Tasks
<1>. QED
  BY <1>1, <1>2, <1>3

LEMMA Offsets ==
  ASSUME package \in Packages
  PROVE  /\ OffsetOf(1) = 0
         /\ \A i \in 1..Len(Items) : OffsetOf(i + 1) = OffsetOf(i) + Items[i].exportCount
         /\ \A i \in 1..Len(Items) + 1 : OffsetOf(i) \in Nat
<1>1. PICK N : N = Len(Items)
  OBVIOUS
<1>2. N \in Nat /\ Items \in Seq(Tasks) /\ \A k \in 1..N : Items[k].exportCount \in Nat
  BY <1>1, ItemsAre
<1>. QED
  BY <1>1, <1>2, OffsetsAre

OffsetIn(items, i) ==
  FoldLeft(LAMBDA sum, it : sum + it.exportCount, 0, SubSeq(items, 1, i - 1))

LEMMA OffsetsKept ==
  ASSUME UNCHANGED package
  PROVE  /\ Items' = Items /\ OffsetOf(item) = OffsetIn(Items, item)
         /\ OffsetOf(item)' = OffsetIn(Items, item')
         /\ \A i : OffsetOf(i) = OffsetIn(Items, i)
<1>1. Items' = Items
  BY DEF Items
<1>2. \A i : OffsetOf(i) = OffsetIn(Items, i)
  BY DEF OffsetOf, OffsetIn
<1>3. OffsetOf(item)' = OffsetIn(Items', item')
  BY DEF OffsetOf, OffsetIn, FoldLeft, MapThenFoldSet
<1>. QED
  BY <1>1, <1>2, <1>3

(* What becomes of an item's segments has the length the item announced,   *)
(* and is the segments themselves when the item succeeds.                  *)
LEMMA OutcomeIs ==
  ASSUME package \in Packages, item \in 1..Len(Items), NEW res, NEW out, IsSeq(out),
         NEW done, done = Outcome(res, out)
  PROVE  /\ IsSeq(done.out) /\ Len(done.out) = Items[item].exportCount
         /\ done.res.why = "ok" => res.why = "ok" /\ done.out = out
<1>1. PICK n, z : n = Items[item].exportCount /\ z = Zeros
  OBVIOUS
<1>2. n \in Nat
  BY <1>1, ItemsAre
<1>3. z = [k \in 1..n |-> Zero]
  BY <1>1 DEF Zeros
<1>4. z \in Seq({Zero}) /\ Len(z) = n
  BY <1>2, <1>3
<1>5. IsSeq(z)
  BY <1>4 DEF IsSeq
<1>6. \/ done = [res |-> Error("big"), out |-> z]
      \/ Len(out) # n /\ done = [res |-> Error("badExports"), out |-> z]
      \/ Len(out) = n /\ res.why # "ok" /\ done = [res |-> res, out |-> z]
      \/ Len(out) = n /\ res.why = "ok" /\ done = [res |-> res, out |-> out]
  BY Zenon, <1>1 DEF Outcome
<1>. QED
  BY <1>1, <1>4, <1>5, <1>6 DEF Error

LEMMA EndWithExports ==
  ASSUME ExportsInv, Len(digests) < Len(Items),
         NEW res, NEW out, NEW used, EndWith(res, out, used), IsSeq(out),
         res.why = "ok" => stage \notin Fresh /\ out = segments
  PROVE  ExportsInv'
<1>1. PICK done : done = Outcome(res, out)
  OBVIOUS
<1>2. PICK x : x = [why |-> done.res.why, length |-> done.res.length, used |-> used]
  OBVIOUS
<1>3. /\ digests' = Append(digests, x) /\ exports' = exports \o done.out
      /\ stage' = "between" /\ segments' = <<>>
      /\ package' = package /\ told' = told
  BY Zenon, <1>1, <1>2 DEF EndWith
<1>4. /\ package \in Packages /\ IsSeq(digests) /\ IsSeq(exports) /\ IsSeq(segments)
      /\ Len(exports) = OffsetOf(item) /\ \A t \in told : Kept(t)
  BY DEF ExportsInv, ShapeInv
<1>5. Len(digests) \in Nat /\ Len(Items) \in Nat /\ item = Len(digests) + 1
      /\ item \in 1..Len(Items)
  BY <1>4, SeqFacts, ItemsAre DEF item
<1>6. /\ IsSeq(done.out) /\ Len(done.out) = Items[item].exportCount
      /\ done.res.why = "ok" => res.why = "ok" /\ done.out = out
  BY <1>1, <1>4, <1>5, OutcomeIs
<1>7. /\ IsSeq(digests') /\ Len(digests') = Len(digests) + 1
      /\ digests'[item] = x /\ \A i \in 1..Len(digests) : digests'[i] = digests[i]
  BY <1>3, <1>4, <1>5, Appended
<1>8. /\ IsSeq(exports') /\ Len(exports') = Len(exports) + Len(done.out)
      /\ Len(exports) \in Nat /\ Len(done.out) \in Nat
      /\ \A i \in 1..Len(exports) : exports'[i] = exports[i]
      /\ \A i \in 1..Len(done.out) : exports'[Len(exports) + i] = done.out[i]
  <2>1. PICK e, o : e = exports /\ o = done.out
    OBVIOUS
  <2>2. IsSeq(e) /\ IsSeq(o)
    BY <1>4, <1>6, <2>1
  <2>3. /\ IsSeq(e \o o) /\ Len(e \o o) = Len(e) + Len(o) /\ Len(e) \in Nat /\ Len(o) \in Nat
        /\ \A i \in 1..Len(e) : (e \o o)[i] = e[i]
        /\ \A i \in 1..Len(o) : (e \o o)[Len(e) + i] = o[i]
    BY ONLY <2>2, Concatenated
  <2>4. exports' = e \o o
    BY <1>3, <2>1
  <2>. QED
    BY Zenon, <2>1, <2>3, <2>4
<1>9. Items' = Items
  BY <1>3, OffsetsKept
<1>10. item' = item + 1
  BY <1>5, <1>7 DEF item
<1>11. OffsetOf(item)' = OffsetOf(item + 1)
  BY Zenon, <1>3, <1>10, OffsetsKept
<1>12. Len(exports') = OffsetOf(item)'
  <2>1. OffsetOf(item + 1) = OffsetOf(item) + Items[item].exportCount
    BY <1>4, <1>5, Offsets
  <2>. QED
    BY <1>4, <1>6, <1>8, <1>11, <2>1
<1>13. IsSeq(segments')
  <2>1. <<>> \in Seq({})
    OBVIOUS
  <2>. QED
    BY <1>3, <2>1 DEF IsSeq
<1>14. ShapeInv'
  BY <1>3, <1>4, <1>5, <1>7, <1>8, <1>9, <1>12, <1>13 DEF ShapeInv, Fresh
<1>15. ASSUME NEW t \in told' PROVE Kept(t)'
  <2>1. t \in told /\ Kept(t)
    BY <1>3, <1>4
  <2>2. t.item \in 1..item /\ t.index \in Nat
    BY <2>1 DEF Kept
  <2>3. t.item \in 1..item' /\ t.item < item' /\ t.item # item'
    BY <1>5, <1>10, <2>2
  <2>4. ASSUME digests'[t.item].why = "ok"
        PROVE  t.index + 1 \in 1..Len(exports') /\ exports'[t.index + 1] = t.content
    <3>1. CASE t.item < item
      <4>1. t.item \in 1..Len(digests)
        BY <1>5, <2>2, <3>1
      <4>2. digests[t.item].why = "ok"
        BY <1>7, <2>4, <4>1
      <4>3. Placed(t)
        BY <2>1, <3>1, <4>2 DEF Kept
      <4>. QED
        BY <1>8, <4>3 DEF Placed
    <3>2. CASE t.item = item
      <4>1. x.why = "ok"
        BY <1>7, <2>4, <3>2
      <4>2. done.res.why = "ok"
        BY <1>2, <4>1
      <4>3. done.out = segments /\ stage \notin Fresh
        BY <1>6, <4>2
      <4>4. PICK o, i : o = OffsetOf(item) /\ i = t.index - OffsetOf(item) + 1
        OBVIOUS
      <4>5. i \in 1..Len(segments) /\ segments[i] = t.content
        BY <2>1, <3>2, <4>4 DEF Kept, Pending
      <4>6. o = Len(exports) /\ o \in Nat
        BY <1>4, <1>8, <4>4
      <4>7. t.index + 1 = o + i
        BY <2>2, <4>4, <4>6
      <4>8. exports'[o + i] = t.content
        BY <1>8, <4>3, <4>5, <4>6
      <4>. QED
        BY <1>8, <4>3, <4>5, <4>6, <4>7, <4>8
    <3>. QED
      BY <1>5, <2>2, <3>1, <3>2
  <2>. QED
    BY <2>2, <2>3, <2>4 DEF Kept, Placed
<1>. QED
  BY <1>14, <1>15 DEF ExportsInv

(* A step that leaves the exports alone and does not go back.              *)
LEMMA ExportsStay ==
  ASSUME ExportsInv, UNCHANGED <<package, digests, exports, segments, told>>,
         stage' = "running" => Len(digests) < Len(Items),
         stage' \in Fresh => stage \in Fresh
  PROVE  ExportsInv'
<1>1. Items' = Items /\ item' = item
  BY OffsetsKept DEF item
<1>2. OffsetOf(item)' = OffsetOf(item)
  BY Zenon, <1>1, OffsetsKept
<1>3. ShapeInv'
  BY <1>1, <1>2 DEF ExportsInv, ShapeInv
<1>4. ASSUME NEW t \in told' PROVE Kept(t)'
  <2>1. t \in told /\ Kept(t)
    BY DEF ExportsInv
  <2>2. Pending(t) => Pending(t)'
    BY <1>2 DEF Pending
  <2>3. Placed(t) => Placed(t)'
    BY DEF Placed
  <2>. QED
    BY <1>1, <2>1, <2>2, <2>3 DEF Kept
<1>. QED
  BY <1>3, <1>4 DEF ExportsInv

LEMMA ExportsStart ==
  ASSUME RefineInit
  PROVE  ExportsInv
<1>1. package \in Packages /\ digests = <<>> /\ exports = <<>> /\ segments = <<>> /\ told = {}
      /\ stage = "authorize"
  BY DEF RefineInit
<1>2. <<>> \in Seq({}) /\ Len(<<>>) = 0
  OBVIOUS
<1>3. IsSeq(digests) /\ IsSeq(exports) /\ IsSeq(segments)
  BY <1>1, <1>2 DEF IsSeq
<1>4. item = 1 /\ Len(digests) = 0 /\ Len(exports) = 0
  BY <1>1, <1>2 DEF item
<1>5. OffsetOf(item) = 0 /\ Len(Items) \in Nat
  BY <1>1, <1>4, Offsets, ItemsAre
<1>. QED
  BY <1>1, <1>3, <1>4, <1>5 DEF ExportsInv, ShapeInv, Fresh

LEMMA AnswersExports ==
  ASSUME ExportsInv, NEW value, Answers(value)
  PROVE  ExportsInv'
<1>1. UNCHANGED <<package, digests, exports, segments, told, stage>>
  BY DEF Answers, context
<1>. QED
  BY <1>1, ExportsStay DEF ExportsInv, ShapeInv

LEMMA ThrowExports ==
  ASSUME ExportsInv, NEW why, Throw(why), why # "running", why \in Fresh => stage \in Fresh
  PROVE  ExportsInv'
<1>1. UNCHANGED <<package, digests, exports, segments, told>> /\ stage' = why
  BY DEF Throw, context
<1>. QED
  BY <1>1, ExportsStay

\* What the other calls change is not the exports.
LEMMA ChangesExports ==
  ASSUME ExportsInv, Changes, UNCHANGED <<told, segments>>
  PROVE  ExportsInv'
<1>1. UNCHANGED <<package, digests, exports, segments, told, stage>>
  BY DEF Changes
<1>. QED
  BY <1>1, ExportsStay DEF ExportsInv, ShapeInv

LEMMA ExportsNext ==
  ASSUME ExportsInv, [RefineNext]_refineVars
  PROVE  ExportsInv'
<1>a. /\ stage = "running" => Len(digests) < Len(Items)
      /\ IsSeq(segments) /\ package \in Packages /\ IsSeq(digests)
  BY DEF ExportsInv, ShapeInv
<1>b. IsSeq(<<>>)
  <2>1. <<>> \in Seq({})
    OBVIOUS
  <2>. QED
    BY <2>1 DEF IsSeq
<1>c. \A why \in {"bad", "big", "panic", "outOfGas"} : Error(why).why # "ok"
  BY DEF Error
<1>d. "running" \notin Fresh /\ "thrown" \notin Fresh
  BY DEF Fresh
<1>e. Len(digests) \in Nat /\ Len(Items) \in Nat
  BY <1>a, SeqFacts, ItemsAre
<1>1. CASE Authorize
  <2>1. UNCHANGED <<package, digests, exports, segments, told>> /\ stage = "authorize"
        /\ stage' # "running"
    BY <1>1 DEF Authorize, context
  <2>. QED
    BY <2>1, ExportsStay DEF Fresh
<1>2. CASE StartItem
  <2>1. Len(digests) < Len(Items)
    BY <1>2, <1>e DEF StartItem, item
  <2>2. CASE \E why \in {"bad", "big", "panic"} : EndWith(Error(why), <<>>, 0)
    BY <2>1, <2>2, <1>b, <1>c, EndWithExports
  <2>3. CASE stage' \in {"running", "thrown"} /\ UNCHANGED <<package, digests, exports, told, context>>
    <3>1. UNCHANGED <<package, digests, exports, segments, told>>
      BY <2>3 DEF context
    <3>. QED
      BY <1>d, <2>1, <2>3, <3>1, ExportsStay
  <2>. QED
    BY <1>2, <2>2, <2>3 DEF StartItem
<1>3. CASE End \/ TooPoor \/ BadArguments
  <2>1. stage = "running"
    BY <1>3 DEF End, TooPoor, BadArguments
  <2>2. CASE Return
    <3>1. PICK n, used : EndWith(Ok(n), segments, used)
      BY <2>2 DEF Return
    <3>. QED
      BY <1>a, <1>d, <2>1, <3>1, EndWithExports
  <2>3. CASE \E why \in {"panic", "outOfGas"} : \E used : EndWith(Error(why), <<>>, used)
    BY <1>a, <1>b, <1>c, <2>1, <2>3, EndWithExports
  <2>. QED
    BY <1>3, <2>2, <2>3 DEF End, Panics, RunsDry, TooPoor, BadArguments
<1>4. CASE Assemble \/ Encode
  BY <1>4, ThrowExports DEF Assemble, Encode, Fresh
<1>5. CASE Gas \/ Fetch \/ Lookup \/ Other \/ Peek
  BY <1>5, <1>d, AnswersExports, ThrowExports DEF Gas, Fetch, Lookup, Other, Peek
<1>6. CASE Poke \/ ChangePages
  BY <1>6, <1>d, AnswersExports, ThrowExports DEF Poke, ChangePages
<1>7. CASE StartMachine \/ Expunge
  BY <1>7, AnswersExports, ChangesExports DEF StartMachine, Expunge
<1>8. CASE Invoke
  <2>1. CASE \E value : Answers(value)
    BY <2>1, AnswersExports
  <2>2. CASE Throw("thrown")
    BY <1>d, <2>2, ThrowExports
  <2>3. CASE Changes /\ UNCHANGED <<told, segments>>
    BY <2>3, ChangesExports
  <2>. QED
    BY Zenon, <1>8, <2>1, <2>2, <2>3 DEF Invoke
<1>9. CASE Export
  <2>1. CASE \E value : Answers(value)
    BY <2>1, AnswersExports
  <2>2. ASSUME NEW index, index = OffsetOf(item) + Len(segments), NEW content, Changes,
               segments' = Append(segments, content),
               told' = told \cup {[item |-> item, index |-> index, content |-> content]}
        PROVE  ExportsInv'
    <3>1. UNCHANGED <<package, stage, digests, exports>>
      BY <2>2 DEF Changes
    <3>2. Items' = Items /\ item' = item
      BY <3>1, OffsetsKept DEF item
    <3>3. OffsetOf(item)' = OffsetOf(item)
      BY Zenon, <3>1, <3>2, OffsetsKept
    <3>4. stage = "running" /\ item \in 1..Len(Items)
      BY <1>9, <1>a, <1>e DEF Export, Calls, item
    <3>5. OffsetOf(item) \in Nat
      BY <1>a, <1>e, <3>4, Offsets
    <3>6. /\ IsSeq(segments') /\ Len(segments') = Len(segments) + 1 /\ Len(segments) \in Nat
          /\ segments'[Len(segments) + 1] = content
          /\ \A i \in 1..Len(segments) : segments'[i] = segments[i]
      BY <1>a, <2>2, Appended
    <3>7. ShapeInv'
      BY <1>d, <3>1, <3>2, <3>3, <3>4, <3>6 DEF ExportsInv, ShapeInv
    <3>8. ASSUME NEW t \in told' PROVE Kept(t)'
      <4>1. CASE t \in told
        <5>1. Kept(t)
          BY <4>1 DEF ExportsInv
        <5>2. Pending(t) => Pending(t)'
          BY <3>1, <3>3, <3>6 DEF Pending
        <5>3. Placed(t) => Placed(t)'
          BY <3>1 DEF Placed
        <5>. QED
          BY <3>1, <3>2, <5>1, <5>2, <5>3 DEF Kept
      <4>2. CASE t = [item |-> item, index |-> index, content |-> content]
        <5>1. t.item = item /\ t.index = index /\ t.content = content
          BY <4>2
        <5>2. index \in Nat /\ index - OffsetOf(item) + 1 = Len(segments) + 1
          BY <2>2, <3>5, <3>6
        <5>3. Pending(t)'
          BY <1>d, <3>1, <3>3, <3>4, <3>6, <5>1, <5>2 DEF Pending
        <5>4. item \in 1..item /\ ~(item < item)
          BY <3>4
        <5>. QED
          BY <3>2, <5>1, <5>2, <5>3, <5>4 DEF Kept
      <4>. QED
        BY <2>2, <4>1, <4>2
    <3>. QED
      BY <3>7, <3>8 DEF ExportsInv
  <2>. QED
    BY Zenon, <1>9, <2>1, <2>2 DEF Export
<1>10. CASE UNCHANGED refineVars
  <2>1. UNCHANGED <<package, digests, exports, segments, told, stage>>
    BY <1>10 DEF refineVars
  <2>. QED
    BY <1>a, <2>1, ExportsStay
<1>. QED
  BY <1>1, <1>2, <1>3, <1>4, <1>5, <1>6, <1>7, <1>8, <1>9, <1>10 DEF RefineNext

(* A program that exports is told where its segment will stand among all   *)
(* those of the package; whatever becomes of the items before it, of their *)
(* exports and of the limit on all exports, a segment whose item succeeds  *)
(* stands there (compute-work-report.ts:177-226, functions.ts:627-641).    *)
THEOREM ExportsStandInPlace == Refining => []ExportsInPlace
<1>1. ExportsInv => ExportsInPlace
  BY DEF ExportsInv, ShapeInv, Kept, Placed, ExportsInPlace
<1>. QED
  BY <1>1, ExportsStart, ExportsNext, PTL DEF Refining
=============================================================================
