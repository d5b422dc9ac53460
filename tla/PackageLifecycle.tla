-------------------------- MODULE PackageLifecycle --------------------------
(***************************************************************************)
(* What the chain promises about a work package: it is reported at most    *)
(* once; once reported it is accumulated at most once, after every package *)
(* it needs, or it is dropped for good.  A block moves any number of       *)
(* packages by one step each.                                              *)
(***************************************************************************)
CONSTANTS
  Packages,
  Needs      \* the packages a package has to be accumulated after

VARIABLE stage

Stages == {"unseen", "reported", "waiting", "accumulated", "dropped"}

Follows ==
  { <<"unseen", "reported">>,
    <<"reported", "waiting">>, <<"reported", "accumulated">>, <<"reported", "dropped">>,
    <<"waiting", "accumulated">>, <<"waiting", "dropped">> }

Init == stage = [p \in Packages |-> "unseen"]

Next ==
  /\ stage' \in [Packages -> Stages]
  /\ \A p \in Packages : stage'[p] # stage[p] =>
       /\ <<stage[p], stage'[p]>> \in Follows
       /\ stage'[p] = "accumulated" =>
            \A q \in Needs[p] : stage'[q] = "accumulated"

Spec == Init /\ [][Next]_stage
=============================================================================
