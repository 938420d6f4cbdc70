---------------------------- MODULE MCResidency ----------------------------
(***************************************************************************)
(* Small instances of Residency: sets of names, and the databases a run    *)
(* starts from.                                                            *)
(***************************************************************************)
EXTENDS Residency, TLC

CONSTANTS u1, u2, h1, h2, h3, dishes, default

MCUsers == {u1, u2}
MCOneHouse == {h1}
MCHouses == {h1, h2}
MCThreeHouses == {h1, h2, h3}
MCTasks == {dishes, default}
MCDishes == {dishes}

\* The databases to start from: any, any with a house (the app's lists load),
\* or one in particular.
MCAnyHomes == [Users -> Houses \cup {Null}]
MCSomeHouse == MCAnyHomes \ {[u \in Users |-> Null]}
MCFlatmates == {u1 :> h1 @@ u2 :> h1}
MCNewcomer == {u1 :> h1 @@ u2 :> Null}

\* Names are interchangeable: no value but Null is singled out.
MCSymmetry == Permutations(Users) \cup Permutations(Houses)
=============================================================================
