--------------------------- MODULE MCDrinksFridge ---------------------------
\* Small instances of Drinks: two flatmates, or one of them without a house.
EXTENDS DrinksFridge, TLC

CONSTANTS u1, u2, h1, dishes, default

MCUsers == {u1, u2}
MCHouses == {h1}
MCTasks == {dishes, default}
MCTogether == {u1 :> h1 @@ u2 :> h1}
MCTogetherOrNot == MCTogether \cup {u1 :> h1 @@ u2 :> Null}
=============================================================================
