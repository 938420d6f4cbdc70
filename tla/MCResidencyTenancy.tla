------------------------- MODULE MCResidencyTenancy -------------------------
\* Three users and three houses: a house of two next to a house of one.
EXTENDS ResidencyTenancy, TLC

CONSTANTS u1, u2, u3, h1, h2, h3, dishes, default

MCUsers == {u1, u2, u3}
MCHouses == {h1, h2, h3}
MCTasks == {dishes, default}
MCDishes == {dishes}
MCSomeHouse == [Users -> Houses \cup {Null}] \ {[u \in Users |-> Null]}
MCSymmetry == Permutations(Users) \cup Permutations(Houses)
=============================================================================
