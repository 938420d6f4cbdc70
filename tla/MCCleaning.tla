----------------------------- MODULE MCCleaning -----------------------------
\* Small instances of Cleaning: two flatmates, or one of them without a house.
EXTENDS Cleaning, TLC

CONSTANTS u1, u2, h1, dishes, default

MCUsers == {u1, u2}
MCHouses == {h1}
MCTasks == {dishes, default}
MCDishes == {dishes}
MCSomeHouse == [Users -> Houses \cup {Null}] \ {[u \in Users |-> Null]}
MCTogether == {[u \in Users |-> h1]}
MCSymmetry == Permutations(Users)
=============================================================================
