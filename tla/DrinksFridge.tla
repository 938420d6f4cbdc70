---------------------------- MODULE DrinksFridge ----------------------------
(***************************************************************************)
(* Drinks, used in turns, implements Fridge: a drink is taken when the     *)
(* handler of DrinkOne's load issues its writes, the fridge is filled at   *)
(* the tap on Save and cleared at the tap on Delete.  The abstract state   *)
(* is the database as it will be when the writes still on their way are    *)
(* applied.                                                                *)
(***************************************************************************)
EXTENDS Drinks

Abstract == INSTANCE Fridge WITH
  home <- [u \in Users |-> Ahead.users[u].house],
  stock <- [h \in Houses |-> Ahead.houses[h].drinks],
  taken <- [u \in Users |-> Ahead.users[u].drinks],
  toBuy <- [u \in Users |-> Ahead.users[u].drinksToBuy]

(* Used in turns, no drink is lost or counted twice: DrinkOne, Save in     *)
(* AddDrinks and Delete in Overview each change stock and accounts as one  *)
(* step, each starting from what the one before left, and nothing else     *)
(* (loads, other tabs, ending the app) changes either.                     *)
FridgeKept == Abstract!Spec
=============================================================================
