------------------------------- MODULE Fridge -------------------------------
(***************************************************************************)
(* What the drinking system promises: a drink taken is gone from the       *)
(* house's stock and on the drinker's account, a drink bought is in stock  *)
(* and off the buyer's list, and a reset clears the house.  Drinks         *)
(* implements it as long as the app is used in turns; see DrinksFridge.    *)
(***************************************************************************)
EXTENDS Integers

CONSTANTS Users, Houses, Null, MaxBought, MaxChange

VARIABLES
  home,   \* each user's house, or Null; never changes here
  stock,  \* each house's drinks
  taken,  \* each user's drinks
  toBuy   \* each user's drinks to buy; negative when ahead

fridge == <<home, stock, taken, toBuy>>

Init ==
  /\ home \in [Users -> Houses \cup {Null}]
  /\ \A u \in Users : taken[u] = 0 /\ toBuy[u] = 0

\* Nobody drinks from an empty fridge.
Drink(u) ==
  /\ home[u] # Null
  /\ stock[home[u]] # 0
  /\ stock' = [stock EXCEPT ![home[u]] = @ - 1]
  /\ taken' = [taken EXCEPT ![u] = @ + 1]
  /\ toBuy' = [toBuy EXCEPT ![u] = @ + 1]
  /\ UNCHANGED home

Fill(u, bought, change) ==
  /\ home[u] # Null
  /\ stock' = [stock EXCEPT ![home[u]] = @ + bought + change]
  /\ toBuy' = [toBuy EXCEPT ![u] = @ - bought]
  /\ UNCHANGED <<home, taken>>

Reset(h) ==
  /\ stock' = [stock EXCEPT ![h] = 0]
  /\ taken' = [u \in Users |-> IF home[u] = h THEN 0 ELSE taken[u]]
  /\ toBuy' = [u \in Users |-> IF home[u] = h THEN 0 ELSE toBuy[u]]
  /\ UNCHANGED home

Next ==
  \/ \E u \in Users :
       \/ Drink(u)
       \/ \E bought \in 0 .. MaxBought, change \in -MaxChange .. MaxChange :
            Fill(u, bought, change)
  \/ \E h \in Houses : Reset(h)

Spec == Init /\ [][Next]_fridge
=============================================================================
