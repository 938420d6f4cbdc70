------------------------------- MODULE Drinks -------------------------------
(***************************************************************************)
(* The Drinks tab next to the Home tab: DrinkOne, and the two screens it   *)
(* pushes, AddDrinks (buy or correct the stock) and Overview (reset it).   *)
(*                                                                         *)
(* A house's stock is one number at houses/<name>/drinks; each user has a  *)
(* count of drinks taken and of drinks still to buy.  Every change is      *)
(* computed on the phone from the last load and written as the new total.  *)
(* Nobody moves house here; that is Residency.                             *)
(***************************************************************************)
EXTENDS Home, SequencesExt

CONSTANTS
  Crate,      \* 24, or fewer to keep the numbers small
  MaxBought,  \* bound: the most drinks entered as bought before a save
  MaxChange,  \* bound: the most drinks entered as a correction, up or down
  MaxCount,   \* bound: the most drinks of a user, and the most a save enters
  MaxDebt     \* bound: how far below zero a stock or an account may go

ASSUME DrinksAssumption ==
  /\ Crate \in Nat \ {0} /\ MaxBought \in Nat /\ MaxChange \in Nat /\ MaxCount \in Nat
  /\ MaxDebt \in Nat

VARIABLES
  bar,    \* per phone, DrinkViewController: totalDrinks and which buttons work
  draft,  \* per phone, AddDrinksViewController: the edits not saved yet
  top     \* per phone, the top of the Drinks tab's navigation stack

drinksVars == <<homeVars, bar, draft, top>>

\* The screens as the storyboard makes them, before their first load.
NewBar == [total |-> 0, canDrink |-> TRUE, canOpen |-> TRUE]
NewDraft == [stock |-> 0, bought |-> 0, change |-> 0, toBuy |-> 0, minus |-> TRUE]

DrinksTypeOK ==
  /\ DeviceTypeOK
  /\ LabelTypeOK
  /\ bar \in [Users -> [total: Int, canDrink: BOOLEAN, canOpen: BOOLEAN]]
  /\ draft \in [Users -> [stock: Int, bought: 0 .. MaxBought, toBuy: Int,
                          change: -MaxChange .. MaxChange, minus: BOOLEAN]]
  /\ top \in [Users -> {"drink", "add", "overview"}]

newTotalDrinks(u) == draft[u].stock + draft[u].bought + draft[u].change

\* A process that ends takes the tab's view controllers with it.
ForgetTab(u) ==
  /\ bar' = [bar EXCEPT ![u] = NewBar]
  /\ draft' = [draft EXCEPT ![u] = NewDraft]
  /\ top' = [top EXCEPT ![u] = "drink"]

Trap(u) ==
  /\ Crash(u)
  /\ LabelLost(u)
  /\ ForgetTab(u)
  /\ UNCHANGED <<database, online, week>>

-----------------------------------------------------------------------------
(* DrinkViewController.                                                    *)

\* What if: the screen were shown again without a load.
ShowDrinks_NoLoad(u) ==
  /\ screen' = [screen EXCEPT ![u] = "drink"]
  /\ top' = [top EXCEPT ![u] = "drink"]
  /\ phase' = [phase EXCEPT ![u] = "ready"]
  /\ then' = [then EXCEPT ![u] = Nothing]
  /\ UNCHANGED <<database, uplink, online, asked, memory, week, label, bar, draft>>

\* viewWillAppear.
ShowDrinks(u) ==
  /\ screen' = [screen EXCEPT ![u] = "drink"]
  /\ top' = [top EXCEPT ![u] = "drink"]
  /\ GetAllData(u, Run("drinks"))
  /\ UNCHANGED <<database, uplink, online, me, residents, week, label, bar, draft>>

\* updateValues: a house that is not in the copy leaves totalDrinks alone.
UpdatedTotal(u, h) == IF seen[u][h] # NoHouse THEN seen[u][h].drinks ELSE bar[u].total

\* What if: the other two buttons stayed enabled without a house.
DrinksShown_StaysOpen(u) ==
  LET h == me[u].house IN
  /\ Loaded(u, "drinks")
  /\ bar' = [bar EXCEPT ![u] =
               IF h = Null THEN @
               ELSE [total |-> UpdatedTotal(u, h), canOpen |-> TRUE,
                     canDrink |-> UpdatedTotal(u, h) # 0]]
  /\ Rest(u)
  /\ UNCHANGED <<database, online, screen, me, week, label, draft, top>>

DrinksShown(u) ==
  LET h == me[u].house IN
  /\ Loaded(u, "drinks")
  /\ bar' = [bar EXCEPT ![u] =
               IF h = Null THEN [@ EXCEPT !.canOpen = FALSE]
               ELSE [total |-> UpdatedTotal(u, h), canOpen |-> TRUE,
                     canDrink |-> UpdatedTotal(u, h) # 0]]
  /\ Rest(u)
  /\ UNCHANGED <<database, online, screen, me, week, label, draft, top>>

drinkOneButtonTapped(u) ==
  /\ Ready(u, "drink")
  /\ bar[u].canDrink
  /\ bar[u].total >= -MaxDebt + 1 \/ me[u].house = Null
  /\ Len(uplink[u]) <= MaxUnsent
  /\ users[u].drinks < MaxCount
  /\ GetAllData(u, Run("drunk"))
  /\ UNCHANGED <<database, uplink, online, screen, me, residents, week, label, bar, draft, top>>

\* What if: the drink were not entered on the user's account.
DrinkPuts_NotCounted(u, h, total) ==
  <<SetStock(h, total), SetDrinksToBuy(u, me[u].drinksToBuy + 1)>>

DrinkPuts(u, h, total) ==
  <<SetStock(h, total), SetDrinks(u, me[u].drinks + 1),
    SetDrinksToBuy(u, me[u].drinksToBuy + 1)>>

\* What if: the button were not looked at again after a drink.
DrinkTaken_StaysEnabled(u) ==
  LET h == me[u].house
      left == UpdatedTotal(u, h) - 1
  IN
  /\ Loaded(u, "drunk")
  /\ h # Null
  /\ bar' = [bar EXCEPT ![u].total = left]
  /\ Issue(u, DrinkPuts(u, h, left))
  /\ phase' = [phase EXCEPT ![u] = "ready"]
  /\ then' = [then EXCEPT ![u] = Nothing]
  /\ UNCHANGED <<database, online, screen, asked, memory, week, label, draft, top>>

\* The load's handler: one less in stock, one more for the user.  (The house
\* is force-unwrapped, and drinkOneButton works for a user who has none.)
DrinkTaken(u) ==
  LET h == me[u].house
      left == UpdatedTotal(u, h) - 1
  IN
  /\ Loaded(u, "drunk")
  /\ \/ h = Null /\ Trap(u)
     \/ /\ h # Null
        /\ bar' = [bar EXCEPT ![u].total = left, ![u].canDrink = (left # 0)]
        /\ Issue(u, DrinkPuts(u, h, left))
        /\ phase' = [phase EXCEPT ![u] = "ready"]
        /\ then' = [then EXCEPT ![u] = Nothing]
        /\ UNCHANGED <<database, online, screen, asked, memory, week, label, draft, top>>

-----------------------------------------------------------------------------
(* AddDrinksViewController.                                                *)

PushAdd(u) ==
  /\ Ready(u, "drink")
  /\ bar[u].canOpen
  /\ screen' = [screen EXCEPT ![u] = "add"]
  /\ top' = [top EXCEPT ![u] = "add"]
  /\ draft' = [draft EXCEPT ![u] = NewDraft]
  /\ GetAllData(u, Run("add"))
  /\ UNCHANGED <<database, uplink, online, me, residents, week, label, bar>>

\* updateValues and updateUI, with both unwraps.
AddOpened(u) ==
  LET h == me[u].house IN
  /\ Loaded(u, "add")
  /\ \/ (h = Null \/ seen[u][h] = NoHouse) /\ Trap(u)
     \/ /\ h # Null /\ seen[u][h] # NoHouse
        /\ draft' = [draft EXCEPT ![u] =
             [@ EXCEPT !.stock = seen[u][h].drinks, !.toBuy = me[u].drinksToBuy,
                       !.minus = seen[u][h].drinks # 0]]
        /\ Rest(u)
        /\ UNCHANGED <<database, online, screen, me, week, label, bar, top>>

\* The buttons: each changes the edits and calls updateUI.
Edit(u, bought, change) ==
  /\ Ready(u, "add")
  /\ draft[u].bought + bought <= MaxBought
  /\ draft[u].change + change \in -MaxChange .. MaxChange
  /\ draft' = [draft EXCEPT ![u].bought = @ + bought, ![u].toBuy = @ - bought,
                            ![u].change = @ + change, ![u].minus = draft[u].stock # 0]
  /\ UNCHANGED <<deviceVars, label, bar, top>>

plusBoughtButtonTapped(u) == \E n \in {1, Crate} : Edit(u, n, 0)
plusButtonTapped(u) == \E n \in {1, Crate} : Edit(u, 0, n)
minusOneButtonTapped(u) == draft[u].minus /\ Edit(u, 0, -1)

\* saveButtonTapped: the new total into the copy and into the database.
SaveDrinks(u) ==
  LET h == me[u].house IN
  /\ Ready(u, "add")
  /\ Len(uplink[u]) <= MaxUnsent
  /\ newTotalDrinks(u) \in -MaxDebt .. MaxCount
  /\ draft[u].toBuy >= -MaxDebt
  /\ \/ (h = Null \/ seen[u][h] = NoHouse) /\ Trap(u)
     \/ /\ h # Null /\ seen[u][h] # NoHouse
        /\ Issue(u, <<SetStock(h, newTotalDrinks(u)), SetDrinksToBuy(u, draft[u].toBuy)>>)
        /\ IF online[u] THEN GetAllData(u, Run("added"))
           ELSE /\ seen' = [seen EXCEPT ![u][h].drinks = newTotalDrinks(u)]
                /\ UNCHANGED <<phase, then, asked, known>>
        /\ UNCHANGED <<database, online, screen, me, residents, week, label, bar, draft, top>>

\* "Succesfully Added", which pops the screen.
Added(u) ==
  /\ Loaded(u, "added")
  /\ phase' = [phase EXCEPT ![u] = "alert"]
  /\ UNCHANGED <<database, uplink, online, screen, then, asked, memory, week, label, bar, draft, top>>

-----------------------------------------------------------------------------
(* OverviewDrinksViewController.                                           *)

PushOverview(u) ==
  /\ Ready(u, "drink")
  /\ bar[u].canOpen
  /\ screen' = [screen EXCEPT ![u] = "overview"]
  /\ top' = [top EXCEPT ![u] = "overview"]
  /\ GetAllData(u, Run("overview"))
  /\ UNCHANGED <<database, uplink, online, me, residents, week, label, bar, draft>>

\* getResidentNames finds every resident among the users: none is ever removed.
OverviewOpened(u) ==
  /\ Loaded(u, "overview")
  /\ Rest(u)
  /\ UNCHANGED <<database, online, screen, me, week, label, bar, draft, top>>

\* What if: the stock were removed instead of set to zero.
TrashPuts_Removed(u, h) == <<SetStock(h, Null)>>

\* The two counts of each resident, one resident after the other, then the stock.
TrashPuts(u, h) ==
  LET order == SetToSeq(residents[u])
      counts == 2 * Cardinality(residents[u])
  IN [i \in 1 .. counts + 1 |->
        IF i > counts THEN SetStock(h, 0)
        ELSE IF i % 2 = 1 THEN SetDrinks(order[(i + 1) \div 2], 0)
        ELSE SetDrinksToBuy(order[i \div 2], 0)]

\* trashButtonTapped and "Delete".
TrashDrinks(u) ==
  LET h == me[u].house IN
  /\ Ready(u, "overview")
  /\ Len(uplink[u]) <= MaxUnsent
  /\ \/ h = Null /\ Trap(u)
     \/ /\ h # Null
        /\ Issue(u, TrashPuts(u, h))
        /\ GetAllData(u, Run("trashed"))
        /\ UNCHANGED <<database, online, screen, me, residents, week, label, bar, draft, top>>

\* The handler pops the screen, so DrinkViewController appears and loads.
Trashed(u) == Loaded(u, "trashed") /\ ShowDrinks(u)

-----------------------------------------------------------------------------
(* Navigation.                                                             *)

Okay(u) == phase[u] = "alert" /\ ShowDrinks(u)

Back(u) == (Ready(u, "add") \/ Ready(u, "overview")) /\ ShowDrinks(u)

TabToDrinks(u) ==
  /\ Ready(u, "home")
  /\ \/ top[u] = "drink" /\ ShowDrinks(u)
     \/ /\ top[u] # "drink"
        /\ screen' = [screen EXCEPT ![u] = top[u]]
        /\ UNCHANGED <<database, uplink, online, phase, then, asked, memory, week, label, bar, draft, top>>

TabToHome(u) ==
  /\ \E s \in {"drink", "add", "overview"} : Ready(u, s)
  /\ screen' = [screen EXCEPT ![u] = "home"]
  /\ GetAllData(u, Run("appear"))
  /\ UNCHANGED <<database, uplink, online, me, residents, week, label, bar, draft, top>>

-----------------------------------------------------------------------------
HomeStep(u) ==
  /\ HomePhone(u)
  /\ IF Running(u) /\ ~Running(u)' THEN ForgetTab(u) ELSE UNCHANGED <<bar, draft, top>>

DrinksStep(u) ==
  \/ DrinksShown(u) \/ drinkOneButtonTapped(u) \/ DrinkTaken(u)
  \/ PushAdd(u) \/ AddOpened(u) \/ SaveDrinks(u) \/ Added(u)
  \/ plusBoughtButtonTapped(u) \/ plusButtonTapped(u) \/ minusOneButtonTapped(u)
  \/ PushOverview(u) \/ OverviewOpened(u) \/ TrashDrinks(u) \/ Trashed(u)
  \/ Okay(u) \/ Back(u) \/ TabToDrinks(u) \/ TabToHome(u)

DrinksInit ==
  /\ HomeInit
  /\ bar = [u \in Users |-> NewBar]
  /\ draft = [u \in Users |-> NewDraft]
  /\ top = [u \in Users |-> "drink"]

DrinksNext == \E u \in Users : HomeStep(u) \/ DrinksStep(u)

DrinksSpec == DrinksInit /\ [][DrinksNext]_drinksVars

\* The app used in turns.
SerialDrinksNext == \E u \in Users : Alone(u) /\ (HomeStep(u) \/ DrinksStep(u))
SerialDrinksSpec == DrinksInit /\ [][SerialDrinksNext]_drinksVars

-----------------------------------------------------------------------------
(* What DrinkViewController shows and offers, in turns: once the phone's   *)
(* writes are applied, totalDrinks is the stock of the user's house, after *)
(* a drink, a save, a reset or a visit to another tab; the button works    *)
(* exactly while there is something to drink.                              *)
BarShowsStock ==
  \A u \in Users :
    Ready(u, "drink") /\ uplink[u] = <<>> /\ me[u].house # Null =>
      /\ bar[u].total = houses[me[u].house].drinks
      /\ bar[u].canDrink <=> bar[u].total # 0

(* In turns, the stock falls below zero by a correction only, and only by  *)
(* one of a stock that was not zero when AddDrinks opened (its minus       *)
(* button looks at that number, not at the sum): no drink, purchase or     *)
(* reset takes what is not there.                                          *)
OverdrawnByCorrection ==
  [][\A h \in Houses :
       houses[h] # NoHouse /\ houses[h].drinks >= 0 /\ houses'[h].drinks < 0 =>
         \E u \in Users : /\ screen[u] = "add" /\ me[u].house = h
                         /\ draft[u].stock > 0 /\ draft[u].change < 0]_drinksVars

(* In turns, the only tap of the tab, and of Home next to it, that can     *)
(* trap is DrinkOne, which works for a user without a house; the buttons   *)
(* to the other two screens do not.                                        *)
DrinksTraps ==
  [][\A u \in Users : phase[u] # "crashed" /\ phase'[u] = "crashed" =>
       Loaded(u, "drunk") /\ me[u].house = Null]_drinksVars

(* PROCESS.md:69 "had some problems with roommates drinking at the same    *)
(* time", line 70 "fix: get all data again when drink button is tapped":   *)
(* every drink on a list of drinks to buy came out of the stock (that was  *)
(* there at first, or bought since), whoever drinks at the same time.      *)
NoDrinkLost ==
  (\A u \in Users : uplink[u] = <<>>) =>
    \A h \in Houses : houses[h] # NoHouse =>
      houses[h].drinks
        + MapThenSumSet(LAMBDA u : users[u].drinksToBuy,
                        {u \in Users : users[u].house = h}) <= InitialStock
=============================================================================
