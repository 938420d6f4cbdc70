----------------------------- MODULE Residency -----------------------------
(***************************************************************************)
(* Moving house: the Profile screen and the two screens it pushes,         *)
(* PickHouse (join an existing house) and NewHouse (create one), next to   *)
(* the Home tab.                                                           *)
(*                                                                         *)
(* Who lives where is stored twice, at users/<uid>/house and at            *)
(* houses/<name>/residents/<uid>, and a move changes both, and the old     *)
(* house's residents, by writes that the server applies one at a time.     *)
(* All decisions (does the old house become empty, is the name taken, is   *)
(* the password right) are made on CurrentUser.houses, the copy of the     *)
(* last load.                                                              *)
(***************************************************************************)
EXTENDS Home

VARIABLES
  pushed,  \* per phone, the top of the Profile tab's navigation stack
  picker   \* per phone, PickHouse's pickerData; Null before setPickerData

ASSUME PickerAssumption == \A rows \in SUBSET Houses : rows # Null

vars == <<homeVars, pushed, picker>>

TypeOK ==
  /\ DeviceTypeOK
  /\ LabelTypeOK
  /\ pushed \in [Users -> {"profile", "pick", "new"}]
  /\ picker \in [Users -> (SUBSET Houses) \cup {Null}]

-----------------------------------------------------------------------------
(* The writes of a move.                                                   *)

\* What if: nothing were left, the old home not looked at, or the last
\* resident not noticed.
LeavePuts_Nothing(u) == <<>>
LeavePuts_AnyHome(u) == <<SetHouse(me[u].house, NoHouse)>>
LeavePuts_NeverLast(u) ==
  IF me[u].house = Null THEN <<>> ELSE <<SetResident(me[u].house, u, FALSE)>>

\* "check for residents left, if none -> remove house"
LeavePuts(u) ==
  LET oldHome == me[u].house IN
  IF oldHome = Null THEN <<>>
  ELSE IF Cardinality(seen[u][oldHome].residents) > 1
  THEN <<SetResident(oldHome, u, FALSE)>>
  ELSE <<SetHouse(oldHome, NoHouse)>>

ClearDrinks(u) == <<SetDrinks(u, 0), SetDrinksToBuy(u, 0)>>

\* What if: users/<uid>/house were not written, or written first.
JoinPuts_NoHome(u, h) ==
  LeavePuts(u) \o <<SetResident(h, u, TRUE)>> \o ClearDrinks(u)
JoinPuts_HomeFirst(u, h) ==
  <<SetHome(u, h)>> \o LeavePuts(u) \o <<SetResident(h, u, TRUE)>> \o ClearDrinks(u)

JoinPuts(u, h) ==
  LeavePuts(u) \o <<SetHome(u, h), SetResident(h, u, TRUE)>> \o ClearDrinks(u)

CreatePuts(u, h, pw) ==
  LeavePuts(u) \o <<SetHouse(h, NewHouse(u, pw)), SetHome(u, h)>> \o ClearDrinks(u)

\* (CurrentUser.houses[oldHome]?.residents.count)! has a value.
CanLeave(u) == me[u].house # Null => seen[u][me[u].house] # NoHouse

\* What if: the alert did not wait for the load.
Move_AlertAtOnce(u, puts, step, h) ==
  /\ Len(uplink[u]) <= MaxUnsent
  /\ CanLeave(u)
  /\ Issue(u, puts)
  /\ phase' = [phase EXCEPT ![u] = "alert"]
  /\ then' = [then EXCEPT ![u] = [step |-> step, house |-> h]]
  /\ UNCHANGED <<database, online, week, screen, asked, memory, label, pushed, picker>>

\* Issue the writes of a move to h and load, or trap before the first one.
Move(u, puts, step, h) ==
  /\ Len(uplink[u]) <= MaxUnsent
  /\ IF CanLeave(u)
     THEN /\ Issue(u, puts)
          /\ GetAllData(u, [step |-> step, house |-> h])
          /\ UNCHANGED <<screen, me, residents, label, pushed, picker>>
     ELSE /\ Crash(u)
          /\ LabelLost(u)
          /\ pushed' = [pushed EXCEPT ![u] = "profile"]
          /\ picker' = [picker EXCEPT ![u] = Null]
  /\ UNCHANGED <<database, online, week>>

-----------------------------------------------------------------------------
(* PickHouse.                                                              *)

\* viewDidLoad's completion handler: setPickerData.
PickerLoaded(u) ==
  /\ Loaded(u, "picker")
  /\ picker' = [picker EXCEPT ![u] =
                  {h \in Houses : seen[u][h] # NoHouse} \ {me[u].house}]
  /\ Rest(u)
  /\ UNCHANGED <<database, online, screen, me, week, label, pushed>>

\* pickerData[0] of a picker that has no data yet is out of range.
SaveWithoutPicker(u) ==
  /\ Crash(u)
  /\ LabelLost(u)
  /\ pushed' = [pushed EXCEPT ![u] = "profile"]
  /\ UNCHANGED <<database, online, week, picker>>

\* saveButtonTapped with the row of h selected and pw in the text field.
JoinHouse(u, h, pw) ==
  /\ Ready(u, "pick")
  /\ IF picker[u] = Null THEN SaveWithoutPicker(u)
     ELSE /\ h \in picker[u]
          /\ pw = seen[u][h].password
          /\ Move(u, JoinPuts(u, h), "joined", h)

-----------------------------------------------------------------------------
(* NewHouse.                                                               *)

\* What if: the name were not looked up.
CreateHouse_AnyName(u, h, pw) ==
  /\ Ready(u, "new")
  /\ Move(u, CreatePuts(u, h, pw), "created", h)

\* saveButtonTapped with the fields filled in and the name not in the copy.
CreateHouse(u, h, pw) ==
  /\ Ready(u, "new")
  /\ seen[u][h] = NoHouse
  /\ Move(u, CreatePuts(u, h, pw), "created", h)

-----------------------------------------------------------------------------
(* The end of a save, and Profile's own load.                              *)

\* "You just joined ..." or "Succesfully Created ...", over the same screen.
Saved(u) ==
  /\ Loaded(u, "joined") \/ Loaded(u, "created")
  /\ phase' = [phase EXCEPT ![u] = "alert"]
  /\ UNCHANGED <<database, uplink, online, screen, then, asked, memory, week, label, pushed, picker>>

ProfileLoaded(u) ==
  /\ Loaded(u, "profile")
  /\ Rest(u)
  /\ UNCHANGED <<database, online, screen, me, week, label, pushed, picker>>

-----------------------------------------------------------------------------
(* Navigation.                                                             *)

\* Put a screen of the Profile tab on top; Profile itself loads as it appears.
ShowProfile(u) ==
  /\ screen' = [screen EXCEPT ![u] = "profile"]
  /\ pushed' = [pushed EXCEPT ![u] = "profile"]
  /\ GetAllData(u, Run("profile"))
  /\ UNCHANGED <<database, uplink, online, me, residents, week, label, picker>>

\* What if: the alert did not pop the screen.
Okay_NotPopped(u) ==
  /\ phase[u] = "alert"
  /\ phase' = [phase EXCEPT ![u] = "ready"]
  /\ then' = [then EXCEPT ![u] = Nothing]
  /\ UNCHANGED <<database, uplink, online, screen, asked, memory, week, label, pushed, picker>>

Okay(u) == phase[u] = "alert" /\ ShowProfile(u)

Back(u) == (Ready(u, "pick") \/ Ready(u, "new")) /\ ShowProfile(u)

TabToProfile(u) ==
  /\ Ready(u, "home")
  /\ \/ pushed[u] = "profile" /\ ShowProfile(u)
     \/ /\ pushed[u] # "profile"
        /\ screen' = [screen EXCEPT ![u] = pushed[u]]
        /\ UNCHANGED <<database, uplink, online, phase, then, asked, memory, week, label, pushed, picker>>

\* What if: Home were shown again without a load.
TabToHome_NoLoad(u) ==
  /\ \E s \in {"profile", "pick", "new"} : Ready(u, s)
  /\ screen' = [screen EXCEPT ![u] = "home"]
  /\ UNCHANGED <<database, uplink, online, phase, then, asked, memory, week, label, pushed, picker>>

TabToHome(u) ==
  /\ \E s \in {"profile", "pick", "new"} : Ready(u, s)
  /\ screen' = [screen EXCEPT ![u] = "home"]
  /\ GetAllData(u, Run("appear"))
  /\ UNCHANGED <<database, uplink, online, me, residents, week, label, pushed, picker>>

PushPick(u) ==
  /\ Ready(u, "profile")
  /\ screen' = [screen EXCEPT ![u] = "pick"]
  /\ pushed' = [pushed EXCEPT ![u] = "pick"]
  /\ picker' = [picker EXCEPT ![u] = Null]
  /\ GetAllData(u, Run("picker"))
  /\ UNCHANGED <<database, uplink, online, me, residents, week, label>>

PushNew(u) ==
  /\ Ready(u, "profile")
  /\ screen' = [screen EXCEPT ![u] = "new"]
  /\ pushed' = [pushed EXCEPT ![u] = "new"]
  /\ UNCHANGED <<database, uplink, online, phase, then, asked, memory, week, label, picker>>

-----------------------------------------------------------------------------
\* A process that ends takes the Profile tab's stack with it.
ForgetStack(u) ==
  IF Running(u) /\ ~Running(u)'
  THEN /\ pushed' = [pushed EXCEPT ![u] = "profile"]
       /\ picker' = [picker EXCEPT ![u] = Null]
  ELSE UNCHANGED <<pushed, picker>>

Serve(u) == Background(u) /\ ForgetStack(u)
Handle(u) ==
  \/ HomeHandlers(u) /\ ForgetStack(u)
  \/ PickerLoaded(u) \/ ProfileLoaded(u) \/ Saved(u)
Tap(u) ==
  \/ (HomeTaps(u) \/ Lifecycle(u)) /\ ForgetStack(u)
  \/ \E h \in Houses, pw \in Passwords : JoinHouse(u, h, pw) \/ CreateHouse(u, h, pw)
  \/ Okay(u) \/ Back(u) \/ TabToProfile(u) \/ TabToHome(u) \/ PushPick(u) \/ PushNew(u)

PhoneStep(u) == Serve(u) \/ Handle(u) \/ Tap(u)
Calendar == NewWeek /\ UNCHANGED <<label, pushed, picker>>

Init ==
  /\ HomeInit
  /\ pushed = [u \in Users |-> "profile"]
  /\ picker = [u \in Users |-> Null]

Next == Calendar \/ \E u \in Users : PhoneStep(u)

\* The connection delivers and the main queue runs; taps are up to the users.
Fairness == \A u \in Users : WF_vars(Serve(u)) /\ WF_vars(Handle(u))

Spec == Init /\ [][Next]_vars /\ Fairness

-----------------------------------------------------------------------------
(* Use in turns: a phone steps only while it is the only one in use, and    *)
(* the week does not change in the middle of a load.                       *)

SerialNext ==
  \/ Quiet /\ Calendar
  \/ \E u \in Users : Alone(u) /\ PhoneStep(u)
SerialSpec == Init /\ [][SerialNext]_vars /\ Fairness

-----------------------------------------------------------------------------
(* Properties of any use, for the users whose writes are never lost: their *)
(* app is not killed with writes unsent and does not lose its connection.  *)

Reliable == Users \ (Killable \cup Offline)
LivesIn(u) == {h \in Houses : u \in houses[h].residents}

(* However moves, removals and creations of several phones interleave, no  *)
(* house lists a user who moved on to another: the removal from the old    *)
(* house is applied before the entry in the new one.                       *)
AtMostOneHouse ==
  \A u \in Reliable : \A g, h \in LivesIn(u) : g = h

(* The two records of who lives where agree in this direction: once a      *)
(* user's writes are applied, a house that lists the user is the one at    *)
(* users/<uid>/house.  (The other direction is what races break.)          *)
ListedAtHome ==
  \A u \in Reliable : uplink[u] = <<>> => LivesIn(u) \subseteq {users[u].house}

(* A screen that takes taps decides on the home the server has: no move is *)
(* computed from a home the user already left.                             *)
HomeCacheFresh ==
  \A u \in Reliable : phase[u] \in {"ready", "alert"} => me[u].house = users[u].house

(* "You just joined h" shows only when h is the home the server has, or    *)
(* will have once the phone's writes arrive; on a connection that lasts,   *)
(* all of the move's writes have.  (A phone that reconnects is answered    *)
(* before it sends them, so to it the alert announces more than is true.)  *)
SuccessMeansMoved ==
  \A u \in Users : phase[u] = "alert" =>
    /\ Answer(u).users[u].house = then[u].house
    /\ u \notin Offline => uplink[u] = <<>>

(* A house disappears only by the hand of a user registered to it: nobody  *)
(* removes a house on the strength of a home already given up.             *)
RemovedByItsOwn ==
  [][\A h \in Houses, u \in Reliable :
       /\ houses[h] # NoHouse /\ houses'[h] = NoHouse
       /\ Len(uplink'[u]) < Len(uplink[u])
       => users[u].house = h]_vars

(* A load always ends: in a screen that takes taps, an alert, a crash or   *)
(* the freeze on an empty list of houses, whatever the other phones do.    *)
LoadsEnd == \A u \in Users : phase[u] = "loading" ~> phase[u] # "loading"

-----------------------------------------------------------------------------
(* Properties of use in turns.                                             *)

AtRest == \A u \in Users : uplink[u] = <<>>

(* Used in turns, the two records agree in both directions and no house is *)
(* left without residents whenever all writes are applied.                 *)
RecordsAgree ==
  AtRest => /\ \A u \in Users, h \in Houses :
                 u \in houses[h].residents <=> users[u].house = h
            /\ \A h \in Houses : houses[h] # NoHouse => houses[h].residents # {}

(* Used in turns, no house ever misses a child that getHouses unwraps, not *)
(* even between the writes of a move.                                      *)
NoPartialHouse == Parsable(houses)

(* Used in turns, no force unwrap fails and the interface never freezes.   *)
NeverStuck == \A u \in Users : phase[u] \notin {"crashed", "frozen"}

(* Used in turns, creating a house never replaces one, so nobody's house   *)
(* changes its password (NewHouseViewController.swift:36).  Two phones     *)
(* that create the same name at once break it: the copy is stale.          *)
HouseNotReplaced ==
  [][\A h \in Houses :
       houses[h] # NoHouse /\ houses'[h] # NoHouse
         => houses'[h].password = houses[h].password]_vars

(* Used in turns and connected, the picker never offers the house the user *)
(* lives in, though its rows are computed once and the screen stays while  *)
(* other tabs load (PickHouseViewController.swift:37).  A save without a   *)
(* connection breaks it.                                                   *)
OwnHouseNotShown ==
  \A u \in Users : Ready(u, "pick") /\ picker[u] # Null => me[u].house \notin picker[u]

(* Used in turns, Home shows a task of the house the user lives in, after  *)
(* any moves, unless that house has no tasks: then the label stays as it   *)
(* was (HomeViewController.swift:48 promises to hide it).                  *)
LabelIsOwn ==
  \A u \in Users :
    Ready(u, "home") /\ label[u] # Null =>
      label[u] = me[u].house \/ seen[u][me[u].house].tasks = {}

-----------------------------------------------------------------------------
(* What a comment of the code says of every use, and what an interleaving  *)
(* of two phones breaks.                                                   *)

(* NewHouseViewController.swift:48 "check for residents left, if none ->   *)
(* remove house": once all writes are applied no house is without resident. *)
EmptyHouseGoes ==
  AtRest => \A h \in Houses : houses[h] # NoHouse => houses[h].residents # {}
=============================================================================
