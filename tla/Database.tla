------------------------------ MODULE Database ------------------------------
(***************************************************************************)
(* The Firebase Realtime Database tree of RoomMate and the writes the app  *)
(* issues against it.                                                      *)
(*                                                                         *)
(* The tree has two roots.  users/<uid> holds what LogInViewController     *)
(* registers; houses/<name> what NewHouseViewController creates.  Firebase *)
(* stores no empty node: a map without children is the same as no node, so *)
(* a house is absent exactly when every one of its leaves is, and a write  *)
(* below an absent house brings a house with only that leaf into being.    *)
(*                                                                         *)
(* The module has no state.  A put is a record that names the path written *)
(* and carries the value, and UsersAfter/HousesAfter say what the tree is  *)
(* once the server has applied it.  Names and mail addresses of users are  *)
(* left out: they are written once, at registration, and only displayed.   *)
(***************************************************************************)
EXTENDS Integers, Sequences, FiniteSets

CONSTANTS
  Users,       \* Firebase uids; each user runs the app on one phone
  Houses,      \* the names a house can be given
  Tasks,       \* the keys that can stand below houses/<name>/tasks
  DefaultTask, \* the key "default", which every new house starts with
  BeforeDefault, \* the tasks that sort before "default"
  Passwords,   \* what a creator can type into the password field
  Null         \* a missing child of a node

ASSUME NamesAssumption ==
  /\ Null \notin Houses \cup Passwords \cup Int
  /\ DefaultTask \in Tasks
  /\ BeforeDefault \subseteq Tasks \ {DefaultTask}
  /\ Passwords # {}

UserNode ==
  [house: Houses \cup {Null}, drinks: Int, drinksToBuy: Int, dinner: BOOLEAN]

\* The children of a house; residents and tasks are the key sets of maps.
HouseNode ==
  [password: Passwords \cup {Null}, drinks: Int \cup {Null},
   firstWeek: Int \cup {Null}, residents: SUBSET Users, tasks: SUBSET Tasks]

NoHouse ==
  [password |-> Null, drinks |-> Null, firstWeek |-> Null,
   residents |-> {}, tasks |-> {}]

\* What if: a new house had no default task.
NewHouse_NoTask(u, pw) ==
  [password |-> pw, drinks |-> 0, firstWeek |-> 0,
   residents |-> {u}, tasks |-> {}]

NewHouse(u, pw) ==
  [password |-> pw, drinks |-> 0, firstWeek |-> 0,
   residents |-> {u}, tasks |-> {DefaultTask}]

-----------------------------------------------------------------------------
(* Puts: one constructor per path the app writes.                          *)

SetHome(u, h)        == [path |-> "users/house", user |-> u, house |-> h]
SetDrinks(u, n)      == [path |-> "users/drinks", user |-> u, count |-> n]
SetDrinksToBuy(u, n) == [path |-> "users/drinksToBuy", user |-> u, count |-> n]
SetDinner(u, b)      == [path |-> "users/dinner", user |-> u, flag |-> b]
SetHouse(h, node)    == [path |-> "houses", house |-> h, node |-> node]
SetStock(h, n)       == [path |-> "houses/drinks", house |-> h, count |-> n]
SetFirstWeek(h, n)   == [path |-> "houses/firstWeek", house |-> h, count |-> n]
SetResident(h, u, b) ==
  [path |-> "houses/residents", house |-> h, user |-> u, listed |-> b]
RemoveTasks(h)       == [path |-> "houses/tasks", house |-> h]
AddTask(h, t)        == [path |-> "houses/tasks/task", house |-> h, task |-> t]

Puts ==
  [path: {"users/house"}, user: Users, house: Houses]
    \cup [path: {"users/drinks", "users/drinksToBuy"}, user: Users, count: Int]
    \cup [path: {"users/dinner"}, user: Users, flag: BOOLEAN]
    \cup [path: {"houses"}, house: Houses, node: HouseNode]
    \cup [path: {"houses/drinks", "houses/firstWeek"}, house: Houses, count: Int]
    \cup [path: {"houses/residents"}, house: Houses, user: Users, listed: BOOLEAN]
    \cup [path: {"houses/tasks"}, house: Houses]
    \cup [path: {"houses/tasks/task"}, house: Houses, task: Tasks]

\* What the server makes of users/ when it applies p.
UsersAfter(us, p) ==
  CASE p.path = "users/house"       -> [us EXCEPT ![p.user].house = p.house]
    [] p.path = "users/drinks"      -> [us EXCEPT ![p.user].drinks = p.count]
    [] p.path = "users/drinksToBuy" -> [us EXCEPT ![p.user].drinksToBuy = p.count]
    [] p.path = "users/dinner"      -> [us EXCEPT ![p.user].dinner = p.flag]
    [] OTHER                        -> us

\* What the server makes of houses/ when it applies p.
HousesAfter(hs, p) ==
  CASE p.path = "houses"           -> [hs EXCEPT ![p.house] = p.node]
    [] p.path = "houses/drinks"    -> [hs EXCEPT ![p.house].drinks = p.count]
    [] p.path = "houses/firstWeek" -> [hs EXCEPT ![p.house].firstWeek = p.count]
    [] p.path = "houses/residents" ->
         [hs EXCEPT ![p.house].residents =
                      IF p.listed THEN @ \cup {p.user} ELSE @ \ {p.user}]
    [] p.path = "houses/tasks"      -> [hs EXCEPT ![p.house].tasks = {}]
    [] p.path = "houses/tasks/task" -> [hs EXCEPT ![p.house].tasks = @ \cup {p.task}]
    [] OTHER                        -> hs

After(tree, p) ==
  [users |-> UsersAfter(tree.users, p), houses |-> HousesAfter(tree.houses, p)]

\* The trees the server goes through when it applies the puts of q in order,
\* and the last of them.
Course(tree, q) ==
  LET at[n \in 0 .. Len(q)] == IF n = 0 THEN tree ELSE After(at[n - 1], q[n])
  IN at

Applied(tree, q) == Course(tree, q)[Len(q)]

-----------------------------------------------------------------------------
(* Reading: what getHouses makes of a snapshot.                            *)

\* Every child that getHouses force-unwraps is there.
Complete(node) ==
  /\ node.password # Null
  /\ node.drinks # Null
  /\ node.firstWeek # Null
  /\ node.residents # {}
  /\ node.tasks # {}

\* The loop over the snapshot's houses ends without a trap.
Parsable(hs) == \A h \in Houses : hs[h] # NoHouse => Complete(hs[h])

\* "default" goes only when the sort puts it first.
ParsedTasks(ts) == IF ts \cap BeforeDefault = {} THEN ts \ {DefaultTask} ELSE ts

ParsedHouses(hs) ==
  [h \in Houses |-> [hs[h] EXCEPT !.tasks = ParsedTasks(@)]]

NoHouses == [h \in Houses |-> NoHouse]
=============================================================================
