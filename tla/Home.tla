-------------------------------- MODULE Home --------------------------------
(***************************************************************************)
(* The Home screen: this week's cleaning task and the dinner switch.       *)
(*                                                                         *)
(* Showing the task also keeps the schedule going.  A house's schedule     *)
(* runs from firstWeek for as many weeks as it has residents; when the     *)
(* current week is outside it, whoever looks at Home writes the current    *)
(* week to firstWeek and loads again, and the rest of the code runs when   *)
(* that load completes, on a house that may have changed.                  *)
(***************************************************************************)
EXTENDS Device

CONSTANT Diners  \* the users who touch the dinner switch in a run

ASSUME DinersAssumption == Diners \subseteq Users

VARIABLE label   \* per phone, the house whose task the label shows, or Null

homeVars == <<deviceVars, label>>

LabelTypeOK == label \in [Users -> Houses \cup {Null}]

\* The row of CurrentUser.tasks for the current week; setTasks and
\* divideTasks make rows 0 to the number of residents.
weekIndex(node) == getCurrentWeek - node.firstWeek
InRows(u, node) == weekIndex(node) \in 0 .. Cardinality(residents[u])

-----------------------------------------------------------------------------
\* showCurrentTask: without tasks the labels stay as they are.
showCurrentTask(u, h) ==
  LET node == seen[u][h] IN
  IF node.tasks = {}
  THEN Rest(u) /\ UNCHANGED <<screen, me, label>>
  ELSE IF u \in node.residents /\ InRows(u, node)
  THEN /\ label' = [label EXCEPT ![u] = h]
       /\ Rest(u)
       /\ UNCHANGED <<screen, me>>
  ELSE Crash(u) /\ label' = [label EXCEPT ![u] = Null]

\* Restart the schedule of house h this week and load again.
RestartSchedule(u, h, next) ==
  /\ Issue(u, <<SetFirstWeek(h, getCurrentWeek)>>)
  /\ GetAllData(u, Run(next))
  /\ UNCHANGED <<screen, me, residents, label>>

\* What if: the last week of the schedule were off by one.
PastSchedule_OneLater(u, node) ==
  getCurrentWeek > node.firstWeek + Cardinality(residents[u])

PastSchedule(u, node) ==
  getCurrentWeek > node.firstWeek + (Cardinality(residents[u]) - 1)

checkIfWeekInSchedule(u, h) ==
  IF PastSchedule(u, seen[u][h]) THEN RestartSchedule(u, h, "show")
  ELSE showCurrentTask(u, h)

\* What if: the end of the year were not looked for.
checkForEndOfYear_Dropped(u, h) == checkIfWeekInSchedule(u, h)

checkForEndOfYear(u, h) ==
  IF getCurrentWeek < seen[u][h].firstWeek THEN RestartSchedule(u, h, "checkWeek")
  ELSE checkIfWeekInSchedule(u, h)

-----------------------------------------------------------------------------
(* The completion handlers of Home's loads.                                *)

\* viewWillAppear and refresh: updateUI, that is setCurrentTask.
HomeAppeared(u) ==
  LET h == me[u].house IN
  /\ Loaded(u, "appear")
  /\ \/ /\ h = Null
        /\ label' = [label EXCEPT ![u] = Null]
        /\ Rest(u)
        /\ UNCHANGED <<screen, me>>
     \/ /\ h # Null
        /\ seen[u][h] = NoHouse
        /\ Rest(u)
        /\ UNCHANGED <<screen, me, label>>
     \/ /\ h # Null
        /\ seen[u][h] # NoHouse
        /\ checkForEndOfYear(u, h)
  /\ UNCHANGED <<database, online, week>>

\* The handlers that force-unwrap the user's house and the node they reloaded.
HomeReloaded(u, step, rest(_, _)) ==
  LET h == me[u].house IN
  /\ Loaded(u, step)
  /\ IF h = Null \/ seen[u][h] = NoHouse
     THEN Crash(u) /\ label' = [label EXCEPT ![u] = Null]
     ELSE rest(u, h)
  /\ UNCHANGED <<database, online, week>>

HomeWeekSet(u) == HomeReloaded(u, "checkWeek", checkIfWeekInSchedule)
HomeScheduleRestarted(u) == HomeReloaded(u, "show", showCurrentTask)

-----------------------------------------------------------------------------
(* The taps.                                                               *)

Refresh(u) ==
  /\ Ready(u, "home")
  /\ GetAllData(u, Run("appear"))
  /\ UNCHANGED <<database, uplink, online, screen, me, residents, week, label>>

\* dinnerSwitchChanged: the write is issued, then CurrentUser.users[id]! is
\* unwrapped, while the write may be on its way; CurrentUser.user.dinner stays
\* as loaded.  (Bound: not behind writes that are still unsent.)
DinnerSwitch(u) ==
  /\ u \in Diners
  /\ Ready(u, "home")
  /\ uplink[u] = <<>>
  /\ \E on \in BOOLEAN :
       IF known[u]
       THEN /\ Issue(u, <<SetDinner(u, on)>>)
            /\ UNCHANGED <<database, phase, screen, then, asked, memory, label>>
       ELSE /\ LastWrite(u, SetDinner(u, on))
            /\ Crash(u)
            /\ label' = [label EXCEPT ![u] = Null]
  /\ UNCHANGED <<online, week>>

-----------------------------------------------------------------------------
(* What is common to every screen, with the label.                         *)

LabelLost(u) == label' = [label EXCEPT ![u] = Null]

\* One phone's steps that need nobody's tap.
Background(u) ==
  \/ (ApplyPut(u) \/ ServeUsers(u)) /\ UNCHANGED label
  \/ /\ ServeHouses(u)
     /\ IF phase'[u] = "crashed" THEN LabelLost(u) ELSE UNCHANGED label

HomeHandlers(u) == HomeAppeared(u) \/ HomeWeekSet(u) \/ HomeScheduleRestarted(u)

HomeTaps(u) == Refresh(u) \/ DinnerSwitch(u)

Lifecycle(u) ==
  \/ (Launch(u) \/ LoseConnection(u) \/ RegainConnection(u)) /\ UNCHANGED label
  \/ Quit(u) /\ LabelLost(u)

HomeInit == DeviceInit /\ label = [u \in Users |-> Null]

HomePhone(u) == Background(u) \/ HomeHandlers(u) \/ HomeTaps(u) \/ Lifecycle(u)
HomeCalendar == NewWeek /\ UNCHANGED label

\* A week never begins in the middle of a load or while a write is on its way.
Quiet == \A u \in Users : phase[u] # "loading" /\ uplink[u] = <<>>

\* No phone but u's runs the app or has writes on their way.
Alone(u) == \A v \in Users \ {u} : ~Running(v) /\ uplink[v] = <<>>

-----------------------------------------------------------------------------
(* A property of the screen.                                               *)

(* When Home has finished showing a task, the schedule it shows it from    *)
(* covers the current week: it began this year, no more weeks ago than the *)
(* house has residents, however two phones restarted it at the same time.  *)
ScheduleCoversWeek ==
  [][\A u \in Users :
       phase[u] = "loading" /\ phase'[u] = "ready" /\ label'[u] # Null =>
         weekIndex(seen[u][label'[u]]) \in 0 .. Cardinality(residents[u]) - 1]_homeVars
=============================================================================
