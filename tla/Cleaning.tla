------------------------------ MODULE Cleaning ------------------------------
(***************************************************************************)
(* The Clean tab next to the Home tab: the table of who does what in which *)
(* week of the schedule, and the screen it pushes, NewSchedule.            *)
(*                                                                         *)
(* Saving a new schedule removes the house's tasks, writes the new ones    *)
(* one by one and then the week.  Clean makes a segment per week of the    *)
(* schedule and selects the current one, but unlike Home it does not       *)
(* restart a schedule that is over.  Nobody moves house here.              *)
(***************************************************************************)
EXTENDS Home
Seqs == INSTANCE SequencesExt

CONSTANTS
  Planners,    \* the users who tap segments and make schedules in a run
  LastSegment, \* 52, the last week that gets a segment
  MaxDraft     \* bound: the most tasks entered before a save

ASSUME CleaningAssumption ==
  /\ IsFiniteSet(Users)
  /\ Planners \subseteq Users /\ LastSegment \in Nat /\ MaxDraft \in Nat

VARIABLES
  table,     \* per phone, CleanViewController: rows, segments and selected one
  canCreate, \* per phone, createScheduleButton.isEnabled
  draft,     \* per phone, NewScheduleViewController.tasks
  top        \* per phone, the top of the Clean tab's navigation stack

cleaningVars == <<homeVars, table, canCreate, draft, top>>

\* The storyboard's segmented control has five segments, the first selected.
NewTable == [rows |-> 0, segments |-> 5, selected |-> 0]

CleaningTypeOK ==
  /\ DeviceTypeOK
  /\ LabelTypeOK
  /\ table \in [Users -> [rows: 0 .. Cardinality(Users), segments: Nat, selected: Nat]]
  /\ \A u \in Users : table[u].selected < table[u].segments
  /\ canCreate \in [Users -> BOOLEAN]
  /\ draft \in [Users -> Seq(Tasks)]
  /\ top \in [Users -> {"clean", "schedule"}]

\* A process that ends takes the tab's view controllers with it.
ForgetTab(u) ==
  /\ table' = [table EXCEPT ![u] = NewTable]
  /\ canCreate' = [canCreate EXCEPT ![u] = TRUE]
  /\ draft' = [draft EXCEPT ![u] = <<>>]
  /\ top' = [top EXCEPT ![u] = "clean"]

Trap(u) ==
  /\ Crash(u)
  /\ LabelLost(u)
  /\ ForgetTab(u)
  /\ UNCHANGED <<database, online, week>>

-----------------------------------------------------------------------------
(* CleanViewController.                                                    *)

\* What if: the table were not emptied before the load.
CleanAppears_Kept(u) ==
  /\ screen' = [screen EXCEPT ![u] = "clean"]
  /\ top' = [top EXCEPT ![u] = "clean"]
  /\ draft' = [draft EXCEPT ![u] = <<>>]
  /\ GetAllData(u, Run("clean"))
  /\ UNCHANGED <<database, uplink, online, me, residents, week, label, table, canCreate>>

\* viewWillAppear: "clean table view first"; NewSchedule, if it was on top, is gone.
CleanAppears(u) ==
  /\ screen' = [screen EXCEPT ![u] = "clean"]
  /\ top' = [top EXCEPT ![u] = "clean"]
  /\ draft' = [draft EXCEPT ![u] = <<>>]
  /\ table' = [table EXCEPT ![u].rows = 0]
  /\ GetAllData(u, Run("clean"))
  /\ UNCHANGED <<database, uplink, online, me, residents, week, label, canCreate>>

\* The weeks of the schedule that get a segment, counted from firstWeek.
Segments(u, node) ==
  {w \in 0 .. Cardinality(residents[u]) - 1 : node.firstWeek + w <= LastSegment}

\* getResidentNames and setSegmentControl.  An index that is no segment
\* selects none, and the first cell's subscript -1 is out of range.
CleanFilled(u, h) ==
  LET node == seen[u][h] IN
  IF node # NoHouse /\ residents[u] # {} /\ weekIndex(node) \in Segments(u, node)
  THEN /\ table' = [table EXCEPT ![u] =
                      [rows |-> @.rows + Cardinality(residents[u]),
                       segments |-> Cardinality(Segments(u, node)),
                       selected |-> weekIndex(node)]]
       /\ canCreate' = [canCreate EXCEPT ![u] = TRUE]
       /\ Rest(u)
       /\ UNCHANGED <<database, online, screen, me, week, label, draft, top>>
  ELSE Trap(u)

\* updateUI.
CleanShown(u) ==
  /\ Loaded(u, "clean")
  /\ \/ me[u].house # Null /\ CleanFilled(u, me[u].house)
     \/ /\ me[u].house = Null
        /\ canCreate' = [canCreate EXCEPT ![u] = FALSE]
        /\ Rest(u)
        /\ UNCHANGED <<database, online, screen, me, week, label, table, draft, top>>

SegmentTapped(u) ==
  /\ u \in Planners
  /\ Ready(u, "clean")
  /\ \E s \in 0 .. table[u].segments - 1 :
       table' = [table EXCEPT ![u].selected = s]
  /\ UNCHANGED <<homeVars, canCreate, draft, top>>

-----------------------------------------------------------------------------
(* NewScheduleViewController.                                              *)

PushSchedule(u) ==
  /\ u \in Planners
  /\ Ready(u, "clean")
  /\ canCreate[u]
  /\ screen' = [screen EXCEPT ![u] = "schedule"]
  /\ top' = [top EXCEPT ![u] = "schedule"]
  /\ draft' = [draft EXCEPT ![u] = <<>>]
  /\ UNCHANGED <<database, uplink, online, phase, then, asked, memory, week, label, table, canCreate>>

plusButtonTapped(u) ==
  /\ Ready(u, "schedule")
  /\ Len(draft[u]) < MaxDraft
  /\ \E t \in Tasks : draft' = [draft EXCEPT ![u] = Append(@, t)]
  /\ UNCHANGED <<homeVars, table, canCreate, top>>

DeleteTask(u) ==
  /\ Ready(u, "schedule")
  /\ \E i \in 1 .. Len(draft[u]) :
       draft' = [draft EXCEPT ![u] = Seqs!RemoveAt(@, i)]
  /\ UNCHANGED <<homeVars, table, canCreate, top>>

AddTasks(h, tasks) == [i \in 1 .. Len(tasks) |-> AddTask(h, tasks[i])]

\* What if: the new tasks were written before the old ones are removed, or
\* the week were not.
SchedulePuts_RemovedLast(h, tasks) ==
  AddTasks(h, tasks) \o <<RemoveTasks(h), SetFirstWeek(h, getCurrentWeek)>>
SchedulePuts_NoWeek(h, tasks) == <<RemoveTasks(h)>> \o AddTasks(h, tasks)

\* "empty old schedule", "set new tasks", "set creation date as week of the year"
SchedulePuts(h, tasks) ==
  <<RemoveTasks(h)>> \o AddTasks(h, tasks) \o <<SetFirstWeek(h, getCurrentWeek)>>

\* saveButtonTapped; without tasks it returns.
SaveSchedule(u) ==
  /\ Ready(u, "schedule")
  /\ draft[u] # <<>>
  /\ Len(uplink[u]) <= MaxUnsent
  /\ \/ me[u].house = Null /\ Trap(u)
     \/ /\ me[u].house # Null
        /\ Issue(u, SchedulePuts(me[u].house, draft[u]))
        /\ GetAllData(u, Run("scheduled"))
        /\ UNCHANGED <<database, online, screen, me, residents, week, label, table, canCreate, draft, top>>

\* "Tasks Set!", which pops the screen.
Scheduled(u) ==
  /\ Loaded(u, "scheduled")
  /\ phase' = [phase EXCEPT ![u] = "alert"]
  /\ UNCHANGED <<database, uplink, online, screen, then, asked, memory, week, label, table, canCreate, draft, top>>

-----------------------------------------------------------------------------
(* Navigation.                                                             *)

Okay(u) == phase[u] = "alert" /\ CleanAppears(u)

Back(u) == Ready(u, "schedule") /\ CleanAppears(u)

TabToClean(u) ==
  /\ Ready(u, "home")
  /\ \/ top[u] = "clean" /\ CleanAppears(u)
     \/ /\ top[u] = "schedule"
        /\ screen' = [screen EXCEPT ![u] = "schedule"]
        /\ UNCHANGED <<database, uplink, online, phase, then, asked, memory, week, label, table, canCreate, draft, top>>

TabToHome(u) ==
  /\ Ready(u, "clean") \/ Ready(u, "schedule")
  /\ screen' = [screen EXCEPT ![u] = "home"]
  /\ GetAllData(u, Run("appear"))
  /\ UNCHANGED <<database, uplink, online, me, residents, week, label, table, canCreate, draft, top>>

-----------------------------------------------------------------------------
WithTab(u, step) ==
  /\ step
  /\ IF Running(u) /\ ~Running(u)' THEN ForgetTab(u) ELSE UNCHANGED <<table, canCreate, draft, top>>

Serve(u) == WithTab(u, Background(u))
Handle(u) == WithTab(u, HomeHandlers(u)) \/ CleanShown(u) \/ Scheduled(u)
Tap(u) ==
  \/ WithTab(u, HomeTaps(u) \/ Lifecycle(u))
  \/ SegmentTapped(u) \/ PushSchedule(u) \/ plusButtonTapped(u) \/ DeleteTask(u)
  \/ SaveSchedule(u) \/ Okay(u) \/ Back(u) \/ TabToClean(u) \/ TabToHome(u)

CleaningInit ==
  /\ HomeInit
  /\ table = [u \in Users |-> NewTable]
  /\ canCreate = [u \in Users |-> TRUE]
  /\ draft = [u \in Users |-> <<>>]
  /\ top = [u \in Users |-> "clean"]

Calendar == Quiet /\ HomeCalendar /\ UNCHANGED <<table, canCreate, draft, top>>

CleaningNext == Calendar \/ \E u \in Users : Serve(u) \/ Handle(u) \/ Tap(u)

CleaningSpec == CleaningInit /\ [][CleaningNext]_cleaningVars

-----------------------------------------------------------------------------
(* Properties.                                                             *)

\* Another phone is between removing the tasks of a house and adding its own.
HalfSaved(u) ==
  \E v \in Users \ {u}, h \in Houses :
    /\ houses[h].tasks = {}
    /\ uplink[v] # <<>> /\ Head(uplink[v]).path = "houses/tasks/task"

\* The loaded schedule has no segment for the current week.
NoSegment(u) ==
  weekIndex(seen[u][me[u].house]) \notin Segments(u, seen[u][me[u].house])

(* The only ways for the two tabs to trap: to read a house whose tasks     *)
(* another phone has just removed and not yet replaced, or to open Clean   *)
(* when the loaded schedule has no segment for the current week.  Not a    *)
(* row of Home or of the table out of range, whatever two phones restart   *)
(* or save at the same time, and no save by a user without a house.        *)
TrapCauses ==
  [][\A u \in Users : phase[u] # "crashed" /\ phase'[u] = "crashed" =>
       HalfSaved(u) \/ (Loaded(u, "clean") /\ NoSegment(u))]_cleaningVars

(* However saves and restarts of two phones interleave, no house is left   *)
(* without tasks, or without another child that getHouses unwraps, once    *)
(* all writes are applied: the trap of a half saved schedule passes.       *)
SchedulesSurvive ==
  (\A u \in Users : uplink[u] = <<>>) => Parsable(houses)

(* When "Tasks Set!" appears, the saved schedule begins with the week of    *)
(* the save: NewScheduleViewController.swift:43 "set creation date as week *)
(* of the year", also when a flatmate restarts the old schedule meanwhile. *)
NewScheduleStarts ==
  [][\A u \in Users : Scheduled(u) =>
       houses[me[u].house].firstWeek = getCurrentWeek]_cleaningVars

(* CleanViewController.swift:77 "make current week selected when view      *)
(* appears": when Clean has loaded the user's house, the selected segment  *)
(* is the current week's.                                                  *)
CurrentWeekSelected ==
  [][\A u \in Users : Loaded(u, "clean") /\ me[u].house # Null /\ ~Loaded(u, "clean")' =>
       phase'[u] = "ready" /\ table'[u].selected = weekIndex(seen[u][me[u].house])]_cleaningVars
=============================================================================
