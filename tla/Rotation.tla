------------------------------ MODULE Rotation ------------------------------
(***************************************************************************)
(* setTasks and divideTasks: from a house's sorted tasks to the rows of    *)
(* CurrentUser.tasks, one row per week of the schedule and one more.  Row  *)
(* w, place r is the task of the r-th resident in the w-th week.           *)
(*                                                                         *)
(* The two loops of the code are steps here, so that what they compute is  *)
(* an invariant and not a definition: rows are sequences from 1, the       *)
(* code's weeks count from 0.                                              *)
(***************************************************************************)
EXTENDS Integers, Sequences

CONSTANTS
  Names,   \* the names a task can have
  NoTask,  \* "", the entry for a resident without a task
  Inputs   \* the houses to divide tasks for: their tasks and residents

Injective(s) == \A i, j \in 1 .. Len(s) : s[i] = s[j] => i = j

\* Keys of one node, so no name twice; getHouses traps without a resident.
ASSUME RotationAssumption ==
  /\ NoTask \notin Names
  /\ Inputs \subseteq [tasks: Seq(Names), residents: Nat \ {0}]
  /\ \A i \in Inputs : Injective(i.tasks)

VARIABLES
  house,  \* the tasks and the number of residents of the user's house
  tasks,  \* CurrentUser.tasks
  week,   \* the loop variable of divideTasks
  at      \* where the two functions are: "setTasks", "divideTasks", "done"

rotationVars == <<house, tasks, week, at>>

RotationTypeOK ==
  /\ house \in Inputs
  /\ tasks \in Seq(Seq(Names \cup {NoTask}))
  /\ week \in 0 .. house.residents
  /\ at \in {"setTasks", "divideTasks", "done"}

-----------------------------------------------------------------------------
\* What if: the first task were not appended, or "" or the last instead, or
\* the row turned the other way.
movedTasks_Short(row) == Tail(row)
movedTasks_Emptied(row) == Append(Tail(row), NoTask)
movedTasks_Last(row) == Append(Tail(row), row[Len(row)])
movedTasks_Back(row) == <<row[Len(row)]>> \o SubSeq(row, 1, Len(row) - 1)

movedTasks(row) == Append(Tail(row), Head(row))

\* "set empty tasks if not enough"
AppendEmpty ==
  /\ at = "setTasks"
  /\ Len(tasks[1]) < house.residents
  /\ tasks' = [tasks EXCEPT ![1] = Append(@, NoTask)]
  /\ UNCHANGED <<house, week, at>>

StartDividing ==
  /\ at = "setTasks"
  /\ Len(tasks[1]) >= house.residents
  /\ at' = "divideTasks"
  /\ UNCHANGED <<house, tasks, week>>

\* What if: the loop ran over 0...residents.count.
Divide_OnceMore ==
  /\ at = "divideTasks"
  /\ tasks' = Append(tasks, movedTasks(tasks[week + 1]))
  /\ week' = week + 1
  /\ at' = IF week = house.residents THEN "done" ELSE at
  /\ UNCHANGED house

\* One round of the loop over 0...residents.count - 1.
Divide ==
  /\ at = "divideTasks"
  /\ tasks' = Append(tasks, movedTasks(tasks[week + 1]))
  /\ week' = week + 1
  /\ at' = IF week = house.residents - 1 THEN "done" ELSE at
  /\ UNCHANGED house

RotationInit ==
  /\ house \in Inputs
  /\ tasks = <<house.tasks>>
  /\ week = 0
  /\ at = "setTasks"

RotationNext == AppendEmpty \/ StartDividing \/ Divide
RotationSpec == RotationInit /\ [][RotationNext]_rotationVars

-----------------------------------------------------------------------------
(* Properties.  A schedule shows the rows 1 to residents; Home starts over *)
(* from row 1 when they are used up.                                       *)

Weeks == 1 .. house.residents
Residents == 1 .. house.residents

(* No subscript of the two functions, nor of the screens that index the    *)
(* result by week and resident, is out of range: there are as many rows as *)
(* residents and one more, none shorter than the number of residents.      *)
RowsSuffice ==
  at = "done" => /\ Len(tasks) = house.residents + 1
                 /\ \A w \in 1 .. Len(tasks) : Len(tasks[w]) >= house.residents

(* In one week no two residents have the same task.                        *)
NoTaskShared ==
  at = "done" =>
    \A w \in Weeks : \A r, s \in Residents :
      tasks[w][r] = tasks[w][s] /\ tasks[w][r] # NoTask => r = s

(* REPORT.md:74 "after those weeks, the schedule could start over and      *)
(* everyone has done every task once": with no more tasks than residents,  *)
(* each resident has each task in exactly one week of a schedule.          *)
EveryoneOnce ==
  at = "done" /\ Len(house.tasks) <= house.residents =>
    \A r \in Residents : \A i \in 1 .. Len(house.tasks) :
      \E w \in Weeks : \A v \in Weeks : tasks[v][r] = house.tasks[i] <=> v = w

(* With more tasks than residents, the tasks somebody has in some week are *)
(* exactly the first 2n - 1 of n residents'.                               *)
ReachedTasks ==
  at = "done" =>
    \A i \in 1 .. Len(house.tasks) :
      (\E w \in Weeks, r \in Residents : tasks[w][r] = house.tasks[i])
        <=> i < 2 * house.residents
=============================================================================
