--------------------------- MODULE RotationProofs ---------------------------
(***************************************************************************)
(* What setTasks and divideTasks compute, for any number of residents and  *)
(* any list of tasks.                                                      *)
(*                                                                         *)
(* The inductive invariant says of every row made so far which task of the *)
(* first row stands where (TaskAt): w rows down, everything has moved w    *)
(* places up and what fell off the start came back at the end.  A schedule *)
(* has no more rows than a row has places, so one wrap is all there is and *)
(* the argument needs no division.                                         *)
(***************************************************************************)
EXTENDS Rotation, TLAPS

Width == Len(tasks[1])

\* Place, in the first row, of what stands at place r, w rows below it.
TaskAt(w, r, m) == IF r + w <= m THEN r + w ELSE r + w - m

\* The first row: the house's tasks, then "".
FirstRow ==
  /\ tasks[1] \in Seq(Names \cup {NoTask})
  /\ Len(tasks[1]) >= Len(house.tasks)
  /\ Len(tasks[1]) <= Len(house.tasks) \/ Len(tasks[1]) <= house.residents
  /\ \A i \in 1 .. Len(tasks[1]) :
       tasks[1][i] = IF i <= Len(house.tasks) THEN house.tasks[i] ELSE NoTask

Turned(w) ==
  /\ tasks[w] \in Seq(Names \cup {NoTask})
  /\ Len(tasks[w]) = Width
  /\ \A r \in 1 .. Width : tasks[w][r] = tasks[1][TaskAt(w - 1, r, Width)]

Dividing ==
  /\ tasks \in Seq(Seq(Names \cup {NoTask}))
  /\ Len(tasks) = week + 1
  /\ FirstRow
  /\ at = "setTasks" => week = 0
  /\ at # "setTasks" => Width >= house.residents
  /\ at = "divideTasks" => week < house.residents
  /\ at = "done" => week = house.residents
  /\ \A w \in 1 .. week + 1 : Turned(w)

RotationInv ==
  /\ house \in Inputs
  /\ week \in Nat
  /\ at \in {"setTasks", "divideTasks", "done"}
  /\ Dividing

-----------------------------------------------------------------------------
\* What one input is.
LEMMA InputType ==
  ASSUME NEW i \in Inputs
  PROVE  /\ i.tasks \in Seq(Names)
         /\ i.residents \in Nat \ {0}
         /\ Injective(i.tasks)
         /\ Len(i.tasks) \in Nat
         /\ \A k \in 1 .. Len(i.tasks) : i.tasks[k] \in Names /\ i.tasks[k] # NoTask
BY RotationAssumption

\* movedTasks turns a row by one place.
LEMMA MovedTurns ==
  ASSUME NEW S, NEW row \in Seq(S), row # <<>>
  PROVE  /\ movedTasks(row) \in Seq(S)
         /\ Len(movedTasks(row)) = Len(row)
         /\ \A r \in 1 .. Len(row) :
              movedTasks(row)[r] = IF r < Len(row) THEN row[r + 1] ELSE row[1]
BY DEF movedTasks

\* Turning once more.
LEMMA TurnOn ==
  ASSUME NEW m \in Nat, NEW w \in Nat, w < m, NEW r \in 1 .. m
  PROVE  /\ TaskAt(w, r, m) \in 1 .. m
         /\ TaskAt(0, r, m) = r
         /\ TaskAt(w + 1, r, m) = IF r < m THEN TaskAt(w, r + 1, m) ELSE TaskAt(w, 1, m)
BY DEF TaskAt

\* Within a row, and down a column of at most m rows, no place repeats.
LEMMA PlacesDiffer ==
  ASSUME NEW m \in Nat, NEW w \in Nat, w < m, NEW r \in 1 .. m, NEW s \in 1 .. m
  PROVE  /\ TaskAt(w, r, m) = TaskAt(w, s, m) => r = s
         /\ \A v \in 0 .. m - 1 : TaskAt(w, r, m) = TaskAt(v, r, m) => v = w
BY DEF TaskAt

-----------------------------------------------------------------------------
LEMMA RotationStarts == RotationInit => RotationInv
<1>. SUFFICES ASSUME RotationInit PROVE RotationInv
  OBVIOUS
<1>. USE DEF RotationInit
<1>1. /\ house \in Inputs
      /\ house.tasks \in Seq(Names)
      /\ tasks = <<house.tasks>>
  BY InputType
<1>2. /\ Len(tasks) = 1 /\ tasks[1] = house.tasks
      /\ house.tasks \in Seq(Names \cup {NoTask})
      /\ tasks \in Seq(Seq(Names \cup {NoTask}))
  BY <1>1
<1>3. FirstRow
  BY <1>1, <1>2 DEF FirstRow
<1>4. \A w \in 1 .. week + 1 : Turned(w)
  BY <1>1, <1>2 DEF Turned, TaskAt, Width
<1>. QED
  BY <1>1, <1>2, <1>3, <1>4 DEF RotationInv, Dividing

LEMMA AppendEmptyKeeps == RotationInv /\ AppendEmpty => RotationInv'
<1>. SUFFICES ASSUME RotationInv, AppendEmpty PROVE RotationInv'
  OBVIOUS
<1>1. /\ house' = house /\ week' = week /\ at' = at /\ at = "setTasks" /\ week = 0
      /\ tasks \in Seq(Seq(Names \cup {NoTask})) /\ Len(tasks) = 1
      /\ tasks' = [tasks EXCEPT ![1] = Append(@, NoTask)]
      /\ Len(tasks[1]) < house.residents
      /\ FirstRow
  BY DEF RotationInv, Dividing, AppendEmpty
<1>2. /\ house \in Inputs /\ house.tasks \in Seq(Names) /\ house.residents \in Nat
      /\ Len(house.tasks) \in Nat
  BY InputType DEF RotationInv
<1>3. /\ tasks' \in Seq(Seq(Names \cup {NoTask}))
      /\ Len(tasks') = 1
      /\ tasks'[1] = Append(tasks[1], NoTask)
      /\ tasks[1] \in Seq(Names \cup {NoTask})
  BY <1>1 DEF FirstRow
<1>4. FirstRow'
  <2>1. /\ tasks'[1] \in Seq(Names \cup {NoTask})
        /\ Len(tasks'[1]) = Len(tasks[1]) + 1
        /\ Len(tasks[1]) \in Nat
    BY <1>3
  <2>2. Len(tasks[1]) >= Len(house.tasks)
    BY <1>1 DEF FirstRow
  <2>3. \A i \in 1 .. Len(tasks'[1]) :
          tasks'[1][i] = IF i <= Len(house.tasks) THEN house.tasks[i] ELSE NoTask
    <3>. TAKE i \in 1 .. Len(tasks'[1])
    <3>1. CASE i \in 1 .. Len(tasks[1])
      BY <3>1, <1>1, <1>3 DEF FirstRow
    <3>2. CASE i = Len(tasks[1]) + 1
      BY <3>2, <1>2, <1>3, <2>1, <2>2
    <3>. QED
      BY <2>1, <3>1, <3>2
  <2>. QED
    BY <1>1, <1>2, <2>1, <2>2, <2>3 DEF FirstRow
<1>5. (\A w \in 1 .. week + 1 : Turned(w))'
  BY <1>1, <1>3, <1>4 DEF Turned, TaskAt, Width, FirstRow
<1>. QED
  BY <1>1, <1>2, <1>3, <1>4, <1>5 DEF RotationInv, Dividing

LEMMA StartDividingKeeps == RotationInv /\ StartDividing => RotationInv'
<1>. SUFFICES ASSUME RotationInv, StartDividing PROVE RotationInv'
  OBVIOUS
<1>1. UNCHANGED <<house, tasks, week>> /\ at' = "divideTasks" /\ Len(tasks[1]) >= house.residents
  BY DEF StartDividing
<1>2. house.residents \in Nat \ {0} /\ week = 0
  BY InputType DEF RotationInv, Dividing, StartDividing
<1>. QED
  BY <1>1, <1>2 DEF RotationInv, Dividing, FirstRow, Turned, Width

LEMMA DivideKeeps == RotationInv /\ Divide => RotationInv'
<1>. SUFFICES ASSUME RotationInv, Divide PROVE RotationInv'
  OBVIOUS
<1>. DEFINE S == Names \cup {NoTask}
            row == tasks[week + 1]
            m == Width
<1>1. /\ house \in Inputs /\ house.residents \in Nat \ {0} /\ Len(house.tasks) \in Nat
      /\ week \in Nat /\ week < house.residents
      /\ tasks \in Seq(Seq(S)) /\ Len(tasks) = week + 1
      /\ FirstRow /\ m >= house.residents
  BY InputType DEF RotationInv, Dividing, Divide
<1>2. /\ house' = house /\ week' = week + 1
      /\ tasks' = Append(tasks, movedTasks(row))
      /\ at' = IF week = house.residents - 1 THEN "done" ELSE "divideTasks"
  BY DEF Divide
<1>3. /\ m \in Nat /\ week < m /\ m # 0
  BY <1>1 DEF FirstRow, Width
<1>4. /\ row \in Seq(S) /\ Len(row) = m
      /\ \A r \in 1 .. m : row[r] = tasks[1][TaskAt(week, r, m)]
  <2>1. Turned(week + 1)
    BY <1>1 DEF RotationInv, Dividing
  <2>. QED
    BY <2>1, <1>1 DEF Turned
<1>5. /\ movedTasks(row) \in Seq(S)
      /\ Len(movedTasks(row)) = m
      /\ \A r \in 1 .. m : movedTasks(row)[r] = IF r < m THEN row[r + 1] ELSE row[1]
  BY <1>3, <1>4, MovedTurns
<1>6. /\ tasks' \in Seq(Seq(S)) /\ Len(tasks') = week + 2
      /\ tasks'[week + 2] = movedTasks(row)
      /\ \A w \in 1 .. week + 1 : tasks'[w] = tasks[w]
  BY <1>1, <1>2, <1>5
<1>7. tasks'[1] = tasks[1] /\ Width' = m
  BY <1>1, <1>6 DEF Width
<1>8. FirstRow'
  BY <1>1, <1>2, <1>7 DEF FirstRow
<1>9. (\A w \in 1 .. week + 1 : Turned(w))'
  <2>. SUFFICES ASSUME NEW w \in 1 .. week + 2 PROVE Turned(w)'
    BY <1>1, <1>2
  <2>1. CASE w \in 1 .. week + 1
    BY <2>1, <1>6, <1>7 DEF RotationInv, Dividing, Turned
  <2>2. CASE w = week + 2
    <3>1. \A r \in 1 .. m : movedTasks(row)[r] = tasks[1][TaskAt(week + 1, r, m)]
      <4>. TAKE r \in 1 .. m
      <4>1. TaskAt(week + 1, r, m)
              = IF r < m THEN TaskAt(week, r + 1, m) ELSE TaskAt(week, 1, m)
        BY <1>1, <1>3, TurnOn
      <4>2. CASE r < m
        BY <4>1, <4>2, <1>3, <1>4, <1>5
      <4>3. CASE r = m
        BY <4>1, <4>3, <1>3, <1>4, <1>5
      <4>. QED
        BY <4>2, <4>3, <1>3
    <3>. QED
      BY <2>2, <3>1, <1>1, <1>2, <1>5, <1>6, <1>7 DEF Turned
  <2>. QED
    BY <1>1, <2>1, <2>2
<1>. QED
  BY <1>1, <1>2, <1>3, <1>6, <1>7, <1>8, <1>9 DEF RotationInv, Dividing

\* Every row is the first one, turned by as many places as it lies below it.
THEOREM RowsAreTurned == RotationSpec => []RotationInv
<1>1. RotationInv /\ UNCHANGED rotationVars => RotationInv'
  BY DEF RotationInv, Dividing, FirstRow, Turned, Width, rotationVars
<1>2. RotationInv /\ [RotationNext]_rotationVars => RotationInv'
  BY <1>1, AppendEmptyKeeps, StartDividingKeeps, DivideKeeps DEF RotationNext
<1>. QED
  BY RotationStarts, <1>2, PTL DEF RotationSpec
-----------------------------------------------------------------------------
(* What the invariant says once the loops are done.                        *)

\* The facts the theorems below rest on, in terms of the first row only.
LEMMA DoneRows ==
  ASSUME RotationInv, at = "done"
  PROVE  /\ house.residents \in Nat \ {0} /\ Len(house.tasks) \in Nat
         /\ Width \in Nat /\ Width >= house.residents /\ Width >= Len(house.tasks)
         /\ Width <= Len(house.tasks) \/ Width <= house.residents
         /\ Len(tasks) = house.residents + 1
         /\ \A w \in 1 .. house.residents + 1 :
              /\ Len(tasks[w]) = Width
              /\ \A r \in 1 .. Width : tasks[w][r] = tasks[1][TaskAt(w - 1, r, Width)]
         /\ \A i \in 1 .. Width :
              tasks[1][i] = IF i <= Len(house.tasks) THEN house.tasks[i] ELSE NoTask
         /\ \A i \in 1 .. Len(house.tasks) : house.tasks[i] # NoTask
         /\ \A i, j \in 1 .. Len(house.tasks) : house.tasks[i] = house.tasks[j] => i = j
<1>1. /\ house.residents \in Nat \ {0} /\ Len(house.tasks) \in Nat
      /\ Injective(house.tasks)
      /\ \A i \in 1 .. Len(house.tasks) : house.tasks[i] # NoTask
  BY InputType DEF RotationInv
<1>2. /\ FirstRow /\ Width >= house.residents /\ week = house.residents
      /\ Len(tasks) = week + 1
      /\ \A w \in 1 .. week + 1 : Turned(w)
  BY DEF RotationInv, Dividing
<1>3. /\ Width \in Nat /\ Width >= Len(house.tasks)
      /\ Width <= Len(house.tasks) \/ Width <= house.residents
      /\ \A i \in 1 .. Width :
           tasks[1][i] = IF i <= Len(house.tasks) THEN house.tasks[i] ELSE NoTask
  BY <1>2 DEF FirstRow, Width
<1>4. \A w \in 1 .. house.residents + 1 :
        /\ Len(tasks[w]) = Width
        /\ \A r \in 1 .. Width : tasks[w][r] = tasks[1][TaskAt(w - 1, r, Width)]
  BY <1>2 DEF Turned
<1>5. \A i, j \in 1 .. Len(house.tasks) : house.tasks[i] = house.tasks[j] => i = j
  BY <1>1 DEF Injective
<1>6. Width >= house.residents /\ Len(tasks) = house.residents + 1
  BY <1>2
<1>. QED
  BY <1>1, <1>3, <1>4, <1>5, <1>6

\* Where a task of the house stands, in which row, and nowhere else.
LEMMA WhereTasksStand ==
  ASSUME RotationInv, at = "done",
         NEW w \in 1 .. house.residents, NEW r \in 1 .. house.residents,
         NEW i \in 1 .. Len(house.tasks)
  PROVE  tasks[w][r] = house.tasks[i] <=> TaskAt(w - 1, r, Width) = i
<1>1. /\ w - 1 \in Nat /\ w - 1 < Width /\ r \in 1 .. Width
      /\ w \in 1 .. house.residents + 1
  BY DoneRows
<1>2. TaskAt(w - 1, r, Width) \in 1 .. Width
  BY <1>1, DoneRows, TurnOn
<1>3. tasks[w][r] = tasks[1][TaskAt(w - 1, r, Width)]
  BY <1>1, DoneRows
<1>. DEFINE p == TaskAt(w - 1, r, Width)
<1>4. tasks[1][p] = IF p <= Len(house.tasks) THEN house.tasks[p] ELSE NoTask
  BY <1>2, DoneRows
<1>5. CASE p <= Len(house.tasks)
  <2>1. p \in 1 .. Len(house.tasks)
    BY <1>2, <1>5, DoneRows
  <2>. HIDE DEF p
  <2>2. house.tasks[p] = house.tasks[i] <=> p = i
    BY <2>1, DoneRows
  <2>. QED
    BY <2>2, <1>3, <1>4, <1>5 DEF p
<1>6. CASE ~ (p <= Len(house.tasks))
  <2>1. tasks[w][r] = NoTask /\ p # i
    BY <1>2, <1>3, <1>4, <1>6, DoneRows
  <2>. QED
    BY <2>1, DoneRows
<1>. QED
  BY <1>5, <1>6

(* Types, and the loop variable never leaves 0...residents.count - 1 but   *)
(* to end the loop.                                                        *)
THEOREM RotationTyped == RotationSpec => []RotationTypeOK
<1>1. RotationInv => RotationTypeOK
  <2>. SUFFICES ASSUME RotationInv PROVE RotationTypeOK
    OBVIOUS
  <2>1. house.residents \in Nat \ {0}
    BY InputType DEF RotationInv
  <2>. QED
    BY <2>1 DEF RotationInv, Dividing, RotationTypeOK
<1>. QED
  BY <1>1, RowsAreTurned, PTL

(* No subscript by week and resident is out of range.                      *)
THEOREM RowsAreEnough == RotationSpec => []RowsSuffice
<1>1. RotationInv => RowsSuffice
  BY DoneRows DEF RowsSuffice
<1>. QED
  BY <1>1, RowsAreTurned, PTL

(* In one week no two residents have the same task.                        *)
THEOREM TasksNotShared == RotationSpec => []NoTaskShared
<1>1. RotationInv => NoTaskShared
  <2>. SUFFICES ASSUME RotationInv, at = "done",
                       NEW w \in Weeks, NEW r \in Residents, NEW s \in Residents,
                       tasks[w][r] = tasks[w][s], tasks[w][r] # NoTask
                PROVE  r = s
    BY DEF NoTaskShared
  <2>. USE DEF Weeks, Residents
  <2>1. /\ w - 1 \in Nat /\ w - 1 < Width /\ r \in 1 .. Width /\ s \in 1 .. Width
        /\ w \in 1 .. house.residents + 1 /\ Width \in Nat
    BY DoneRows
  <2>. DEFINE p == TaskAt(w - 1, r, Width)
  <2>2. p \in 1 .. Width
    BY <2>1, TurnOn
  <2>3. tasks[w][r] = tasks[1][p]
    BY <2>1, DoneRows
  <2>4. tasks[1][p] = IF p <= Len(house.tasks) THEN house.tasks[p] ELSE NoTask
    BY <2>2, DoneRows
  <2>5. p \in 1 .. Len(house.tasks) /\ tasks[w][r] = house.tasks[p]
    BY <2>2, <2>3, <2>4, DoneRows
  <2>. HIDE DEF p
  <2>6. TaskAt(w - 1, s, Width) = p
    <3>1. /\ w \in 1 .. house.residents /\ s \in 1 .. house.residents
          /\ tasks[w][s] = house.tasks[p]
      BY <2>5
    <3>2. tasks[w][s] = house.tasks[p] <=> TaskAt(w - 1, s, Width) = p
      BY <3>1, <2>5, WhereTasksStand
    <3>. QED
      BY <3>1, <3>2
  <2>. QED
    BY <2>1, <2>6, PlacesDiffer DEF p
<1>. QED
  BY <1>1, RowsAreTurned, PTL

(* With no more tasks than residents, each resident has each task in       *)
(* exactly one week of a schedule.                                         *)
THEOREM RoundsAreFair == RotationSpec => []EveryoneOnce
<1>1. RotationInv => EveryoneOnce
  <2>. SUFFICES ASSUME RotationInv, at = "done", Len(house.tasks) <= house.residents,
                       NEW r \in Residents, NEW i \in 1 .. Len(house.tasks)
                PROVE  \E w \in Weeks :
                         \A v \in Weeks : tasks[v][r] = house.tasks[i] <=> v = w
    BY DEF EveryoneOnce
  <2>. USE DEF Weeks, Residents
  <2>1. /\ Width = house.residents /\ Width \in Nat \ {0}
        /\ Len(house.tasks) \in Nat
    BY DoneRows
  <2>. DEFINE w == IF i >= r THEN i - r + 1 ELSE i - r + Width + 1
  <2>2. w \in Weeks /\ TaskAt(w - 1, r, Width) = i
    BY <2>1 DEF TaskAt
  <2>3. ASSUME NEW v \in Weeks PROVE TaskAt(v - 1, r, Width) = i <=> v = w
    <3>1. /\ w - 1 \in Nat /\ w - 1 < Width /\ v - 1 \in 0 .. Width - 1
          /\ r \in 1 .. Width
      BY <2>1, <2>2
    <3>. HIDE DEF w
    <3>2. TaskAt(w - 1, r, Width) = TaskAt(v - 1, r, Width) => v - 1 = w - 1
      BY <2>1, <3>1, PlacesDiffer
    <3>. QED
      BY <2>2, <3>1, <3>2
  <2>4. \A v \in Weeks : tasks[v][r] = house.tasks[i] <=> v = w
    BY <2>3, WhereTasksStand
  <2>. QED
    BY <2>2, <2>4
<1>. QED
  BY <1>1, RowsAreTurned, PTL

(* The tasks that are ever somebody's are the first 2n - 1 of n residents'. *)
THEOREM TasksReached == RotationSpec => []ReachedTasks
<1>1. RotationInv => ReachedTasks
  <2>. SUFFICES ASSUME RotationInv, at = "done", NEW i \in 1 .. Len(house.tasks)
                PROVE  (\E w \in Weeks, r \in Residents : tasks[w][r] = house.tasks[i])
                         <=> i < 2 * house.residents
    BY DEF ReachedTasks
  <2>. USE DEF Weeks, Residents
  <2>1. /\ Width \in Nat /\ Width >= house.residents /\ Width >= Len(house.tasks)
        /\ house.residents \in Nat \ {0} /\ Len(house.tasks) \in Nat
    BY DoneRows
  <2>2. ASSUME NEW w \in Weeks, NEW r \in Residents, tasks[w][r] = house.tasks[i]
        PROVE  i < 2 * house.residents
    <3>1. TaskAt(w - 1, r, Width) = i
      BY <2>2, WhereTasksStand
    <3>. QED
      BY <2>1, <3>1 DEF TaskAt
  <2>3. ASSUME i < 2 * house.residents
        PROVE  \E w \in Weeks, r \in Residents : tasks[w][r] = house.tasks[i]
    <3>. DEFINE r == IF i <= house.residents THEN i ELSE house.residents
                w == i - r + 1
    <3>1. w \in Weeks /\ r \in Residents /\ TaskAt(w - 1, r, Width) = i
      BY <2>1, <2>3 DEF TaskAt
    <3>. QED
      BY <3>1, WhereTasksStand
  <2>. QED
    BY <2>2, <2>3
<1>. QED
  BY <1>1, RowsAreTurned, PTL
=============================================================================
