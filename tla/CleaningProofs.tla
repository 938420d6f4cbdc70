--------------------------- MODULE CleaningProofs ---------------------------
(***************************************************************************)
(* What is proved of Cleaning, for any finite number of users, any number  *)
(* of houses and tasks, and any length of the year: under which conditions *)
(* the schedules survive, begin with the right week and are shown.         *)
(***************************************************************************)
EXTENDS Cleaning, HomeProofs, FiniteSetTheorems

-----------------------------------------------------------------------------
(* The inductive invariant.  Nobody moves, so that all of a house but its  *)
(* tasks and its week is as it was at first.                               *)

\* A house with all that getHouses unwraps, except perhaps its tasks.
Sound(node, h) ==
  /\ node # NoHouse
  /\ node.password # Null /\ node.drinks # Null
  /\ node.firstWeek \in 1 .. WeeksInYear
  /\ node.residents = {u \in Users : users[u].house = h}

Tree ==
  /\ \A h \in Houses : houses[h] # NoHouse =>
       Sound(houses[h], h) /\ \E u \in Users : users[u].house = h
  /\ \A u \in Users : users[u].house # Null => houses[users[u].house] # NoHouse

\* The first of the new tasks is the very next write.
Halves ==
  \A h \in Houses : houses[h] # NoHouse /\ houses[h].tasks = {} =>
    \E v \in Users : /\ uplink[v] # << >>
                     /\ Head(uplink[v]).path = "houses/tasks/task"
                     /\ Head(uplink[v]).house = h

\* The writes on their way: to the own house, and never of another week.
Line(home, s) ==
  \A i \in 1 .. Len(s) :
    /\ s[i].path \in {"users/dinner", "houses/tasks", "houses/tasks/task", "houses/firstWeek"}
    /\ s[i].path # "users/dinner" => s[i].house = home
    /\ s[i].path = "houses/firstWeek" => s[i].count = getCurrentWeek
    /\ s[i].path = "houses/tasks" =>
         i < Len(s) /\ s[i + 1].path = "houses/tasks/task" /\ s[i + 1].house = home

HasWeek(s) == \E i \in 1 .. Len(s) : s[i].path = "houses/firstWeek"

\* The phone outside of loads.
Phone(u) ==
  /\ Line(me[u].house, uplink[u])
  /\ me[u].house \in {Null, users[u].house}
  /\ label[u] \in {Null, users[u].house}
  /\ asked[u] # {} => phase[u] \in {"loading", "frozen"}
  /\ phase[u] \in {"off", "crashed"} => uplink[u] = << >>

\* The phone in a load: what each answer has brought, and what the load of a
\* restart or a save is for.
Load(u) ==
  /\ online[u]
  /\ asked[u] # {"users", "houses"} => uplink[u] = << >>
  /\ "users" \notin asked[u] => me[u].house = users[u].house
  /\ "houses" \notin asked[u] => \A h \in Houses : houses[h] # NoHouse => Sound(seen[u][h], h)
  /\ asked[u] = {} /\ me[u].house # Null => residents[u] = houses[me[u].house].residents
  /\ then[u].step \in {"checkWeek", "show", "scheduled"} =>
       /\ me[u].house # Null
       /\ houses[me[u].house].firstWeek = getCurrentWeek \/ HasWeek(uplink[u])
  /\ then[u].step \in {"checkWeek", "show"} /\ "houses" \notin asked[u] =>
       seen[u][me[u].house].firstWeek = getCurrentWeek
  /\ then[u].step = "clean" => table[u].rows = 0

Schedules ==
  /\ Tree
  /\ Halves
  /\ \A u \in Users : Phone(u) /\ (phase[u] = "loading" => Load(u))

CleaningInv == CleaningTypeOK /\ Schedules

-----------------------------------------------------------------------------
(* Type correctness.                                                       *)

TabTypeOK ==
  /\ table \in [Users -> [rows: 0 .. Cardinality(Users), segments: Nat, selected: Nat]]
  /\ \A u \in Users : table[u].selected < table[u].segments
  /\ canCreate \in [Users -> BOOLEAN]
  /\ draft \in [Users -> Seq(Tasks)]
  /\ top \in [Users -> {"clean", "schedule"}]

\* What the types rest on: the table is empty when a load of Clean ends, and
\* every house that was read has its week.
Fresh(u) ==
  /\ phase[u] = "loading" /\ then[u].step = "clean" => table[u].rows = 0
  /\ \A h \in Houses : seen[u][h] # NoHouse => seen[u][h].firstWeek \in Int

TypeInv == CleaningTypeOK /\ \A u \in Users : Fresh(u)

LEMMA CleaningParts == CleaningTypeOK <=> HomeTypeOK /\ TabTypeOK
BY DEF CleaningTypeOK, HomeTypeOK, TabTypeOK

LEMMA ForgetTabTyped ==
  ASSUME TabTypeOK, NEW u \in Users, ForgetTab(u)
  PROVE  TabTypeOK'
<1>1. Cardinality(Users) \in Nat
  BY CleaningAssumption, FS_CardinalityType
<1>2. /\ table' = [table EXCEPT ![u] = NewTable]
      /\ NewTable \in [rows: 0 .. Cardinality(Users), segments: Nat, selected: Nat]
      /\ NewTable.selected < NewTable.segments
  BY <1>1 DEF ForgetTab, NewTable
<1>3. /\ table' \in [Users -> [rows: 0 .. Cardinality(Users), segments: Nat, selected: Nat]]
      /\ \A v \in Users : table'[v].selected < table'[v].segments
  BY <1>2 DEF TabTypeOK
<1>4. << >> \in Seq(Tasks)
  OBVIOUS
<1>5. /\ canCreate' \in [Users -> BOOLEAN]
      /\ draft' \in [Users -> Seq(Tasks)]
      /\ top' \in [Users -> {"clean", "schedule"}]
  BY <1>4 DEF ForgetTab, TabTypeOK
<1> QED
  BY <1>3, <1>5 DEF TabTypeOK

LEMMA TrapTyped ==
  ASSUME CleaningTypeOK, NEW u \in Users, Trap(u)
  PROVE  CleaningTypeOK'
<1>1. HomeTypeOK /\ TabTypeOK
  BY CleaningParts
<1>2. TabTypeOK'
  BY <1>1, ForgetTabTyped DEF Trap
<1>3. label' \in [Users -> Houses \cup {Null}]
  BY <1>1 DEF Trap, LabelLost, HomeTypeOK, LabelTypeOK
<1>4. HomeTypeOK'
  BY <1>1, <1>3, StopTyped DEF Trap, Crash, HomeTypeOK, DeviceTypeOK, LabelTypeOK, database
<1> QED
  BY <1>2, <1>4 DEF CleaningTypeOK, HomeTypeOK, TabTypeOK

\* The first weeks of a schedule get a segment, without a gap.
LEMMA SegmentsCounted ==
  ASSUME CleaningTypeOK, NEW u \in Users, NEW node, node.firstWeek \in Int,
         NEW w \in Segments(u, node)
  PROVE  /\ w \in Nat
         /\ Cardinality(Segments(u, node)) \in Nat
         /\ w < Cardinality(Segments(u, node))
<1>1. residents[u] \subseteq Users
  BY DEF CleaningTypeOK, DeviceTypeOK
<1>2. IsFiniteSet(residents[u]) /\ Cardinality(residents[u]) \in Nat
  BY <1>1, CleaningAssumption, FS_Subset, FS_CardinalityType
<1>3. w \in 0 .. Cardinality(residents[u]) - 1 /\ node.firstWeek + w <= LastSegment
  BY DEF Segments
<1>4. w \in Nat
  BY <1>2, <1>3
<1>5. 0 .. w \subseteq Segments(u, node)
  BY <1>2, <1>3, <1>4, CleaningAssumption DEF Segments
<1>6. IsFiniteSet(0 .. Cardinality(residents[u]) - 1)
  BY <1>2, FS_Interval
<1>7. IsFiniteSet(Segments(u, node))
  BY <1>6, FS_Subset DEF Segments
<1>8. Cardinality(0 .. w) = w + 1
  BY <1>4, FS_Interval
<1>9. Cardinality(0 .. w) <= Cardinality(Segments(u, node))
  BY <1>5, <1>7, FS_Subset
<1>10. Cardinality(Segments(u, node)) \in Nat
  BY <1>7, FS_CardinalityType
<1> QED
  BY <1>4, <1>8, <1>9, <1>10


\* updateUI: the rows were emptied when the load began, and the segments are
\* those of a house that is there.
LEMMA CleanShownTyped ==
  ASSUME TypeInv, NEW u \in Users, CleanShown(u)
  PROVE  CleaningTypeOK'
<1>. DEFINE h == me[u].house
            node == seen[u][h]
<1>1. HomeTypeOK /\ TabTypeOK /\ CleaningTypeOK
  BY CleaningParts DEF TypeInv
<1>2. phase[u] = "loading" /\ asked[u] = {} /\ table[u].rows = 0
  BY DEF CleanShown, Loaded, TypeInv, Fresh
<1>3. CASE Trap(u)
  BY <1>1, <1>3, TrapTyped
<1>4. CASE me[u].house = Null /\ ~Trap(u)
  <2>1. TabTypeOK'
    BY <1>1, <1>4 DEF CleanShown, TabTypeOK
  <2>2. HomeTypeOK'
    BY <1>1, <1>4, RestTyped DEF CleanShown, HomeTypeOK, DeviceTypeOK, LabelTypeOK, database
  <2> QED
    BY <2>1, <2>2 DEF CleaningTypeOK, HomeTypeOK, TabTypeOK
<1>5. CASE h # Null /\ ~Trap(u)
  <2>1. /\ node # NoHouse
        /\ residents[u] # {} /\ weekIndex(node) \in Segments(u, node)
        /\ table' = [table EXCEPT ![u] =
                       [rows |-> @.rows + Cardinality(residents[u]),
                        segments |-> Cardinality(Segments(u, node)),
                        selected |-> weekIndex(node)]]
        /\ canCreate' = [canCreate EXCEPT ![u] = TRUE]
        /\ Rest(u)
        /\ UNCHANGED <<database, online, screen, me, week, label, draft, top>>
    BY <1>5 DEF CleanShown, CleanFilled
  <2>2. h \in Houses /\ node.firstWeek \in Int
    <3>1. h \in Houses
      BY <1>1, <1>5 DEF HomeTypeOK, DeviceTypeOK, UserNode
    <3> QED
      BY <2>1, <3>1 DEF TypeInv, Fresh
  <2>3. Cardinality(residents[u]) \in 0 .. Cardinality(Users)
    <3>1. residents[u] \subseteq Users
      BY <1>1 DEF HomeTypeOK, DeviceTypeOK
    <3> QED
      BY <3>1, CleaningAssumption, FS_Subset, FS_CardinalityType
  <2>4. /\ weekIndex(node) \in Nat /\ Cardinality(Segments(u, node)) \in Nat
        /\ weekIndex(node) < Cardinality(Segments(u, node))
    BY <1>1, <2>1, <2>2, SegmentsCounted
  <2>. DEFINE row == [rows |-> table[u].rows + Cardinality(residents[u]),
                      segments |-> Cardinality(Segments(u, node)),
                      selected |-> weekIndex(node)]
  <2>5. row \in [rows: 0 .. Cardinality(Users), segments: Nat, selected: Nat]
    BY <1>2, <2>3, <2>4
  <2>6. row.selected < row.segments
    BY <2>4
  <2>7. table' = [table EXCEPT ![u] = row]
    BY <2>1
  <2>. HIDE DEF row
  <2>8. TabTypeOK'
    BY <1>1, <2>1, <2>5, <2>6, <2>7 DEF TabTypeOK
  <2>9. HomeTypeOK'
    BY <1>1, <2>1, RestTyped DEF HomeTypeOK, DeviceTypeOK, LabelTypeOK, database
  <2> QED
    BY <2>8, <2>9 DEF CleaningTypeOK, HomeTypeOK, TabTypeOK
<1> QED
  BY <1>3, <1>4, <1>5

\* The writes of a save: the old tasks go, the new ones come, then the week.
LEMMA SaveTyped ==
  ASSUME CleaningTypeOK, NEW u \in Users, NEW h \in Houses
  PROVE  SchedulePuts(h, draft[u]) \in Seq(Puts)
<1>1. draft[u] \in Seq(Tasks)
  BY DEF CleaningTypeOK
<1>2. AddTasks(h, draft[u]) \in Seq(Puts)
  <2>1. \A i \in 1 .. Len(draft[u]) : AddTask(h, draft[u][i]) \in Puts
    BY <1>1 DEF AddTask, Puts
  <2> QED
    BY <1>1, <2>1 DEF AddTasks
<1>3. <<RemoveTasks(h)>> \in Seq(Puts)
  BY DEF RemoveTasks, Puts
<1>4. <<SetFirstWeek(h, getCurrentWeek)>> \in Seq(Puts)
  BY HomePutsTyped DEF CleaningTypeOK
<1>5. \A a, b \in Seq(Puts) : a \o b \in Seq(Puts)
  OBVIOUS
<1> QED
  BY <1>2, <1>3, <1>4, <1>5 DEF SchedulePuts

\* The taps of the two screens.
LEMMA TapsTyped ==
  ASSUME CleaningTypeOK, NEW u \in Users,
         \/ SegmentTapped(u) \/ PushSchedule(u) \/ plusButtonTapped(u) \/ DeleteTask(u)
         \/ SaveSchedule(u) \/ Scheduled(u)
         \/ Okay(u) \/ Back(u) \/ TabToClean(u) \/ TabToHome(u)
  PROVE  CleaningTypeOK'
<1>1. HomeTypeOK /\ TabTypeOK /\ {"home", "clean", "schedule"} \subseteq Screens
  BY CleaningParts DEF Screens
<1>2. \A s \in {"appear", "clean", "scheduled"} : Run(s) \in Handlers
  BY DEF Run, Handlers, Steps
<1>3. << >> \in Seq(Tasks)
  OBVIOUS
<1>4. ASSUME SegmentTapped(u) \/ plusButtonTapped(u) \/ DeleteTask(u)
      PROVE  CleaningTypeOK'
  <2>1. HomeTypeOK'
    BY <1>1, <1>4
    DEF SegmentTapped, plusButtonTapped, DeleteTask, homeVars, deviceVars,
        HomeTypeOK, DeviceTypeOK, LabelTypeOK
  <2>2. CASE SegmentTapped(u)
    <3>1. PICK s \in 0 .. table[u].segments - 1 : table' = [table EXCEPT ![u].selected = s]
      BY <2>2 DEF SegmentTapped
    <3>. DEFINE row == [table[u] EXCEPT !.selected = s]
    <3>3. table[u] \in [rows: 0 .. Cardinality(Users), segments: Nat, selected: Nat]
      BY <1>1 DEF TabTypeOK
    <3>4. /\ row \in [rows: 0 .. Cardinality(Users), segments: Nat, selected: Nat]
          /\ row.selected < row.segments
      BY <3>1, <3>3
    <3>5. table' = [table EXCEPT ![u] = row]
      BY <3>1
    <3>. HIDE DEF row
    <3>7. TabTypeOK'
      BY <1>1, <2>2, <3>4, <3>5 DEF SegmentTapped, TabTypeOK
    <3> QED
      BY <2>1, <3>7 DEF CleaningTypeOK, HomeTypeOK, TabTypeOK
  <2>3. CASE plusButtonTapped(u)
    <3>1. PICK t \in Tasks : draft' = [draft EXCEPT ![u] = Append(@, t)]
      BY <2>3 DEF plusButtonTapped
    <3>2. draft' \in [Users -> Seq(Tasks)]
      BY <1>1, <3>1 DEF TabTypeOK
    <3>3. TabTypeOK'
      BY <1>1, <2>3, <3>2 DEF plusButtonTapped, TabTypeOK
    <3> QED
      BY <2>1, <3>3 DEF CleaningTypeOK, HomeTypeOK, TabTypeOK
  <2>4. CASE DeleteTask(u)
    <3>1. PICK i \in 1 .. Len(draft[u]) : draft' = [draft EXCEPT ![u] = Seqs!RemoveAt(@, i)]
      BY <2>4 DEF DeleteTask
    <3>2. draft[u] \in Seq(Tasks)
      BY <1>1 DEF TabTypeOK
    <3>3. Seqs!RemoveAt(draft[u], i) \in Seq(Tasks)
      BY <3>1, <3>2 DEF Seqs!RemoveAt
    <3>4. draft' \in [Users -> Seq(Tasks)]
      BY <1>1, <3>1, <3>3 DEF TabTypeOK
    <3>5. TabTypeOK'
      BY <1>1, <2>4, <3>4 DEF DeleteTask, TabTypeOK
    <3> QED
      BY <2>1, <3>5 DEF CleaningTypeOK, HomeTypeOK, TabTypeOK
  <2> QED
    BY <1>4, <2>2, <2>3, <2>4
<1>5. ASSUME CleanAppears(u) PROVE CleaningTypeOK'
  <2>1. screen' \in [Users -> Screens]
    BY <1>1, <1>5 DEF CleanAppears, HomeTypeOK, DeviceTypeOK
  <2>2. HomeTypeOK'
    BY <1>1, <1>2, <1>5, <2>1, GetAllDataTyped
    DEF CleanAppears, HomeTypeOK, DeviceTypeOK, LabelTypeOK, database
  <2>3. /\ table' \in [Users -> [rows: 0 .. Cardinality(Users), segments: Nat, selected: Nat]]
        /\ \A v \in Users : table'[v].selected < table'[v].segments
    <3>1. 0 \in 0 .. Cardinality(Users)
      BY CleaningAssumption, FS_CardinalityType
    <3>2. table' = [table EXCEPT ![u].rows = 0]
      BY <1>5 DEF CleanAppears
    <3> QED
      BY <1>1, <3>1, <3>2 DEF TabTypeOK
  <2>4. TabTypeOK'
    BY <1>1, <1>3, <1>5, <2>3 DEF CleanAppears, TabTypeOK
  <2> QED
    BY <2>2, <2>4 DEF CleaningTypeOK, HomeTypeOK, TabTypeOK
<1>6. CASE PushSchedule(u) \/ (TabToClean(u) /\ ~CleanAppears(u))
  <2>1. screen' \in [Users -> Screens]
    BY <1>1, <1>6 DEF PushSchedule, TabToClean, HomeTypeOK, DeviceTypeOK
  <2>2. HomeTypeOK'
    BY <1>1, <1>6, <2>1
    DEF PushSchedule, TabToClean, HomeTypeOK, DeviceTypeOK, LabelTypeOK, database, memory
  <2>3. TabTypeOK'
    BY <1>1, <1>3, <1>6 DEF PushSchedule, TabToClean, TabTypeOK
  <2> QED
    BY <2>2, <2>3 DEF CleaningTypeOK, HomeTypeOK, TabTypeOK
<1>7. CASE Scheduled(u)
  <2>1. phase' \in [Users -> Phases]
    BY <1>1, <1>7 DEF Scheduled, HomeTypeOK, DeviceTypeOK, Phases
  <2> QED
    BY <1>7, <2>1 DEF Scheduled, CleaningTypeOK, DeviceTypeOK, LabelTypeOK, database, memory
<1>8. CASE TabToHome(u)
  <2>1. screen' \in [Users -> Screens]
    BY <1>1, <1>8 DEF TabToHome, HomeTypeOK, DeviceTypeOK
  <2>2. HomeTypeOK'
    BY <1>1, <1>2, <1>8, <2>1, GetAllDataTyped
    DEF TabToHome, HomeTypeOK, DeviceTypeOK, LabelTypeOK, database
  <2> QED
    BY <1>1, <1>8, <2>2 DEF TabToHome, CleaningTypeOK, HomeTypeOK, TabTypeOK
<1>9. CASE SaveSchedule(u)
  <2>1. CASE Trap(u)
    BY <2>1, TrapTyped
  <2>2. CASE ~Trap(u)
    <3>1. /\ me[u].house # Null
          /\ Issue(u, SchedulePuts(me[u].house, draft[u]))
          /\ GetAllData(u, Run("scheduled"))
          /\ UNCHANGED <<database, online, screen, me, residents, week, label, table,
                         canCreate, draft, top>>
      BY <1>9, <2>2 DEF SaveSchedule
    <3>2. me[u].house \in Houses
      BY <1>1, <3>1 DEF HomeTypeOK, DeviceTypeOK, UserNode
    <3>3. uplink' \in [Users -> Seq(Puts)]
      BY <1>1, <3>1, <3>2, SaveTyped, IssueTyped DEF HomeTypeOK
    <3>4. HomeTypeOK'
      BY <1>1, <1>2, <3>1, <3>3, GetAllDataTyped
      DEF HomeTypeOK, DeviceTypeOK, LabelTypeOK, database
    <3> QED
      BY <1>1, <3>1, <3>4 DEF CleaningTypeOK, HomeTypeOK, TabTypeOK
  <2> QED
    BY <2>1, <2>2
<1> QED
  BY <1>4, <1>5, <1>6, <1>7, <1>8, <1>9 DEF Okay, Back, TabToClean

LEMMA CleaningTyped ==
  ASSUME TypeInv, CleaningNext
  PROVE  CleaningTypeOK'
<1>1. HomeTypeOK /\ TabTypeOK /\ CleaningTypeOK
  BY CleaningParts DEF TypeInv
<1>2. CASE Calendar
  <2>1. week' \in Nat \ {0}
    BY <1>1, <1>2 DEF Calendar, HomeCalendar, NewWeek, HomeTypeOK, DeviceTypeOK
  <2> QED
    BY <1>1, <1>2, <2>1
    DEF Calendar, HomeCalendar, NewWeek, CleaningTypeOK, DeviceTypeOK, LabelTypeOK, database, memory
<1>3. ASSUME NEW u \in Users,
             Background(u) \/ HomeHandlers(u) \/ HomeTaps(u) \/ Lifecycle(u),
             ForgetTab(u) \/ UNCHANGED <<table, canCreate, draft, top>>
      PROVE  CleaningTypeOK'
  <2>1. HomeTypeOK'
    BY <1>1, <1>3, BackgroundTyped, HomeHandlersTyped, HomeTapsTyped
  <2>2. TabTypeOK'
    <3>1. CASE ForgetTab(u)
      BY <1>1, <3>1, ForgetTabTyped
    <3>2. CASE UNCHANGED <<table, canCreate, draft, top>>
      BY <1>1, <3>2 DEF TabTypeOK
    <3> QED
      BY <1>3, <3>1, <3>2
  <2> QED
    BY <2>1, <2>2 DEF CleaningTypeOK, HomeTypeOK, TabTypeOK
<1>4. ASSUME NEW u \in Users, Serve(u) \/ Handle(u) \/ Tap(u)
      PROVE  CleaningTypeOK'
  <2>1. CASE \/ WithTab(u, Background(u)) \/ WithTab(u, HomeHandlers(u))
             \/ WithTab(u, HomeTaps(u) \/ Lifecycle(u))
    BY <1>3, <2>1 DEF WithTab
  <2>2. CASE CleanShown(u)
    BY <2>2, CleanShownTyped
  <2> QED
    BY <1>1, <1>4, <2>1, <2>2, TapsTyped DEF Serve, Handle, Tap
<1> QED
  BY <1>2, <1>4 DEF CleaningNext

\* The houses that getHouses gets through have their weeks.
LEMMA ReadHaveWeeks ==
  ASSUME NEW hs \in [Houses -> HouseNode], Parsable(hs), NEW h \in Houses,
         ParsedHouses(hs)[h] # NoHouse
  PROVE  ParsedHouses(hs)[h].firstWeek \in Int
<1>1. hs[h] \in HouseNode /\ ParsedHouses(hs)[h] = [hs[h] EXCEPT !.tasks = ParsedTasks(@)]
  BY DEF ParsedHouses
<1>2. ParsedHouses(hs)[h].firstWeek = hs[h].firstWeek
  BY <1>1 DEF HouseNode
<1>3. hs[h] # NoHouse
  <2>1. ASSUME hs[h] = NoHouse PROVE ParsedHouses(hs)[h] = NoHouse
    BY <1>1, <2>1 DEF NoHouse, ParsedTasks
  <2> QED
    BY <2>1
<1>4. hs[h].firstWeek # Null
  BY <1>3 DEF Parsable, Complete
<1> QED
  BY <1>1, <1>2, <1>4 DEF HouseNode

\* A step of one phone, by what it does to that phone's load and table.
FreshStep(u) ==
  /\ \A v \in Users \ {u} :
       /\ phase'[v] = phase[v] /\ then'[v] = then[v] /\ seen'[v] = seen[v]
       /\ table'[v].rows = table[v].rows
  /\ phase'[u] = "loading" /\ then'[u].step = "clean" => table'[u].rows = 0
  /\ \A h \in Houses : seen'[u][h] # NoHouse => seen'[u][h].firstWeek \in Int

LEMMA StopFresh ==
  ASSUME TypeInv, NEW u \in Users, NEW how \in {"off", "crashed"}, Stop(u, how),
         ForgetTab(u) \/ UNCHANGED table
  PROVE  FreshStep(u)
BY DEF FreshStep, Stop, ForgetTab, NoHouses, TypeInv, CleaningTypeOK, DeviceTypeOK

LEMMA RestFresh ==
  ASSUME TypeInv, NEW u \in Users, Rest(u),
         \A v \in Users \ {u} : table'[v].rows = table[v].rows
  PROVE  FreshStep(u)
BY DEF FreshStep, Rest, TypeInv, Fresh, CleaningTypeOK, DeviceTypeOK

LEMMA LoadFresh ==
  ASSUME TypeInv, NEW u \in Users, NEW step, GetAllData(u, Run(step)),
         step = "clean" => table'[u].rows = 0,
         \A v \in Users \ {u} : table'[v].rows = table[v].rows
  PROVE  FreshStep(u)
<1>1. CASE online[u]
  <2>1. /\ then'[u].step = step /\ seen'[u] = NoHouses
        /\ \A v \in Users \ {u} :
             phase'[v] = phase[v] /\ then'[v] = then[v] /\ seen'[v] = seen[v]
    BY <1>1 DEF GetAllData, Run, TypeInv, CleaningTypeOK, DeviceTypeOK
  <2> QED
    BY <2>1 DEF FreshStep, NoHouses
<1>2. CASE ~online[u]
  <2>1. /\ phase'[u] = "ready" /\ seen' = seen
        /\ \A v \in Users \ {u} : phase'[v] = phase[v] /\ then'[v] = then[v]
    BY <1>2 DEF GetAllData, TypeInv, CleaningTypeOK, DeviceTypeOK
  <2> QED
    BY <2>1 DEF FreshStep, TypeInv, Fresh
<1> QED
  BY <1>1, <1>2

LEMMA StillFresh ==
  ASSUME TypeInv, NEW u \in Users, UNCHANGED <<then, seen>>,
         \A v \in Users : table'[v].rows = table[v].rows,
         \A v \in Users \ {u} : phase'[v] = phase[v],
         phase'[u] \in {phase[u], "alert"}
  PROVE  FreshStep(u)
BY DEF FreshStep, TypeInv, Fresh

\* Home next to the tab.
LEMMA HomeFresh ==
  ASSUME TypeInv, NEW u \in Users,
         Background(u) \/ HomeHandlers(u) \/ HomeTaps(u) \/ Lifecycle(u),
         IF Running(u) /\ ~Running(u)' THEN ForgetTab(u) ELSE UNCHANGED <<table, canCreate, draft, top>>
  PROVE  FreshStep(u)
<1>1. /\ ForgetTab(u) \/ UNCHANGED table
      /\ \A v \in Users \ {u} : table'[v].rows = table[v].rows
      /\ table'[u].rows \in {0, table[u].rows}
  BY DEF ForgetTab, NewTable, TypeInv, CleaningTypeOK
<1>2. ASSUME UNCHANGED <<phase, then, seen>> PROVE FreshStep(u)
  BY <1>1, <1>2 DEF FreshStep, TypeInv, Fresh
<1>3. CASE ApplyPut(u) \/ ServeUsers(u) \/ LoseConnection(u) \/ RegainConnection(u)
  BY <1>2, <1>3 DEF ApplyPut, ServeUsers, LoseConnection, RegainConnection, memory
<1>4. CASE ServeHouses(u)
  <2>. DEFINE hs == Answer(u).houses
  <2>1. CASE Crash(u)
    BY <1>1, <2>1, StopFresh DEF Crash
  <2>2. CASE ~Crash(u)
    <3>1. /\ Parsable(hs) /\ then' = then
          /\ seen' = [seen EXCEPT ![u] = ParsedHouses(hs)]
          /\ phase' = [phase EXCEPT ![u] = IF hs = NoHouses THEN "frozen" ELSE @]
      BY <1>4, <2>2 DEF ServeHouses
    <3>2. hs \in [Houses -> HouseNode]
      BY AnswerTyped DEF TypeInv, CleaningTypeOK
    <3>. HIDE DEF hs
    <3>3. \A h \in Houses : ParsedHouses(hs)[h] # NoHouse => ParsedHouses(hs)[h].firstWeek \in Int
      BY <3>1, <3>2, ReadHaveWeeks
    <3>4. seen'[u] = ParsedHouses(hs) /\ phase'[u] \in {phase[u], "frozen"}
      BY <3>1 DEF TypeInv, CleaningTypeOK, DeviceTypeOK
    <3>5. \A v \in Users \ {u} : phase'[v] = phase[v] /\ then'[v] = then[v] /\ seen'[v] = seen[v]
      BY <3>1 DEF TypeInv, CleaningTypeOK, DeviceTypeOK
    <3>6. phase'[u] = "loading" /\ then'[u].step = "clean" => table'[u].rows = 0
      BY <1>1, <3>1, <3>4 DEF TypeInv, Fresh
    <3> QED
      BY <1>1, <3>3, <3>4, <3>5, <3>6 DEF FreshStep
  <2> QED
    BY <2>1, <2>2
<1>5. CASE HomeHandlers(u)
  <2>1. HandlerEnds(u) \/ HandlerRestarts(u)
    BY <1>5, HomeHandlersDo DEF TypeInv, CleaningTypeOK, HomeTypeOK
  <2>2. CASE Crash(u)
    BY <1>1, <2>2, StopFresh DEF Crash
  <2>3. CASE Rest(u)
    BY <1>1, <2>3, RestFresh
  <2>4. CASE HandlerRestarts(u)
    <3>1. PICK next \in {"checkWeek", "show"} : GetAllData(u, Run(next))
      BY <2>4 DEF HandlerRestarts, RestartSchedule
    <3>2. next # "clean"
      BY <3>1
    <3> QED
      BY <1>1, <3>1, <3>2, LoadFresh
  <2> QED
    BY <2>1, <2>2, <2>3, <2>4 DEF HandlerEnds
<1>6. CASE Refresh(u) \/ Launch(u)
  <2>1. GetAllData(u, Run("appear")) /\ "appear" # "clean"
    BY <1>6 DEF Refresh, Launch
  <2> QED
    BY <1>1, <2>1, LoadFresh
<1>7. CASE Quit(u)
  BY <1>1, <1>7, StopFresh DEF Quit
<1>8. CASE DinnerSwitch(u)
  <2>1. CASE Crash(u)
    BY <1>1, <2>1, StopFresh DEF Crash
  <2>2. CASE ~Crash(u)
    BY <1>2, <1>8, <2>2 DEF DinnerSwitch, memory
  <2> QED
    BY <2>1, <2>2
<1> QED
  BY <1>3, <1>4, <1>5, <1>6, <1>7, <1>8 DEF Background, HomeTaps, Lifecycle

\* The tab's own steps.
LEMMA TabFresh ==
  ASSUME TypeInv, NEW u \in Users,
         \/ CleanShown(u) \/ SaveSchedule(u)
         \/ SegmentTapped(u) \/ PushSchedule(u) \/ plusButtonTapped(u) \/ DeleteTask(u)
         \/ Scheduled(u) \/ Okay(u) \/ Back(u) \/ TabToClean(u) \/ TabToHome(u)
  PROVE  FreshStep(u)
<1>1. CASE Trap(u)
  BY <1>1, StopFresh DEF Trap, Crash
<1>2. CASE CleanShown(u) /\ ~Trap(u)
  <2>1. Rest(u) /\ \A v \in Users \ {u} : table'[v].rows = table[v].rows
    BY <1>2 DEF CleanShown, CleanFilled, TypeInv, CleaningTypeOK
  <2> QED
    BY <2>1, RestFresh
<1>3. CASE (SaveSchedule(u) /\ ~Trap(u)) \/ TabToHome(u)
  <2>1. \E step \in {"scheduled", "appear"} : GetAllData(u, Run(step))
    BY <1>3 DEF SaveSchedule, TabToHome
  <2>2. UNCHANGED table
    BY <1>3 DEF SaveSchedule, TabToHome
  <2>3. PICK step \in {"scheduled", "appear"} : GetAllData(u, Run(step))
    BY <2>1
  <2>4. step # "clean"
    BY <2>3
  <2> QED
    BY <2>2, <2>3, <2>4, LoadFresh
<1>4. ASSUME CleanAppears(u) PROVE FreshStep(u)
  <2>1. table'[u].rows = 0 /\ \A v \in Users \ {u} : table'[v].rows = table[v].rows
    BY <1>4 DEF CleanAppears, TypeInv, CleaningTypeOK
  <2>2. GetAllData(u, Run("clean"))
    BY <1>4 DEF CleanAppears
  <2> QED
    BY <2>1, <2>2, LoadFresh
<1>5. CASE \/ SegmentTapped(u) \/ plusButtonTapped(u) \/ DeleteTask(u)
           \/ PushSchedule(u) \/ (TabToClean(u) /\ ~CleanAppears(u))
  <2>1. \A v \in Users : table'[v].rows = table[v].rows
    <3>1. CASE SegmentTapped(u)
      BY <3>1 DEF SegmentTapped, TypeInv, CleaningTypeOK
    <3>2. CASE UNCHANGED table
      BY <3>2
    <3> QED
      BY <1>5, <3>1, <3>2 DEF plusButtonTapped, DeleteTask, PushSchedule, TabToClean
  <2>2. UNCHANGED <<phase, then, seen>>
    BY <1>5
    DEF SegmentTapped, plusButtonTapped, DeleteTask, PushSchedule, TabToClean, homeVars, deviceVars,
        memory
  <2> QED
    BY <2>1, <2>2, StillFresh
<1>6. CASE Scheduled(u)
  <2>1. /\ UNCHANGED <<then, seen, table>>
        /\ phase'[u] = "alert" /\ \A v \in Users \ {u} : phase'[v] = phase[v]
    BY <1>6 DEF Scheduled, memory, TypeInv, CleaningTypeOK, DeviceTypeOK
  <2> QED
    BY <2>1, StillFresh
<1> QED
  BY <1>1, <1>2, <1>3, <1>4, <1>5, <1>6 DEF Okay, Back, TabToClean

LEMMA FreshKept ==
  ASSUME TypeInv, [CleaningNext]_cleaningVars
  PROVE  TypeInv'
<1>1. CASE UNCHANGED cleaningVars
  <2>1. UNCHANGED <<users, houses, uplink, online, phase, screen, then, asked, me, known, seen,
                    residents, week, label, table, canCreate, draft, top>>
    BY <1>1 DEF cleaningVars, homeVars, deviceVars
  <2>2. CleaningTypeOK'
    BY <2>1 DEF TypeInv, CleaningTypeOK, DeviceTypeOK, LabelTypeOK
  <2> QED
    BY <2>1, <2>2 DEF TypeInv, Fresh
<1>2. CASE CleaningNext
  <2>1. CleaningTypeOK'
    BY <1>2, CleaningTyped
  <2>2. CASE Calendar
    <3>1. UNCHANGED <<phase, then, seen, table>>
      BY <2>2 DEF Calendar, HomeCalendar, NewWeek, memory
    <3> QED
      BY <2>1, <3>1 DEF TypeInv, Fresh
  <2>3. ASSUME NEW u \in Users, Serve(u) \/ Handle(u) \/ Tap(u)
        PROVE  TypeInv'
    <3>1. FreshStep(u)
      BY <2>3, HomeFresh, TabFresh DEF Serve, Handle, Tap, WithTab
    <3>2. ASSUME NEW v \in Users PROVE Fresh(v)'
      <4>1. CASE v = u
        BY <3>1, <4>1 DEF FreshStep, Fresh
      <4>2. CASE v # u
        BY <3>1, <4>2 DEF FreshStep, Fresh, TypeInv
      <4> QED
        BY <4>1, <4>2
    <3> QED
      BY <2>1, <3>2 DEF TypeInv
  <2> QED
    BY <1>2, <2>2, <2>3 DEF CleaningNext
<1> QED
  BY <1>1, <1>2


-----------------------------------------------------------------------------
(* The schedules.  First the queues of writes.                             *)

LEMMA LineConcat ==
  ASSUME NEW home, NEW s \in Seq(Puts), NEW t \in Seq(Puts), Line(home, s), Line(home, t)
  PROVE  Line(home, s \o t)
<1>. DEFINE st == s \o t
<1>1. /\ Len(st) = Len(s) + Len(t) /\ Len(s) \in Nat /\ Len(t) \in Nat
      /\ \A i \in 1 .. Len(s) : st[i] = s[i]
      /\ \A i \in 1 .. Len(t) : st[Len(s) + i] = t[i]
  <2>1. Len(s) \in Nat /\ Len(t) \in Nat /\ Len(st) = Len(s) + Len(t)
    OBVIOUS
  <2>2. \A i \in 1 .. Len(s) : st[i] = s[i]
    OBVIOUS
  <2>3. \A i \in 1 .. Len(t) : st[Len(s) + i] = t[i]
    OBVIOUS
  <2> QED
    BY <2>1, <2>2, <2>3
<1>. HIDE DEF st
<1>2. ASSUME NEW i \in 1 .. Len(st)
      PROVE  /\ st[i].path \in {"users/dinner", "houses/tasks", "houses/tasks/task", "houses/firstWeek"}
             /\ st[i].path # "users/dinner" => st[i].house = home
             /\ st[i].path = "houses/firstWeek" => st[i].count = getCurrentWeek
             /\ st[i].path = "houses/tasks" =>
                  i < Len(st) /\ st[i + 1].path = "houses/tasks/task" /\ st[i + 1].house = home
  <2>1. CASE i \in 1 .. Len(s)
    <3>1. st[i] = s[i] /\ (i < Len(s) => i + 1 \in 1 .. Len(s) /\ st[i + 1] = s[i + 1])
      BY <1>1, <2>1
    <3> QED
      BY <1>1, <2>1, <3>1 DEF Line
  <2>2. CASE i \notin 1 .. Len(s)
    <3>1. PICK j \in 1 .. Len(t) : i = Len(s) + j
      <4>1. i - Len(s) \in 1 .. Len(t) /\ i = Len(s) + (i - Len(s))
        BY <1>1, <1>2, <2>2
      <4> QED
        BY <4>1
    <3>2. /\ st[i] = t[j]
          /\ j < Len(t) => /\ j + 1 \in 1 .. Len(t) /\ i + 1 = Len(s) + (j + 1)
                           /\ st[i + 1] = t[j + 1]
      BY <1>1, <3>1
    <3> QED
      BY <1>1, <3>1, <3>2 DEF Line
  <2> QED
    BY <2>1, <2>2
<1> QED
  BY <1>2 DEF Line, st

LEMMA LineTail ==
  ASSUME NEW home, NEW s \in Seq(Puts), s # << >>, Line(home, s)
  PROVE  Line(home, Tail(s))
<1>. DEFINE t == Tail(s)
<1>1. Len(s) \in Nat /\ Len(t) = Len(s) - 1 /\ \A i \in 1 .. Len(t) : t[i] = s[i + 1]
  OBVIOUS
<1>. HIDE DEF t
<1>2. ASSUME NEW i \in 1 .. Len(t)
      PROVE  /\ t[i].path \in {"users/dinner", "houses/tasks", "houses/tasks/task", "houses/firstWeek"}
             /\ t[i].path # "users/dinner" => t[i].house = home
             /\ t[i].path = "houses/firstWeek" => t[i].count = getCurrentWeek
             /\ t[i].path = "houses/tasks" =>
                  i < Len(t) /\ t[i + 1].path = "houses/tasks/task" /\ t[i + 1].house = home
  <2>1. i + 1 \in 1 .. Len(s) /\ t[i] = s[i + 1]
    BY <1>1
  <2>2. i + 1 < Len(s) => i < Len(t) /\ i + 1 \in 1 .. Len(t) /\ t[i + 1] = s[(i + 1) + 1]
    BY <1>1
  <2> QED
    BY <2>1, <2>2 DEF Line
<1> QED
  BY <1>2 DEF Line, t

\* One write to restart a schedule or of the dinner switch, and those of a save.
LEMMA LineOfOne ==
  ASSUME NEW home, NEW p,
         \/ p.path = "users/dinner"
         \/ p.path = "houses/firstWeek" /\ p.house = home /\ p.count = getCurrentWeek
  PROVE  Line(home, <<p>>)
<1>1. Len(<<p>>) = 1 /\ <<p>>[1] = p
  OBVIOUS
<1> QED
  BY <1>1 DEF Line

LEMMA LineOfSave ==
  ASSUME CleaningTypeOK, NEW u \in Users, NEW h \in Houses, draft[u] # << >>
  PROVE  /\ Line(h, SchedulePuts(h, draft[u]))
         /\ HasWeek(SchedulePuts(h, draft[u]))
<1>. DEFINE n == Len(draft[u])
            s == SchedulePuts(h, draft[u])
            adds == AddTasks(h, draft[u])
            first == RemoveTasks(h)
            final == SetFirstWeek(h, getCurrentWeek)
<1>1. draft[u] \in Seq(Tasks)
  BY DEF CleaningTypeOK
<1>2. n \in Nat /\ n > 0
  BY <1>1
<1>3. adds \in Seq(Puts) /\ Len(adds) = n /\ \A i \in 1 .. n : adds[i] = AddTask(h, draft[u][i])
  <2>1. \A i \in 1 .. n : AddTask(h, draft[u][i]) \in Puts
    BY <1>1 DEF AddTask, Puts
  <2> QED
    BY <1>2, <2>1 DEF AddTasks
<1>4. /\ \A i \in 1 .. n : adds[i].path = "houses/tasks/task" /\ adds[i].house = h
      /\ first.path = "houses/tasks" /\ first.house = h
      /\ final.path = "houses/firstWeek" /\ final.house = h /\ final.count = getCurrentWeek
  <2>1. \A t : AddTask(h, t).path = "houses/tasks/task" /\ AddTask(h, t).house = h
    BY DEF AddTask
  <2>2. \A i \in 1 .. n : adds[i].path = "houses/tasks/task" /\ adds[i].house = h
    BY <1>3, <2>1
  <2>3. first.path = "houses/tasks" /\ first.house = h
    BY DEF RemoveTasks
  <2>4. final.path = "houses/firstWeek" /\ final.house = h /\ final.count = getCurrentWeek
    BY DEF SetFirstWeek
  <2> QED
    BY <2>2, <2>3, <2>4
<1>5. first \in Puts /\ final \in Puts
  <2>1. getCurrentWeek \in Int
    BY DeviceAssumption DEF getCurrentWeek, CleaningTypeOK, DeviceTypeOK
  <2> QED
    BY <2>1 DEF RemoveTasks, SetFirstWeek, Puts
<1>6. s = <<first>> \o adds \o <<final>>
  BY DEF SchedulePuts
<1>. HIDE DEF s, adds, first, final
<1>7. /\ Len(s) = n + 2 /\ s[1] = first /\ s[n + 2] = final
      /\ \A i \in 1 .. n : s[i + 1] = adds[i]
  BY <1>2, <1>3, <1>5, <1>6
<1>8. ASSUME NEW i \in 1 .. Len(s)
      PROVE  /\ s[i].path \in {"users/dinner", "houses/tasks", "houses/tasks/task", "houses/firstWeek"}
             /\ s[i].path # "users/dinner" => s[i].house = h
             /\ s[i].path = "houses/firstWeek" => s[i].count = getCurrentWeek
             /\ s[i].path = "houses/tasks" =>
                  i < Len(s) /\ s[i + 1].path = "houses/tasks/task" /\ s[i + 1].house = h
  <2>1. CASE i = 1
    <3>1. s[i + 1] = adds[1] /\ i < Len(s)
      BY <1>2, <1>7, <2>1
    <3> QED
      BY <1>2, <1>4, <1>7, <2>1, <3>1
  <2>2. CASE i = n + 2
    BY <1>2, <1>4, <1>7, <2>2
  <2>3. CASE i # 1 /\ i # n + 2
    <3>1. i - 1 \in 1 .. n /\ s[i] = adds[i - 1]
      <4>1. i - 1 \in 1 .. n /\ i = (i - 1) + 1
        BY <1>2, <1>7, <1>8, <2>3
      <4> QED
        BY <1>7, <4>1
    <3> QED
      BY <1>4, <3>1
  <2> QED
    BY <2>1, <2>2, <2>3
<1>9. HasWeek(s)
  <2>1. n + 2 \in 1 .. Len(s) /\ s[n + 2].path = "houses/firstWeek"
    BY <1>2, <1>4, <1>7
  <2> QED
    BY <2>1 DEF HasWeek
<1> QED
  BY <1>8, <1>9 DEF Line, s


-----------------------------------------------------------------------------
(* The phones.  A step of one phone that is not an answer or a delivery    *)
(* leaves it outside of loads or begins one.                               *)

OthersKept(u) ==
  \A v \in Users \ {u} :
    /\ uplink'[v] = uplink[v] /\ online'[v] = online[v] /\ phase'[v] = phase[v]
    /\ then'[v] = then[v] /\ asked'[v] = asked[v] /\ me'[v] = me[v]
    /\ seen'[v] = seen[v] /\ residents'[v] = residents[v] /\ label'[v] = label[v]
    /\ table'[v].rows = table[v].rows

\* What one phone's step may do to houses/ as seen from another.
HousesKept ==
  \A h \in Houses :
    /\ houses'[h] # NoHouse <=> houses[h] # NoHouse
    /\ houses'[h].residents = houses[h].residents
    /\ houses[h].firstWeek = getCurrentWeek => houses'[h].firstWeek = getCurrentWeek

LEMMA OthersFine ==
  ASSUME CleaningInv, NEW u \in Users, OthersKept(u), HousesKept, UNCHANGED week,
         \A w \in Users : users'[w].house = users[w].house,
         NEW v \in Users \ {u}
  PROVE  Phone(v)' /\ (phase[v] = "loading" => Load(v))'
<1>1. Phone(v) /\ (phase[v] = "loading" => Load(v))
  BY DEF CleaningInv, Schedules
<1>2. /\ uplink'[v] = uplink[v] /\ online'[v] = online[v] /\ phase'[v] = phase[v]
      /\ then'[v] = then[v] /\ asked'[v] = asked[v] /\ me'[v] = me[v]
      /\ seen'[v] = seen[v] /\ residents'[v] = residents[v] /\ label'[v] = label[v]
      /\ table'[v].rows = table[v].rows
  BY DEF OthersKept
<1>3. getCurrentWeek' = getCurrentWeek
  BY DEF getCurrentWeek
<1>4. Phone(v)'
  <2>1. Line(me[v].house, uplink[v])'
    BY <1>1, <1>2, <1>3 DEF Phone, Line
  <2> QED
    BY <1>1, <1>2, <2>1 DEF Phone
<1>5. ASSUME phase'[v] = "loading" PROVE Load(v)'
  <2>1. Load(v)
    BY <1>1, <1>2, <1>5
  <2>2. me[v].house \in Houses \cup {Null}
    BY DEF CleaningInv, CleaningTypeOK, DeviceTypeOK, UserNode
  <2>3. "houses" \notin asked'[v] =>
          \A h \in Houses : houses'[h] # NoHouse => Sound(seen[v][h], h)'
    BY <1>2, <2>1 DEF Load, HousesKept, Sound
  <2>4. HasWeek(uplink[v])' <=> HasWeek(uplink[v])
    BY <1>2 DEF HasWeek
  <2> QED
    BY <1>2, <1>3, <2>1, <2>2, <2>3, <2>4 DEF Load, HousesKept
<1> QED
  BY <1>4, <1>5

HeadKept(u) ==
  uplink[u] # << >> /\ Head(uplink[u]).path = "houses/tasks/task" =>
    uplink'[u] # << >> /\ Head(uplink'[u]) = Head(uplink[u])

Settles(u) ==
  /\ phase'[u] # "loading"
  /\ phase'[u] \in {"off", "crashed"} => uplink'[u] = << >>
  /\ asked'[u] # {} => phase'[u] = "frozen"
  /\ me'[u].house \in {Null, users[u].house}
  /\ label'[u] \in {Null, users[u].house}
  /\ Line(me'[u].house, uplink'[u])

Begins(u) ==
  /\ phase'[u] = "loading" /\ online'[u] /\ asked'[u] = {"users", "houses"}
  /\ me'[u] = me[u] /\ label'[u] = label[u]
  /\ Line(me[u].house, uplink'[u])
  /\ then'[u].step \in {"checkWeek", "show", "scheduled"} =>
       me[u].house # Null /\ HasWeek(uplink'[u])
  /\ then'[u].step = "clean" => table'[u].rows = 0

\* Nobody moves and no house changes.
HomesKept ==
  UNCHANGED <<houses, week>> /\ \A w \in Users : users'[w].house = users[w].house

PhoneStep(u) ==
  /\ OthersKept(u) /\ HeadKept(u) /\ HomesKept
  /\ Settles(u) \/ Begins(u)

LEMMA OnePhoneKeeps ==
  ASSUME CleaningInv, NEW u \in Users, OthersKept(u), HeadKept(u), HomesKept,
         (Phone(u) /\ (phase[u] = "loading" => Load(u)))'
  PROVE  Schedules'
<1>1. /\ UNCHANGED <<houses, week>> /\ getCurrentWeek' = getCurrentWeek
      /\ \A w \in Users : users'[w].house = users[w].house
  BY DEF HomesKept, getCurrentWeek
<1>2. Tree'
  <2>1. \A h \in Houses : Sound(houses[h], h)' <=> Sound(houses[h], h)
    BY <1>1 DEF Sound
  <2> QED
    BY <1>1, <2>1 DEF CleaningInv, Schedules, Tree
<1>3. Halves'
  <2>1. ASSUME NEW h \in Houses, houses[h] # NoHouse, houses[h].tasks = {}
        PROVE  \E v \in Users : /\ uplink'[v] # << >>
                                /\ Head(uplink'[v]).path = "houses/tasks/task"
                                /\ Head(uplink'[v]).house = h
    <3>1. PICK v \in Users : /\ uplink[v] # << >>
                             /\ Head(uplink[v]).path = "houses/tasks/task"
                             /\ Head(uplink[v]).house = h
      BY <2>1 DEF CleaningInv, Schedules, Halves
    <3>2. CASE v = u
      BY <3>1, <3>2 DEF HeadKept
    <3>3. CASE v # u
      BY <3>1, <3>3 DEF OthersKept
    <3> QED
      BY <3>2, <3>3
  <2> QED
    BY <1>1, <2>1 DEF Halves
<1>4. HousesKept
  BY <1>1 DEF HousesKept
<1>5. ASSUME NEW v \in Users \ {u} PROVE Phone(v)' /\ (phase[v] = "loading" => Load(v))'
  BY <1>1, <1>4, OthersFine
<1> QED
  BY <1>2, <1>3, <1>5 DEF Schedules

LEMMA PhoneStepKeeps ==
  ASSUME CleaningInv, NEW u \in Users, PhoneStep(u)
  PROVE  Schedules'
<1>1. /\ UNCHANGED <<houses, week>> /\ getCurrentWeek' = getCurrentWeek
      /\ \A w \in Users : users'[w].house = users[w].house
  BY DEF PhoneStep, HomesKept, getCurrentWeek
<1>2. Line(me[u].house, uplink[u])' <=> Line(me'[u].house, uplink'[u])
  BY <1>1 DEF Line
<1>3. Phone(u)' /\ (phase[u] = "loading" => Load(u))'
  <2>1. CASE Settles(u)
    BY <1>1, <1>2, <2>1 DEF Settles, Phone
  <2>2. CASE Begins(u)
    <3>1. Phone(u)'
      BY <1>1, <1>2, <2>2 DEF Begins, Phone, CleaningInv, Schedules
    <3>2. Load(u)'
      BY <1>1, <2>2 DEF Begins, Load, HasWeek
    <3> QED
      BY <3>1, <3>2
  <2> QED
    BY <2>1, <2>2 DEF PhoneStep, HomesKept
<1> QED
  BY <1>3, OnePhoneKeeps DEF PhoneStep, HomesKept


\* What the steps are made of.
LEMMA StopSettles ==
  ASSUME CleaningInv, NEW u \in Users, NEW how \in {"off", "crashed"}, Stop(u, how), LabelLost(u)
  PROVE  Settles(u)
<1>1. /\ phase'[u] = how /\ uplink'[u] = << >> /\ asked'[u] = {} /\ me'[u] = NoUser
      /\ label'[u] = Null
  BY DEF Stop, LabelLost, CleaningInv, CleaningTypeOK, DeviceTypeOK, LabelTypeOK
<1>2. Line(me'[u].house, uplink'[u])
  BY <1>1 DEF Line
<1> QED
  BY <1>1, <1>2 DEF Settles, NoUser

LEMMA RestSettles ==
  ASSUME CleaningInv, NEW u \in Users, Rest(u), asked[u] = {}, UNCHANGED me,
         label'[u] \in {Null, users[u].house}
  PROVE  Settles(u) /\ HeadKept(u)
<1>1. phase'[u] = "ready" /\ uplink'[u] = uplink[u] /\ asked'[u] = {} /\ me'[u] = me[u]
  BY DEF Rest, CleaningInv, CleaningTypeOK, DeviceTypeOK
<1>2. Line(me[u].house, uplink[u]) /\ me[u].house \in {Null, users[u].house}
  BY DEF CleaningInv, Schedules, Phone
<1> QED
  BY <1>1, <1>2 DEF Settles, HeadKept

LEMMA LoadBegins ==
  ASSUME CleaningInv, NEW u \in Users, NEW step \in Steps, asked[u] = {},
         GetAllData(u, Run(step)), UNCHANGED <<online, me, label>>,
         Line(me[u].house, uplink'[u]),
         step \in {"checkWeek", "show", "scheduled"} => me[u].house # Null /\ HasWeek(uplink'[u]),
         step = "clean" => table'[u].rows = 0
  PROVE  Settles(u) \/ Begins(u)
<1>1. me[u].house \in {Null, users[u].house} /\ label[u] \in {Null, users[u].house}
  BY DEF CleaningInv, Schedules, Phone
<1>2. CASE online[u]
  <2>1. /\ phase'[u] = "loading" /\ asked'[u] = {"users", "houses"} /\ then'[u].step = step
    BY <1>2 DEF GetAllData, Run, CleaningInv, CleaningTypeOK, DeviceTypeOK
  <2> QED
    BY <1>2, <2>1 DEF Begins
<1>3. CASE ~online[u]
  <2>1. phase'[u] = "ready" /\ asked'[u] = {}
    BY <1>3 DEF GetAllData, CleaningInv, CleaningTypeOK, DeviceTypeOK
  <2> QED
    BY <1>1, <2>1 DEF Settles
<1> QED
  BY <1>2, <1>3

\* More writes behind what is unsent.
LEMMA LineGrows ==
  ASSUME CleaningInv, NEW u \in Users, NEW puts \in Seq(Puts), Issue(u, puts),
         Line(me[u].house, puts)
  PROVE  /\ Line(me[u].house, uplink'[u])
         /\ HasWeek(puts) => HasWeek(uplink'[u])
         /\ HeadKept(u)
         /\ \A v \in Users \ {u} : uplink'[v] = uplink[v]
<1>1. uplink[u] \in Seq(Puts) /\ uplink \in [Users -> Seq(Puts)]
  BY DEF CleaningInv, CleaningTypeOK, DeviceTypeOK
<1>2. uplink'[u] = uplink[u] \o puts /\ \A v \in Users \ {u} : uplink'[v] = uplink[v]
  BY <1>1 DEF Issue
<1>3. Line(me[u].house, uplink'[u])
  BY <1>1, <1>2, LineConcat DEF CleaningInv, Schedules, Phone
<1>4. HasWeek(puts) => HasWeek(uplink'[u])
  <2>1. ASSUME NEW i \in 1 .. Len(puts), puts[i].path = "houses/firstWeek"
        PROVE  HasWeek(uplink'[u])
    <3>1. /\ Len(uplink[u]) + i \in 1 .. Len(uplink[u] \o puts)
          /\ (uplink[u] \o puts)[Len(uplink[u]) + i] = puts[i]
      BY <1>1, <2>1
    <3> QED
      BY <1>2, <2>1, <3>1 DEF HasWeek
  <2> QED
    BY <2>1 DEF HasWeek
<1>5. HeadKept(u)
  <2>1. uplink[u] # << >> =>
          uplink[u] \o puts # << >> /\ Head(uplink[u] \o puts) = Head(uplink[u])
    BY <1>1
  <2> QED
    BY <1>2, <2>1 DEF HeadKept
<1> QED
  BY <1>2, <1>3, <1>4, <1>5

\* A trap or an end loses no task: nothing of the house is on its way.
LEMMA EndKeeps ==
  ASSUME CleaningInv, NEW u \in Users, NEW how \in {"off", "crashed"}, Stop(u, how), LabelLost(u),
         ForgetTab(u) \/ UNCHANGED table,
         uplink[u] = << >> \/ me[u].house = Null,
         HomesKept, UNCHANGED online
  PROVE  PhoneStep(u)
<1>1. Settles(u)
  BY StopSettles
<1>2. HeadKept(u)
  <2>1. CASE uplink[u] = << >>
    BY <2>1 DEF HeadKept
  <2>2. CASE uplink[u] # << >> /\ me[u].house = Null
    <3>1. uplink[u] \in Seq(Puts) /\ Head(uplink[u]) = uplink[u][1] /\ 1 \in 1 .. Len(uplink[u])
      BY <2>2 DEF CleaningInv, CleaningTypeOK, DeviceTypeOK
    <3>2. uplink[u][1] \in Puts
      BY <3>1
    <3>3. uplink[u][1].path = "houses/tasks/task" => uplink[u][1].house = Null
      BY <2>2, <3>1 DEF CleaningInv, Schedules, Phone, Line
    <3>4. uplink[u][1].path = "houses/tasks/task" => uplink[u][1].house \in Houses
      BY <3>2 DEF Puts
    <3> QED
      BY <3>1, <3>3, <3>4, NamesAssumption DEF HeadKept
  <2> QED
    BY <2>1, <2>2
<1>3. OthersKept(u)
  <2>1. \A v \in Users \ {u} : table'[v].rows = table[v].rows
    BY DEF ForgetTab, CleaningInv, CleaningTypeOK
  <2> QED
    BY <2>1 DEF OthersKept, Stop, LabelLost, CleaningInv, CleaningTypeOK, DeviceTypeOK, LabelTypeOK
<1> QED
  BY <1>1, <1>2, <1>3 DEF PhoneStep, HomesKept


-----------------------------------------------------------------------------
(* The steps of the phones.                                                *)

\* Home's handlers, next to the tab.
LEMMA HandlersKeep ==
  ASSUME CleaningInv, NEW u \in Users, HomeHandlers(u),
         ForgetTab(u) \/ UNCHANGED table
  PROVE  PhoneStep(u)
<1>1. HomeTypeOK /\ me[u].house \in {Null, users[u].house} /\ label[u] \in {Null, users[u].house}
  BY DEF CleaningInv, CleaningTypeOK, HomeTypeOK, Schedules, Phone
<1>2. /\ phase[u] = "loading" /\ asked[u] = {}
      /\ UNCHANGED <<users, houses, online, week>>
      /\ HandlerEnds(u) \/ HandlerRestarts(u)
  BY <1>1, HomeHandlersDo
<1>3. uplink[u] = << >>
  BY <1>2 DEF CleaningInv, Schedules, Load
<1>4. \A v \in Users \ {u} : table'[v].rows = table[v].rows
  BY DEF ForgetTab, CleaningInv, CleaningTypeOK
<1>5. CASE HandlerEnds(u) /\ Rest(u) /\ UNCHANGED me
  <2>1. /\ label'[u] \in {Null, users[u].house}
        /\ \A v \in Users \ {u} : label'[v] = label[v]
    BY <1>1, <1>5, NamesAssumption DEF HandlerEnds, LabelLost, HomeTypeOK, LabelTypeOK
  <2>2. Settles(u) /\ HeadKept(u)
    BY <1>2, <1>5, <2>1, RestSettles
  <2>3. OthersKept(u)
    BY <1>2, <1>4, <1>5, <2>1 DEF OthersKept, Rest, HomeTypeOK, DeviceTypeOK
  <2> QED
    BY <1>2, <2>2, <2>3 DEF PhoneStep, HomesKept
<1>6. CASE HandlerEnds(u) /\ Crash(u)
  <2>1. /\ label'[u] \in {Null, users[u].house}
        /\ \A v \in Users \ {u} : label'[v] = label[v]
    BY <1>1, <1>6, NamesAssumption DEF HandlerEnds, LabelLost, HomeTypeOK, LabelTypeOK
  <2>2. /\ phase'[u] = "crashed" /\ uplink'[u] = << >> /\ asked'[u] = {} /\ me'[u] = NoUser
    BY <1>1, <1>6 DEF Crash, Stop, HomeTypeOK, DeviceTypeOK
  <2>3. Settles(u)
    BY <2>1, <2>2 DEF Settles, NoUser, Line
  <2>4. OthersKept(u)
    BY <1>1, <1>2, <1>4, <1>6, <2>1 DEF OthersKept, Crash, Stop, HomeTypeOK, DeviceTypeOK
  <2> QED
    BY <1>2, <1>3, <2>3, <2>4 DEF PhoneStep, HomesKept, HeadKept
<1>7. CASE HandlerRestarts(u)
  <2>1. PICK next \in {"checkWeek", "show"} : RestartSchedule(u, me[u].house, next)
    BY <1>7 DEF HandlerRestarts
  <2>2. me[u].house \in Houses /\ next \in Steps /\ next # "clean" /\ me[u].house # Null
    BY <1>7, NamesAssumption DEF HandlerRestarts, Steps
  <2>. DEFINE p == SetFirstWeek(me[u].house, getCurrentWeek)
  <2>3. <<p>> \in Seq(Puts)
    BY <1>1, <2>2, HomePutsTyped DEF HomeTypeOK
  <2>4. p.path = "houses/firstWeek" /\ p.house = me[u].house /\ p.count = getCurrentWeek
    BY DEF SetFirstWeek
  <2>5. Issue(u, <<p>>) /\ GetAllData(u, Run(next)) /\ UNCHANGED <<screen, me, residents, label>>
    BY <2>1 DEF RestartSchedule
  <2>. HIDE DEF p
  <2>6. Line(me[u].house, <<p>>)
    BY <2>4, LineOfOne
  <2>7. HasWeek(<<p>>)
    <3>1. Len(<<p>>) = 1 /\ <<p>>[1] = p
      OBVIOUS
    <3> QED
      BY <2>4, <3>1 DEF HasWeek
  <2>8. /\ Line(me[u].house, uplink'[u]) /\ HasWeek(uplink'[u]) /\ HeadKept(u)
        /\ \A v \in Users \ {u} : uplink'[v] = uplink[v]
    BY <2>3, <2>5, <2>6, <2>7, LineGrows
  <2>9. Settles(u) \/ Begins(u)
    BY <1>2, <2>2, <2>5, <2>8, LoadBegins
  <2>10. OthersKept(u)
    BY <1>1, <1>2, <1>4, <2>5, <2>8 DEF OthersKept, GetAllData, HomeTypeOK, DeviceTypeOK
  <2> QED
    BY <1>2, <2>8, <2>9, <2>10 DEF PhoneStep, HomesKept
<1> QED
  BY <1>2, <1>5, <1>6, <1>7 DEF HandlerEnds

\* A screen that appears with a load but no write.
LEMMA AppearsKeeps ==
  ASSUME CleaningInv, NEW u \in Users, NEW step \in {"appear", "clean"}, asked[u] = {},
         GetAllData(u, Run(step)),
         UNCHANGED <<users, houses, uplink, online, me, residents, week, label>>,
         step = "clean" => table'[u].rows = 0,
         \A v \in Users \ {u} : table'[v].rows = table[v].rows
  PROVE  PhoneStep(u)
<1>1. Line(me[u].house, uplink'[u]) /\ HeadKept(u)
  BY DEF CleaningInv, Schedules, Phone, HeadKept
<1>2. Settles(u) \/ Begins(u)
  <2>1. step \in Steps
    BY DEF Steps
  <2> QED
    BY <1>1, <2>1, LoadBegins
<1>3. OthersKept(u)
  BY DEF OthersKept, GetAllData, CleaningInv, CleaningTypeOK, DeviceTypeOK
<1> QED
  BY <1>1, <1>2, <1>3 DEF PhoneStep, HomesKept

\* A step outside of loads that changes neither memory nor label.
LEMMA StillKeeps ==
  ASSUME CleaningInv, NEW u \in Users, phase[u] # "loading",
         UNCHANGED <<users, houses, uplink, phase, then, asked, me, seen, residents, week, label>>,
         \A v \in Users \ {u} : table'[v].rows = table[v].rows /\ online'[v] = online[v]
  PROVE  PhoneStep(u)
BY DEF PhoneStep, HomesKept, Settles, OthersKept, HeadKept, CleaningInv, Schedules, Phone

\* The taps of Home, and the launch, the end and the connection of the app.
LEMMA HomeTapsKeep ==
  ASSUME CleaningInv, Killable = {}, NEW u \in Users, HomeTaps(u) \/ Lifecycle(u),
         ForgetTab(u) \/ UNCHANGED table
  PROVE  PhoneStep(u)
<1>1. \A v \in Users \ {u} : table'[v].rows = table[v].rows
  BY DEF ForgetTab, CleaningInv, CleaningTypeOK
<1>2. Phone(u)
  BY DEF CleaningInv, Schedules
<1>3. CASE Refresh(u)
  BY <1>1, <1>2, <1>3, AppearsKeeps DEF Refresh, Ready, Phone, database
<1>4. CASE Launch(u) /\ UNCHANGED label
  BY <1>1, <1>2, <1>4, AppearsKeeps DEF Launch, Running, Phone, database
<1>5. CASE Quit(u) /\ LabelLost(u)
  BY <1>5, EndKeeps DEF Quit, HomesKept, database
<1>6. CASE DinnerSwitch(u) /\ ~known[u]
  <2>1. PICK on \in BOOLEAN :
          LastWrite(u, SetDinner(u, on)) /\ Stop(u, "crashed") /\ LabelLost(u)
    BY <1>6 DEF DinnerSwitch, Crash, LabelLost
  <2>2. DeviceTypeOK
    BY DEF CleaningInv, CleaningTypeOK
  <2>3. UNCHANGED houses /\ \A w \in Users : users'[w].house = users[w].house
    BY <2>1, <2>2, LastWriteTyped
  <2> QED
    BY <1>6, <2>1, <2>3, EndKeeps DEF DinnerSwitch, HomesKept
<1>7. CASE DinnerSwitch(u) /\ known[u]
  <2>1. PICK on \in BOOLEAN : Issue(u, <<SetDinner(u, on)>>)
    BY <1>7 DEF DinnerSwitch
  <2>2. /\ phase[u] = "ready"
        /\ UNCHANGED <<users, houses, online, phase, then, asked, me, seen, residents, week, label>>
    BY <1>7 DEF DinnerSwitch, Ready, database, memory
  <2>3. <<SetDinner(u, on)>> \in Seq(Puts) /\ Line(me[u].house, <<SetDinner(u, on)>>)
    <3>1. SetDinner(u, on).path = "users/dinner" /\ SetDinner(u, on) \in Puts
      BY DEF SetDinner, Puts
    <3> QED
      BY <3>1, LineOfOne
  <2>4. /\ Line(me[u].house, uplink'[u]) /\ HeadKept(u)
        /\ \A v \in Users \ {u} : uplink'[v] = uplink[v]
    BY <2>1, <2>3, LineGrows
  <2>5. Settles(u)
    BY <1>2, <2>2, <2>4 DEF Settles, Phone
  <2> QED
    BY <1>1, <2>2, <2>4, <2>5 DEF PhoneStep, HomesKept, OthersKept
<1>8. CASE LoseConnection(u) /\ UNCHANGED label
  BY <1>1, <1>8, StillKeeps
  DEF LoseConnection, Settled, database, memory, CleaningInv, CleaningTypeOK, DeviceTypeOK
<1>9. CASE RegainConnection(u) /\ UNCHANGED label
  <2>1. phase[u] # "loading"
    BY <1>9 DEF RegainConnection, CleaningInv, Schedules, Load
  <2> QED
    BY <1>1, <1>9, <2>1, StillKeeps
    DEF RegainConnection, database, memory, CleaningInv, CleaningTypeOK, DeviceTypeOK
<1> QED
  BY <1>3, <1>4, <1>5, <1>6, <1>7, <1>8, <1>9 DEF HomeTaps, Lifecycle

\* updateUI: a trap finds no write on its way, a table changes nothing else.
LEMMA CleanShownKeeps ==
  ASSUME CleaningInv, NEW u \in Users, CleanShown(u)
  PROVE  PhoneStep(u)
<1>1. phase[u] = "loading" /\ asked[u] = {}
  BY DEF CleanShown, Loaded
<1>2. uplink[u] = << >>
  BY <1>1 DEF CleaningInv, Schedules, Load
<1>3. CASE Trap(u)
  BY <1>2, <1>3, EndKeeps DEF Trap, Crash, HomesKept, database
<1>4. CASE ~Trap(u)
  <2>1. Rest(u) /\ UNCHANGED <<users, houses, online, me, week, label>>
    BY <1>4 DEF CleanShown, CleanFilled, database
  <2>2. \A v \in Users \ {u} : table'[v].rows = table[v].rows
    BY <1>4 DEF CleanShown, CleanFilled, CleaningInv, CleaningTypeOK
  <2>3. Settles(u) /\ HeadKept(u)
    <3>1. label[u] \in {Null, users[u].house}
      BY DEF CleaningInv, Schedules, Phone
    <3> QED
      BY <1>1, <2>1, <3>1, RestSettles
  <2>4. OthersKept(u)
    BY <2>1, <2>2 DEF OthersKept, Rest, CleaningInv, CleaningTypeOK, DeviceTypeOK
  <2> QED
    BY <2>1, <2>3, <2>4 DEF PhoneStep, HomesKept
<1> QED
  BY <1>3, <1>4

\* saveButtonTapped: removal, tasks and week go into the queue together.
LEMMA SaveKeeps ==
  ASSUME CleaningInv, NEW u \in Users, SaveSchedule(u)
  PROVE  PhoneStep(u)
<1>1. phase[u] = "ready" /\ draft[u] # << >>
  BY DEF SaveSchedule, Ready
<1>2. asked[u] = {}
  BY <1>1 DEF CleaningInv, Schedules, Phone
<1>3. CASE me[u].house = Null /\ Trap(u)
  BY <1>3, EndKeeps DEF Trap, Crash, HomesKept, database
<1>4. CASE ~(me[u].house = Null /\ Trap(u))
  <2>1. /\ me[u].house # Null
        /\ Issue(u, SchedulePuts(me[u].house, draft[u]))
        /\ GetAllData(u, Run("scheduled"))
        /\ UNCHANGED <<users, houses, online, me, residents, week, label, table>>
    BY <1>4 DEF SaveSchedule, database
  <2>. DEFINE puts == SchedulePuts(me[u].house, draft[u])
  <2>2. me[u].house \in Houses
    BY <2>1 DEF CleaningInv, CleaningTypeOK, DeviceTypeOK, UserNode
  <2>3. puts \in Seq(Puts) /\ Line(me[u].house, puts) /\ HasWeek(puts)
    BY <1>1, <2>2, SaveTyped, LineOfSave DEF CleaningInv
  <2>4. Issue(u, puts)
    BY <2>1
  <2>. HIDE DEF puts
  <2>5. /\ Line(me[u].house, uplink'[u]) /\ HasWeek(uplink'[u]) /\ HeadKept(u)
        /\ \A v \in Users \ {u} : uplink'[v] = uplink[v]
    BY <2>3, <2>4, LineGrows
  <2>6. Settles(u) \/ Begins(u)
    <3>1. "scheduled" \in Steps /\ "scheduled" # "clean"
      BY DEF Steps
    <3> QED
      BY <1>2, <2>1, <2>5, <3>1, LoadBegins
  <2>7. OthersKept(u)
    BY <2>1, <2>5 DEF OthersKept, GetAllData, CleaningInv, CleaningTypeOK, DeviceTypeOK
  <2> QED
    BY <2>1, <2>5, <2>6, <2>7 DEF PhoneStep, HomesKept
<1> QED
  BY <1>3, <1>4

\* The other taps of the two screens.
LEMMA TapsKeep ==
  ASSUME CleaningInv, NEW u \in Users,
         \/ SegmentTapped(u) \/ PushSchedule(u) \/ plusButtonTapped(u) \/ DeleteTask(u)
         \/ Scheduled(u) \/ Okay(u) \/ Back(u) \/ TabToClean(u) \/ TabToHome(u)
  PROVE  PhoneStep(u)
<1>1. Phone(u)
  BY DEF CleaningInv, Schedules
<1>2. ASSUME CleanAppears(u), phase[u] \in {"ready", "alert"} PROVE PhoneStep(u)
  <2>1. asked[u] = {}
    BY <1>1, <1>2 DEF Phone
  <2>2. table'[u].rows = 0 /\ \A v \in Users \ {u} : table'[v].rows = table[v].rows
    BY <1>2 DEF CleanAppears, CleaningInv, CleaningTypeOK
  <2> QED
    BY <1>2, <2>1, <2>2, AppearsKeeps DEF CleanAppears, database
<1>3. CASE Okay(u) \/ Back(u) \/ (TabToClean(u) /\ CleanAppears(u))
  BY <1>2, <1>3 DEF Okay, Back, TabToClean, Ready
<1>4. CASE TabToHome(u)
  BY <1>1, <1>4, AppearsKeeps DEF TabToHome, Ready, Phone, database
<1>5. CASE SegmentTapped(u)
  <2>1. \A v \in Users \ {u} : table'[v].rows = table[v].rows
    BY <1>5 DEF SegmentTapped, CleaningInv, CleaningTypeOK
  <2> QED
    BY <1>5, <2>1, StillKeeps DEF SegmentTapped, Ready, homeVars, deviceVars
<1>6. CASE plusButtonTapped(u) \/ DeleteTask(u)
  BY <1>6, StillKeeps DEF plusButtonTapped, DeleteTask, Ready, homeVars, deviceVars
<1>7. CASE PushSchedule(u) \/ (TabToClean(u) /\ ~CleanAppears(u))
  BY <1>7, StillKeeps DEF PushSchedule, TabToClean, Ready, database, memory
<1>8. CASE Scheduled(u)
  <2>1. /\ phase'[u] = "alert" /\ asked[u] = {}
        /\ UNCHANGED <<users, houses, uplink, online, then, asked, me, seen, residents, week, label,
                       table>>
    BY <1>8 DEF Scheduled, Loaded, database, memory, CleaningInv, CleaningTypeOK, DeviceTypeOK
  <2>2. Settles(u) /\ HeadKept(u)
    BY <1>1, <2>1 DEF Settles, HeadKept, Phone
  <2>3. OthersKept(u)
    BY <1>8, <2>1 DEF Scheduled, OthersKept, CleaningInv, CleaningTypeOK, DeviceTypeOK
  <2> QED
    BY <2>1, <2>2, <2>3 DEF PhoneStep, HomesKept
<1> QED
  BY <1>3, <1>4, <1>5, <1>6, <1>7, <1>8

-----------------------------------------------------------------------------
(* The answers, the deliveries and the calendar.                           *)

\* The database gives the user the house it is registered to.
LEMMA UsersAnswered ==
  ASSUME CleaningInv, NEW u \in Users, u \notin Offline, ServeUsers(u), UNCHANGED <<label, table>>
  PROVE  Schedules'
<1>. DEFINE home == IF users[u].house = Null THEN me[u].house ELSE users[u].house
<1>1. Phone(u) /\ (phase[u] = "loading" => Load(u)) /\ Tree
  BY DEF CleaningInv, Schedules
<1>2. /\ "users" \in asked[u] /\ online[u] /\ uplink[u] = << >>
      /\ Answer(u).users = users
      /\ UNCHANGED <<users, houses, uplink, online, phase, then, seen, week, label, table>>
  BY ConnectedAnswer DEF ServeUsers, database
<1>3. asked'[u] = asked[u] \ {"users"} /\ \A v \in Users \ {u} : asked'[v] = asked[v]
  BY DEF ServeUsers, CleaningInv, CleaningTypeOK, DeviceTypeOK
<1>4. me'[u].house = home /\ \A v \in Users \ {u} : me'[v] = me[v]
  <2>1. users[u] \in UserNode /\ me \in [Users -> UserNode]
    BY DEF CleaningInv, CleaningTypeOK, DeviceTypeOK
  <2>2. me' = [me EXCEPT ![u] = [users[u] EXCEPT !.house = home]]
    BY <1>2 DEF ServeUsers
  <2> QED
    BY <2>1, <2>2 DEF UserNode
<1>5. home = users[u].house
  BY <1>1 DEF Phone
<1>. HIDE DEF home
<1>6. \A v \in Users \ {u} : residents'[v] = residents[v]
  BY DEF ServeUsers, SetHouseInfo, CleaningInv, CleaningTypeOK, DeviceTypeOK
<1>7. OthersKept(u) /\ HeadKept(u)
  BY <1>2, <1>3, <1>4, <1>6 DEF OthersKept, HeadKept
<1>8. getCurrentWeek' = getCurrentWeek
  BY <1>2 DEF getCurrentWeek
<1>9. Phone(u)'
  <2>1. Line(me[u].house, uplink[u])'
    <3>1. uplink'[u] = << >>
      BY <1>2
    <3> QED
      BY <3>1 DEF Line
  <2> QED
    BY <1>1, <1>2, <1>3, <1>4, <1>5, <2>1 DEF Phone
<1>10. ASSUME phase'[u] = "loading" PROVE Load(u)'
  <2>1. Load(u) /\ phase[u] = "loading"
    BY <1>1, <1>2, <1>10
  <2>2. me[u].house # Null => me'[u].house = me[u].house
    BY <1>1, <1>4, <1>5 DEF Phone
  <2>3. asked'[u] = {} /\ me'[u].house # Null => residents'[u] = houses[me'[u].house].residents
    <3>1. ASSUME asked'[u] = {}, home # Null
          PROVE  residents'[u] = houses[home].residents
      <4>1. asked[u] = {"users"}
        BY <1>2, <1>3, <3>1
      <4>2. home \in Houses
        BY <1>5, <3>1 DEF CleaningInv, CleaningTypeOK, DeviceTypeOK, UserNode
      <4>3. houses[home] # NoHouse
        BY <1>1, <1>5, <3>1 DEF Tree
      <4>4. Sound(houses[home], home) /\ Sound(seen[u][home], home)
        BY <1>1, <2>1, <4>1, <4>2, <4>3 DEF Tree, Load
      <4>5. SetHouseInfo(u, home, seen[u])
        BY <1>2, <2>1, <4>1 DEF ServeUsers, home
      <4>6. residents' = [residents EXCEPT ![u] = seen[u][home].residents]
        BY <3>1, <4>4, <4>5 DEF SetHouseInfo, Sound
      <4> QED
        BY <4>4, <4>6 DEF Sound, CleaningInv, CleaningTypeOK, DeviceTypeOK
    <3> QED
      BY <1>4, <3>1
  <2>4. "houses" \notin asked'[u] =>
          \A h \in Houses : houses'[h] # NoHouse => Sound(seen[u][h], h)'
    BY <1>2, <1>3, <2>1 DEF Load, Sound
  <2>5. HasWeek(uplink[u])' <=> HasWeek(uplink[u])
    BY <1>2 DEF HasWeek
  <2>6. online'[u] /\ uplink'[u] = << >> /\ me'[u].house = users'[u].house
    BY <1>2, <1>4, <1>5
  <2>7. then[u].step \in {"checkWeek", "show", "scheduled"} =>
          /\ me[u].house # Null
          /\ houses[me[u].house].firstWeek = getCurrentWeek \/ HasWeek(uplink[u])
    BY <2>1 DEF Load
  <2>8. then'[u].step \in {"checkWeek", "show", "scheduled"} =>
          /\ me'[u].house # Null
          /\ houses'[me'[u].house].firstWeek = getCurrentWeek' \/ HasWeek(uplink[u])'
    BY <1>2, <1>8, <2>2, <2>5, <2>7
  <2>9. then'[u].step \in {"checkWeek", "show"} /\ "houses" \notin asked'[u] =>
          seen'[u][me'[u].house].firstWeek = getCurrentWeek'
    BY <1>2, <1>3, <1>8, <2>1, <2>2, <2>7 DEF Load
  <2>10. then'[u].step = "clean" => table'[u].rows = 0
    BY <1>2, <2>1 DEF Load
  <2>11. asked'[u] = {} /\ me'[u].house # Null => residents'[u] = houses'[me'[u].house].residents
    BY <1>2, <2>3
  <2> QED
    BY <2>4, <2>6, <2>8, <2>9, <2>10, <2>11 DEF Load
<1> QED
  BY <1>2, <1>7, <1>9, <1>10, OnePhoneKeeps DEF HomesKept

\* The houses as getHouses returns them are as sound as those of the database.
LEMMA ParsedSound ==
  ASSUME NEW hs \in [Houses -> HouseNode], NEW h \in Houses, Sound(hs[h], h)
  PROVE  /\ Sound(ParsedHouses(hs)[h], h)
         /\ ParsedHouses(hs)[h].residents = hs[h].residents
         /\ ParsedHouses(hs)[h].firstWeek = hs[h].firstWeek
<1>. DEFINE node == ParsedHouses(hs)[h]
<1>1. node = [hs[h] EXCEPT !.tasks = ParsedTasks(@)]
  BY DEF ParsedHouses
<1>2. hs[h] \in HouseNode
  OBVIOUS
<1>3. /\ node.password = hs[h].password /\ node.drinks = hs[h].drinks
      /\ node.residents = hs[h].residents /\ node.firstWeek = hs[h].firstWeek
  BY <1>1, <1>2 DEF HouseNode
<1>. HIDE DEF node
<1>4. node # NoHouse
  BY <1>3 DEF Sound, NoHouse
<1> QED
  BY <1>3, <1>4 DEF Sound, node

LEMMA HousesAnswered ==
  ASSUME CleaningInv, NEW u \in Users, u \notin Offline, ServeHouses(u),
         IF phase'[u] = "crashed" THEN LabelLost(u) ELSE UNCHANGED label,
         ForgetTab(u) \/ UNCHANGED table
  PROVE  Schedules'
<1>1. /\ Phone(u) /\ (phase[u] = "loading" => Load(u)) /\ Tree
      /\ houses \in [Houses -> HouseNode] /\ me[u] \in UserNode
  BY DEF CleaningInv, Schedules, CleaningTypeOK, DeviceTypeOK
<1>2. /\ "houses" \in asked[u] /\ online[u] /\ uplink[u] = << >>
      /\ Answer(u).houses = houses
      /\ UNCHANGED <<users, houses, online, week>>
  BY ConnectedAnswer DEF ServeHouses, database
<1>3. CASE Crash(u)
  <2>1. phase'[u] = "crashed"
    BY <1>3 DEF Crash, Stop, CleaningInv, CleaningTypeOK, DeviceTypeOK
  <2>2. PhoneStep(u)
    BY <1>2, <1>3, <2>1, EndKeeps DEF Crash, HomesKept
  <2> QED
    BY <2>2, PhoneStepKeeps
<1>4. CASE ~Crash(u)
  <2>1. /\ asked' = [asked EXCEPT ![u] = @ \ {"houses"}]
        /\ seen' = [seen EXCEPT ![u] = ParsedHouses(houses)]
        /\ phase' = [phase EXCEPT ![u] = IF houses = NoHouses THEN "frozen" ELSE @]
        /\ IF asked[u] = {"houses"}
           THEN SetHouseInfo(u, me[u].house, ParsedHouses(houses))
           ELSE UNCHANGED residents
        /\ UNCHANGED <<uplink, then, me>>
    BY <1>2, <1>4 DEF ServeHouses
  <2>2. /\ asked'[u] = asked[u] \ {"houses"} /\ seen'[u] = ParsedHouses(houses)
        /\ phase'[u] \in {phase[u], "frozen"}
        /\ \A v \in Users \ {u} :
             asked'[v] = asked[v] /\ seen'[v] = seen[v] /\ phase'[v] = phase[v]
    BY <2>1 DEF CleaningInv, CleaningTypeOK, DeviceTypeOK
  <2>3. phase[u] \in {"loading", "frozen"} /\ UNCHANGED label
    BY <1>1, <1>2, <2>2 DEF Phone
  <2>4. \A v \in Users \ {u} : residents'[v] = residents[v]
    BY <2>1 DEF SetHouseInfo, CleaningInv, CleaningTypeOK, DeviceTypeOK
  <2>5. \A v \in Users \ {u} : table'[v].rows = table[v].rows
    BY DEF ForgetTab, CleaningInv, CleaningTypeOK
  <2>6. table'[u].rows \in {0, table[u].rows}
    BY DEF ForgetTab, NewTable, CleaningInv, CleaningTypeOK
  <2>7. OthersKept(u) /\ HeadKept(u)
    BY <1>2, <2>1, <2>2, <2>3, <2>4, <2>5 DEF OthersKept, HeadKept
  <2>8. getCurrentWeek' = getCurrentWeek
    BY <1>2 DEF getCurrentWeek
  <2>9. Phone(u)'
    <3>1. Line(me[u].house, uplink[u])'
      <4>1. uplink'[u] = << >>
        BY <1>2, <2>1
      <4> QED
        BY <4>1 DEF Line
    <3> QED
      BY <1>1, <1>2, <2>1, <2>2, <2>3, <3>1 DEF Phone
  <2>10. ASSUME phase'[u] = "loading" PROVE Load(u)'
    <3>1. Load(u)
      BY <1>1, <2>2, <2>3, <2>10
    <3>2. \A h \in Houses : houses[h] # NoHouse =>
            /\ Sound(houses[h], h)
            /\ Sound(seen'[u][h], h)
            /\ seen'[u][h].residents = houses[h].residents
            /\ seen'[u][h].firstWeek = houses[h].firstWeek
      BY <1>1, <2>2, ParsedSound DEF Tree
    <3>3. \A h \in Houses : houses'[h] # NoHouse => Sound(seen[u][h], h)'
      BY <1>2, <3>2 DEF Sound
    <3>4. me[u].house # Null => me[u].house \in Houses /\ houses[me[u].house] # NoHouse
      BY <1>1 DEF Phone, Tree, UserNode
    <3>5. ASSUME asked'[u] = {}, me[u].house # Null
          PROVE  residents'[u] = houses[me[u].house].residents
      <4>1. asked[u] = {"houses"}
        BY <1>2, <2>2, <3>5
      <4>2. SetHouseInfo(u, me[u].house, seen'[u])
        BY <2>1, <2>2, <4>1
      <4>4. me[u].house # Null /\ seen'[u][me[u].house] # NoHouse
        BY <3>2, <3>4, <3>5 DEF Sound
      <4>3. residents' = [residents EXCEPT ![u] = seen'[u][me[u].house].residents]
        BY <4>2, <4>4 DEF SetHouseInfo
      <4> QED
        BY <3>2, <3>4, <3>5, <4>3 DEF CleaningInv, CleaningTypeOK, DeviceTypeOK
    <3>6. ~HasWeek(uplink[u])
      BY <1>2 DEF HasWeek
    <3>7. then[u].step \in {"checkWeek", "show", "scheduled"} =>
            me[u].house # Null /\ houses[me[u].house].firstWeek = getCurrentWeek
      BY <3>1, <3>6 DEF Load
    <3>8. /\ online'[u] /\ uplink'[u] = << >> /\ me' = me /\ then' = then /\ houses' = houses
          /\ users' = users
      BY <1>2, <2>1
    <3>9. "users" \notin asked'[u] => me'[u].house = users'[u].house
      BY <2>2, <3>1, <3>8 DEF Load
    <3>10. then'[u].step = "clean" => table'[u].rows = 0
      BY <2>6, <3>1, <3>8 DEF Load
    <3>11. then'[u].step \in {"checkWeek", "show", "scheduled"} =>
             me'[u].house # Null /\ houses'[me'[u].house].firstWeek = getCurrentWeek'
      BY <2>8, <3>7, <3>8
    <3>12. then'[u].step \in {"checkWeek", "show"} =>
             seen'[u][me'[u].house].firstWeek = getCurrentWeek'
      BY <2>8, <3>2, <3>4, <3>7, <3>8
    <3>13. asked'[u] = {} /\ me'[u].house # Null => residents'[u] = houses'[me'[u].house].residents
      BY <3>5, <3>8
    <3> QED
      BY <3>3, <3>8, <3>9, <3>10, <3>11, <3>12, <3>13 DEF Load
  <2> QED
    BY <1>2, <2>7, <2>9, <2>10, OnePhoneKeeps DEF HomesKept
<1> QED
  BY <1>3, <1>4

\* What the write in front does to the tree.
LEMMA PutDoes ==
  ASSUME CleaningInv, NEW u \in Users, ApplyPut(u)
  PROVE  LET p == Head(uplink[u]) IN
         /\ \A v \in Users : users'[v].house = users[v].house
         /\ p.path \in {"users/dinner", "houses/tasks", "houses/tasks/task", "houses/firstWeek"}
         /\ p.path # "users/dinner" => p.house = me[u].house
         /\ \A h \in Houses :
              /\ houses'[h].password = houses[h].password
              /\ houses'[h].drinks = houses[h].drinks
              /\ houses'[h].residents = houses[h].residents
              /\ houses'[h].firstWeek =
                   IF p.path = "houses/firstWeek" /\ h = p.house THEN getCurrentWeek
                   ELSE houses[h].firstWeek
              /\ h # me[u].house \/ p.path \notin {"houses/tasks", "houses/tasks/task"} =>
                   houses'[h].tasks = houses[h].tasks
              /\ h = me[u].house /\ p.path = "houses/tasks/task" => houses'[h].tasks # {}
<1>. DEFINE p == Head(uplink[u])
<1>1. /\ uplink[u] \in Seq(Puts) /\ users \in [Users -> UserNode]
      /\ houses \in [Houses -> HouseNode]
  BY DEF CleaningInv, CleaningTypeOK, DeviceTypeOK
<1>2. p \in Puts /\ p = uplink[u][1] /\ 1 \in 1 .. Len(uplink[u])
  BY <1>1 DEF ApplyPut
<1>3. /\ p.path \in {"users/dinner", "houses/tasks", "houses/tasks/task", "houses/firstWeek"}
      /\ p.path # "users/dinner" => p.house = me[u].house
      /\ p.path = "houses/firstWeek" => p.count = getCurrentWeek
  BY <1>2 DEF CleaningInv, Schedules, Phone, Line
<1>4. users' = UsersAfter(users, p) /\ houses' = HousesAfter(houses, p)
  BY DEF ApplyPut
<1>. HIDE DEF p
<1>5. CASE p.path = "users/dinner"
  <2>1. users' = [users EXCEPT ![p.user].dinner = p.flag] /\ houses' = houses
    BY <1>4, <1>5 DEF UsersAfter, HousesAfter
  <2>2. \A v \in Users : users'[v].house = users[v].house
    BY <1>1, <2>1 DEF UserNode
  <2> QED
    BY <1>3, <1>5, <2>1, <2>2 DEF p
<1>6. CASE p.path = "houses/tasks"
  <2>1. users' = users /\ houses' = [houses EXCEPT ![p.house].tasks = {}]
    BY <1>4, <1>6 DEF UsersAfter, HousesAfter
  <2> QED
    BY <1>1, <1>3, <1>6, <2>1 DEF p, HouseNode
<1>7. CASE p.path = "houses/tasks/task"
  <2>1. users' = users /\ houses' = [houses EXCEPT ![p.house].tasks = @ \cup {p.task}]
    BY <1>4, <1>7 DEF UsersAfter, HousesAfter
  <2> QED
    BY <1>1, <1>3, <1>7, <2>1 DEF p, HouseNode
<1>8. CASE p.path = "houses/firstWeek"
  <2>1. users' = users /\ houses' = [houses EXCEPT ![p.house].firstWeek = p.count]
    BY <1>4, <1>8 DEF UsersAfter, HousesAfter
  <2> QED
    BY <1>1, <1>3, <1>8, <2>1 DEF p, HouseNode
<1> QED
  BY <1>3, <1>5, <1>6, <1>7, <1>8

LEMMA PutApplied ==
  ASSUME CleaningInv, NEW u \in Users, ApplyPut(u), UNCHANGED <<label, table>>
  PROVE  Schedules'
<1>. DEFINE p == Head(uplink[u])
            home == me[u].house
<1>1. /\ \A v \in Users : users'[v].house = users[v].house
      /\ p.path \in {"users/dinner", "houses/tasks", "houses/tasks/task", "houses/firstWeek"}
      /\ p.path # "users/dinner" => p.house = home
  BY PutDoes
<1>2. \A h \in Houses :
        /\ houses'[h].password = houses[h].password
        /\ houses'[h].drinks = houses[h].drinks
        /\ houses'[h].residents = houses[h].residents
        /\ houses'[h].firstWeek =
             IF p.path = "houses/firstWeek" /\ h = p.house THEN getCurrentWeek
             ELSE houses[h].firstWeek
  BY PutDoes
<1>3. \A h \in Houses :
        /\ h # home \/ p.path \notin {"houses/tasks", "houses/tasks/task"} =>
             houses'[h].tasks = houses[h].tasks
        /\ h = home /\ p.path = "houses/tasks/task" => houses'[h].tasks # {}
  BY PutDoes
<1>4. /\ uplink[u] \in Seq(Puts) /\ uplink[u] # << >> /\ online[u]
      /\ uplink'[u] = Tail(uplink[u]) /\ \A v \in Users \ {u} : uplink'[v] = uplink[v]
      /\ UNCHANGED <<online, phase, then, asked, me, seen, residents, week>>
  BY DEF ApplyPut, memory, CleaningInv, CleaningTypeOK, DeviceTypeOK
<1>5. /\ p = uplink[u][1] /\ 1 \in 1 .. Len(uplink[u]) /\ p \in Puts
      /\ Tail(uplink[u]) \in Seq(Puts) /\ Len(Tail(uplink[u])) = Len(uplink[u]) - 1
      /\ \A i \in 1 .. Len(uplink[u]) - 1 : Tail(uplink[u])[i] = uplink[u][i + 1]
      /\ Tail(uplink[u]) # << >> => Head(Tail(uplink[u])) = uplink[u][2]
  BY <1>4
<1>. HIDE DEF p
<1>6. /\ Phone(u) /\ (phase[u] = "loading" => Load(u)) /\ Tree /\ Halves
      /\ home \in Houses \cup {Null} /\ houses \in [Houses -> HouseNode]
  BY DEF CleaningInv, Schedules, CleaningTypeOK, DeviceTypeOK, UserNode
<1>7. getCurrentWeek' = getCurrentWeek /\ getCurrentWeek \in 1 .. WeeksInYear
  <2>1. week \in Nat \ {0} /\ WeeksInYear \in Nat \ {0}
    BY DeviceAssumption DEF CleaningInv, CleaningTypeOK, DeviceTypeOK
  <2>2. (week - 1) % WeeksInYear \in 0 .. WeeksInYear - 1
    BY <2>1
  <2> QED
    BY <1>4, <2>1, <2>2 DEF getCurrentWeek
<1>8. \A h \in Houses : houses[h] # NoHouse => houses'[h] # NoHouse
  BY <1>2, <1>6 DEF Tree, Sound, NoHouse
<1>9. p.path # "users/dinner" => home \in Houses /\ houses[home] # NoHouse
  <2>1. ASSUME p.path # "users/dinner" PROVE home \in Houses
    BY <1>1, <1>5, <2>1 DEF Puts
  <2>2. home \in Houses => home # Null
    BY NamesAssumption
  <2> QED
    BY <1>6, <2>1, <2>2 DEF Phone, Tree
<1>10. \A h \in Houses : houses'[h] # NoHouse => houses[h] # NoHouse
  <2>1. ASSUME NEW h \in Houses, houses[h] = NoHouse PROVE houses'[h] = houses[h]
    <3>1. h # home \/ p.path = "users/dinner"
      BY <1>9, <2>1
    <3>2. /\ p.path # "users/dinner" => p.house # h
          /\ houses'[h].tasks = houses[h].tasks
          /\ houses'[h].firstWeek = houses[h].firstWeek
      BY <1>1, <1>2, <1>3, <3>1
    <3>3. houses[h] \in HouseNode /\ houses'[h] \in HouseNode
      <4>1. users \in [Users -> UserNode]
        BY DEF CleaningInv, CleaningTypeOK, DeviceTypeOK
      <4>2. houses' \in [Houses -> HouseNode]
        BY <1>5, <1>6, <4>1, PutsKeepTree DEF ApplyPut, p
      <4> QED
        BY <1>6, <4>2
    <3> QED
      BY <1>2, <3>2, <3>3 DEF HouseNode
  <2> QED
    BY <2>1
<1>11. HousesKept
  BY <1>2, <1>8, <1>10 DEF HousesKept
<1>12. Tree'
  <2>1. ASSUME NEW h \in Houses, houses'[h] # NoHouse
        PROVE  Sound(houses[h], h)' /\ \E v \in Users : users'[v].house = h
    <3>1. Sound(houses[h], h) /\ \E v \in Users : users[v].house = h
      BY <1>6, <1>10, <2>1 DEF Tree
    <3>2. {v \in Users : users'[v].house = h} = {v \in Users : users[v].house = h}
      BY <1>1
    <3> QED
      BY <1>1, <1>2, <1>7, <2>1, <3>1, <3>2 DEF Sound
  <2>2. ASSUME NEW v \in Users, users'[v].house # Null PROVE houses'[users'[v].house] # NoHouse
    <3>1. users[v].house \in Houses \cup {Null}
      BY DEF CleaningInv, CleaningTypeOK, DeviceTypeOK, UserNode
    <3> QED
      BY <1>1, <1>6, <1>8, <2>2, <3>1 DEF Tree
  <2> QED
    BY <2>1, <2>2 DEF Tree
<1>13. Halves'
  <2>1. ASSUME NEW h \in Houses, houses'[h] # NoHouse, houses'[h].tasks = {}
        PROVE  \E v \in Users : /\ uplink'[v] # << >>
                                /\ Head(uplink'[v]).path = "houses/tasks/task"
                                /\ Head(uplink'[v]).house = h
    <3>1. CASE h = home /\ p.path = "houses/tasks"
      <4>1. /\ 1 < Len(uplink[u]) /\ uplink[u][2].path = "houses/tasks/task"
            /\ uplink[u][2].house = home
        BY <1>5, <1>6, <3>1 DEF Phone, Line
      <4>2. Tail(uplink[u]) # << >>
        <5>1. Len(Tail(uplink[u])) # 0
          BY <1>4, <1>5, <4>1
        <5>2. Len(<< >>) = 0
          OBVIOUS
        <5> QED
          BY <5>1, <5>2
      <4> QED
        BY <1>4, <1>5, <3>1, <4>1, <4>2
    <3>2. CASE ~(h = home /\ p.path = "houses/tasks")
      <4>1. houses[h].tasks = {}
        BY <1>1, <1>3, <2>1, <3>2
      <4>2. PICK v \in Users : /\ uplink[v] # << >>
                               /\ Head(uplink[v]).path = "houses/tasks/task"
                               /\ Head(uplink[v]).house = h
        BY <1>6, <1>10, <2>1, <4>1 DEF Halves
      <4>3. v # u
        <5>1. ASSUME v = u PROVE FALSE
          <6>1. p.path = "houses/tasks/task" /\ h = home
            BY <1>1, <4>2, <5>1 DEF p
          <6> QED
            BY <1>3, <2>1, <6>1
        <5> QED
          BY <5>1
      <4> QED
        BY <1>4, <4>2, <4>3
    <3> QED
      BY <3>1, <3>2
  <2> QED
    BY <2>1 DEF Halves
<1>14. Phone(u)'
  <2>. DEFINE t == Tail(uplink[u])
  <2>1. Line(home, t) /\ uplink'[u] = t /\ me'[u].house = home
    BY <1>4, <1>6, LineTail DEF Phone
  <2>. HIDE DEF t, home
  <2>2. Line(me[u].house, uplink[u])'
    BY <1>7, <2>1 DEF Line
  <2> QED
    BY <1>1, <1>4, <1>6, <2>2 DEF Phone
<1>15. ASSUME phase'[u] = "loading" PROVE Load(u)'
  <2>1. Load(u) /\ asked[u] = {"users", "houses"}
    BY <1>4, <1>6, <1>15 DEF Load
  <2>2. ASSUME home # Null,
               houses[home].firstWeek = getCurrentWeek \/ HasWeek(uplink[u])
        PROVE  houses'[home].firstWeek = getCurrentWeek \/ HasWeek(uplink'[u])
    <3>1. home \in Houses
      BY <1>6, <2>2
    <3>2. CASE houses[home].firstWeek = getCurrentWeek
      BY <1>2, <3>1, <3>2
    <3>3. CASE p.path = "houses/firstWeek"
      BY <1>1, <1>2, <3>1, <3>3
    <3>4. CASE HasWeek(uplink[u]) /\ p.path # "houses/firstWeek"
      <4>1. PICK i \in 1 .. Len(uplink[u]) : uplink[u][i].path = "houses/firstWeek"
        BY <3>4 DEF HasWeek
      <4>2. i # 1
        BY <1>5, <3>4, <4>1
      <4>3. i - 1 \in 1 .. Len(uplink[u]) - 1 /\ (i - 1) + 1 = i
        BY <1>4, <4>2
      <4>4. Tail(uplink[u])[i - 1].path = "houses/firstWeek"
        BY <1>5, <4>1, <4>3
      <4> QED
        BY <1>4, <1>5, <4>3, <4>4 DEF HasWeek
    <3> QED
      BY <2>2, <3>2, <3>3, <3>4
  <2>3. then'[u].step \in {"checkWeek", "show", "scheduled"} =>
          /\ me'[u].house # Null
          /\ houses'[me'[u].house].firstWeek = getCurrentWeek' \/ HasWeek(uplink[u])'
    <3>1. HasWeek(uplink[u])' <=> HasWeek(uplink'[u])
      BY DEF HasWeek
    <3> QED
      BY <1>4, <1>7, <2>1, <2>2, <3>1 DEF Load
  <2>4. asked'[u] = {"users", "houses"} /\ online'[u]
    BY <1>4, <2>1
  <2>5. then'[u].step = "clean" => table'[u].rows = 0
    BY <1>4, <2>1 DEF Load
  <2> QED
    BY <2>3, <2>4, <2>5 DEF Load
<1>16. OthersKept(u)
  BY <1>4 DEF OthersKept
<1>17. ASSUME NEW v \in Users \ {u} PROVE Phone(v)' /\ (phase[v] = "loading" => Load(v))'
  BY <1>1, <1>4, <1>11, <1>16, OthersFine
<1> QED
  BY <1>12, <1>13, <1>14, <1>15, <1>17 DEF Schedules

\* The week changes while no write says which one it is.
LEMMA CalendarKeeps ==
  ASSUME CleaningInv, Calendar
  PROVE  Schedules'
<1>1. /\ \A u \in Users : phase[u] # "loading" /\ uplink[u] = << >>
      /\ UNCHANGED <<users, houses, uplink, phase, asked, me, label>>
  BY DEF Calendar, Quiet, HomeCalendar, NewWeek, database, memory
<1>2. Tree' /\ Halves'
  BY <1>1 DEF CleaningInv, Schedules, Tree, Halves, Sound
<1>3. ASSUME NEW u \in Users PROVE Phone(u)' /\ phase'[u] # "loading"
  <2>1. uplink'[u] = << >>
    BY <1>1
  <2>2. Line(me[u].house, uplink[u])'
    BY <2>1 DEF Line
  <2> QED
    BY <1>1, <2>2 DEF Phone, CleaningInv, Schedules
<1> QED
  BY <1>2, <1>3 DEF Schedules

\* The database as earlier use left it, and no app running.
LEMMA CleaningStarts ==
  ASSUME CleaningInit
  PROVE  CleaningInv
<1>1. HomeTypeOK
  BY HomeInitTyped DEF CleaningInit
<1>2. TabTypeOK
  <2>1. 0 \in 0 .. Cardinality(Users)
    BY CleaningAssumption, FS_CardinalityType
  <2>2. NewTable \in [rows: 0 .. Cardinality(Users), segments: Nat, selected: Nat]
    BY <2>1 DEF NewTable
  <2>3. /\ table = [u \in Users |-> NewTable]
        /\ NewTable.selected < NewTable.segments
    BY DEF CleaningInit, NewTable
  <2>4. draft = [u \in Users |-> << >>] /\ << >> \in Seq(Tasks)
    BY DEF CleaningInit
  <2>. HIDE DEF NewTable
  <2> QED
    BY <2>2, <2>3, <2>4 DEF CleaningInit, TabTypeOK
<1>3. PICK homes \in [Users -> Houses \cup {Null}] :
        /\ users = [u \in Users |-> [NoUser EXCEPT !.house = homes[u]]]
        /\ houses = [h \in Houses |-> InitialHouse(homes, h)]
  BY DeviceAssumption DEF CleaningInit, HomeInit, DeviceInit
<1>4. \A u \in Users : users[u].house = homes[u]
  BY <1>3 DEF NoUser
<1>5. ASSUME NEW h \in Houses
      PROVE  IF \A u \in Users : homes[u] # h THEN houses[h] = NoHouse
             ELSE Sound(houses[h], h) /\ houses[h].tasks # {}
  <2>1. CASE \A u \in Users : homes[u] # h
    BY <1>3, <2>1 DEF InitialHouse
  <2>2. CASE ~\A u \in Users : homes[u] # h
    <3>1. houses[h] =
            [password |-> CHOOSE q \in Passwords : TRUE, drinks |-> InitialStock,
             firstWeek |-> ((FirstWeek - 1) % WeeksInYear) + 1,
             residents |-> {u \in Users : homes[u] = h},
             tasks |-> InitialTasks \cup {DefaultTask}]
      BY <1>3, <2>2 DEF InitialHouse
    <3>2. houses[h].password \in Passwords /\ houses[h].password # Null
      BY <3>1, NamesAssumption
    <3>3. houses[h].drinks # Null
      BY <3>1, DeviceAssumption, NamesAssumption
    <3>4. houses[h].firstWeek \in 1 .. WeeksInYear
      <4>1. (FirstWeek - 1) % WeeksInYear \in 0 .. WeeksInYear - 1
        BY DeviceAssumption
      <4> QED
        BY <3>1, <4>1, DeviceAssumption
    <3>5. houses[h].residents = {u \in Users : users[u].house = h} /\ houses[h].tasks # {}
      BY <1>4, <3>1
    <3>6. houses[h] # NoHouse
      BY <3>2 DEF NoHouse
    <3> QED
      BY <2>2, <3>2, <3>3, <3>4, <3>5, <3>6 DEF Sound
  <2> QED
    BY <2>1, <2>2
<1>6. Tree /\ Halves
  <2>1. \A h \in Houses : houses[h] # NoHouse =>
          Sound(houses[h], h) /\ \E u \in Users : users[u].house = h
    BY <1>4, <1>5
  <2>2. \A u \in Users : users[u].house # Null => houses[users[u].house] # NoHouse
    BY <1>4, <1>5 DEF Sound
  <2> QED
    BY <1>5, <2>1, <2>2 DEF Tree, Halves
<1>7. ASSUME NEW u \in Users PROVE Phone(u) /\ phase[u] # "loading"
  <2>1. uplink[u] = << >> /\ asked[u] = {} /\ me[u] = NoUser /\ label[u] = Null /\ phase[u] = "off"
    BY DEF CleaningInit, HomeInit, DeviceInit
  <2> QED
    BY <2>1 DEF Phone, Line, NoUser
<1> QED
  BY <1>1, <1>2, <1>6, <1>7 DEF CleaningInv, Schedules, CleaningTypeOK, HomeTypeOK, TabTypeOK

LEMMA CleaningSteps ==
  ASSUME Killable = {}, Offline = {}, CleaningInv, CleaningTypeOK', [CleaningNext]_cleaningVars
  PROVE  CleaningInv'
<1>1. CASE UNCHANGED cleaningVars
  <2>1. UNCHANGED <<users, houses, uplink, online, phase, screen, then, asked, me, known, seen,
                    residents, week, label, table, canCreate, draft, top>>
    BY <1>1 DEF cleaningVars, homeVars, deviceVars
  <2>3. Schedules'
    <3>1. Tree' /\ Halves'
      BY <2>1 DEF CleaningInv, Schedules, Tree, Halves, Sound
    <3>2. ASSUME NEW u \in Users PROVE Phone(u)' /\ (phase[u] = "loading" => Load(u))'
      <4>1. Phone(u) /\ (phase[u] = "loading" => Load(u))
        BY DEF CleaningInv, Schedules
      <4>2. Phone(u)'
        BY <2>1, <4>1 DEF Phone, Line, getCurrentWeek
      <4>3. (phase[u] = "loading" => Load(u))'
        BY <2>1, <4>1 DEF Load, HasWeek, Sound, getCurrentWeek
      <4> QED
        BY <4>2, <4>3
    <3> QED
      BY <3>1, <3>2 DEF Schedules
  <2> QED
    BY <2>3 DEF CleaningInv
<1>2. CASE CleaningNext
  <2>1. CASE Calendar
    BY <1>2, <2>1, CalendarKeeps DEF CleaningInv
  <2>2. ASSUME NEW u \in Users, Serve(u) \/ Handle(u) \/ Tap(u) PROVE Schedules'
    <3>1. CASE WithTab(u, Background(u))
      <4>1. Background(u) /\ (ForgetTab(u) \/ UNCHANGED table)
        BY <3>1 DEF WithTab
      <4>2. CASE ServeHouses(u) /\ (IF phase'[u] = "crashed" THEN LabelLost(u) ELSE UNCHANGED label)
        BY <4>1, <4>2, HousesAnswered
      <4>3. CASE (ApplyPut(u) \/ ServeUsers(u)) /\ UNCHANGED label
        <5>1. UNCHANGED phase
          BY <4>3 DEF ApplyPut, ServeUsers
        <5>2. UNCHANGED table
          BY <3>1, <5>1 DEF WithTab, Running
        <5> QED
          BY <4>3, <5>2, PutApplied, UsersAnswered
      <4> QED
        BY <4>1, <4>2, <4>3 DEF Background
    <3>2. CASE WithTab(u, HomeHandlers(u)) \/ WithTab(u, HomeTaps(u) \/ Lifecycle(u))
      BY <3>2, HandlersKeep, HomeTapsKeep, PhoneStepKeeps DEF WithTab
    <3> QED
      BY <2>2, <3>1, <3>2, CleanShownKeeps, SaveKeeps, TapsKeep, PhoneStepKeeps
      DEF Serve, Handle, Tap
  <2> QED
    BY <1>2, <2>1, <2>2 DEF CleaningNext, CleaningInv
<1> QED
  BY <1>1, <1>2

-----------------------------------------------------------------------------
(* The theorems.  From here no app is killed with writes unsent, and no     *)
(* phone loses its connection: a save would stop half way, or a load would *)
(* show what the server does not have yet.                                 *)

(* Every variable keeps its type, whatever is killed or lost; in           *)
(* particular the selected segment is one the control has                  *)
(* (CleanViewController.swift:78), and the table has no more rows than     *)
(* there are users.                                                        *)
THEOREM CleaningTypeCorrect == CleaningSpec => []CleaningTypeOK
<1>1. CleaningInit => TypeInv
  <2> SUFFICES ASSUME CleaningInit PROVE TypeInv
    OBVIOUS
  <2>1. CleaningTypeOK
    BY CleaningStarts DEF CleaningInv
  <2>2. \A u \in Users : phase[u] = "off" /\ seen[u] = NoHouses
    BY DEF CleaningInit, HomeInit, DeviceInit
  <2> QED
    BY <2>1, <2>2 DEF TypeInv, Fresh, NoHouses
<1>2. TypeInv /\ [CleaningNext]_cleaningVars => TypeInv'
  BY FreshKept
<1>3. TypeInv => CleaningTypeOK
  BY DEF TypeInv
<1> QED
  BY <1>1, <1>2, <1>3, PTL DEF CleaningSpec

(* The invariant itself: whatever saves, restarts and loads interleave     *)
(* (NewScheduleViewController.swift:36-44, HomeViewController.swift:64,    *)
(* :78), a half saved schedule is about to be completed, and a load that   *)
(* follows a write of the week finds it.                                   *)
THEOREM SchedulesInvariant ==
  ASSUME Killable = {}, Offline = {}
  PROVE  CleaningSpec => []CleaningInv
<1>1. CleaningInit => CleaningInv
  BY CleaningStarts
<1>2. CleaningInv /\ CleaningTypeOK' /\ [CleaningNext]_cleaningVars => CleaningInv'
  BY CleaningSteps
<1> QED
  BY <1>1, <1>2, CleaningTypeCorrect, PTL DEF CleaningSpec

(* Saves and restarts of any number of phones leave no house without what  *)
(* getHouses unwraps (DataController.swift:103-117): the half saved        *)
(* schedules pass.                                                         *)
THEOREM SchedulesDoSurvive ==
  ASSUME Killable = {}, Offline = {}
  PROVE  CleaningSpec => []SchedulesSurvive
<1>1. CleaningInv => SchedulesSurvive
  <2>1. ASSUME CleaningInv, \A u \in Users : uplink[u] = << >>,
               NEW h \in Houses, houses[h] # NoHouse
        PROVE  Complete(houses[h])
    <3>1. Sound(houses[h], h) /\ \E u \in Users : users[u].house = h
      BY <2>1 DEF CleaningInv, Schedules, Tree
    <3>2. houses[h].tasks # {}
      BY <2>1 DEF CleaningInv, Schedules, Halves
    <3>3. houses[h].firstWeek # Null
      BY <3>1, DeviceAssumption, NamesAssumption DEF Sound
    <3> QED
      BY <3>1, <3>2, <3>3 DEF Sound, Complete
  <2> QED
    BY <2>1 DEF SchedulesSurvive, Parsable
<1> QED
  BY <1>1, SchedulesInvariant, PTL

(* "Tasks Set!" is shown only when the saved schedule begins this week in  *)
(* the database (NewScheduleViewController.swift:43), whoever restarts the *)
(* old one meanwhile.                                                      *)
THEOREM SchedulesStartNow ==
  ASSUME Killable = {}, Offline = {}
  PROVE  CleaningSpec => NewScheduleStarts
<1>1. ASSUME CleaningInv, NEW u \in Users, Scheduled(u)
      PROVE  houses[me[u].house].firstWeek = getCurrentWeek
  <2>1. phase[u] = "loading" /\ asked[u] = {} /\ then[u].step = "scheduled"
    BY <1>1 DEF Scheduled, Loaded
  <2>2. uplink[u] = << >> /\ (houses[me[u].house].firstWeek = getCurrentWeek \/ HasWeek(uplink[u]))
    BY <1>1, <2>1 DEF CleaningInv, Schedules, Load
  <2> QED
    BY <2>2 DEF HasWeek
<1>2. CleaningInv /\ [CleaningNext]_cleaningVars =>
        [\A u \in Users : Scheduled(u) =>
           houses[me[u].house].firstWeek = getCurrentWeek]_cleaningVars
  BY <1>1
<1> QED
  BY <1>2, SchedulesInvariant, PTL DEF CleaningSpec, NewScheduleStarts

\* What a load that has completed holds.
LEMMA LoadedHouse ==
  ASSUME CleaningInv, NEW u \in Users, phase[u] = "loading", asked[u] = {}
  PROVE  /\ online[u] /\ me[u].house = users[u].house
         /\ me[u].house # Null =>
              /\ me[u].house \in Houses
              /\ Sound(seen[u][me[u].house], me[u].house)
              /\ u \in seen[u][me[u].house].residents
              /\ seen[u][me[u].house].firstWeek \in Int /\ getCurrentWeek \in Int
              /\ residents[u] # {}
              /\ Cardinality(residents[u]) \in Nat \ {0}
         /\ then[u].step \in {"checkWeek", "show"} =>
              me[u].house # Null /\ seen[u][me[u].house].firstWeek = getCurrentWeek
<1>. DEFINE h == me[u].house
<1>1. Load(u) /\ Tree /\ h \in Houses \cup {Null}
  BY DEF CleaningInv, Schedules, CleaningTypeOK, DeviceTypeOK, UserNode
<1>2. online[u] /\ h = users[u].house
  BY <1>1 DEF Load
<1>3. ASSUME h # Null
      PROVE  /\ Sound(seen[u][h], h) /\ u \in seen[u][h].residents
             /\ seen[u][h].firstWeek \in Int /\ getCurrentWeek \in Int
             /\ residents[u] # {} /\ Cardinality(residents[u]) \in Nat \ {0}
  <2>1. h \in Houses /\ houses[h] # NoHouse
    BY <1>1, <1>2, <1>3 DEF Tree
  <2>2. Sound(seen[u][h], h) /\ Sound(houses[h], h) /\ residents[u] = houses[h].residents
    BY <1>1, <1>3, <2>1 DEF Load, Tree
  <2>3. u \in residents[u] /\ u \in seen[u][h].residents /\ residents[u] \subseteq Users
    BY <1>2, <2>2 DEF Sound
  <2>4. IsFiniteSet(residents[u]) /\ Cardinality(residents[u]) \in Nat
    BY <2>3, CleaningAssumption, FS_Subset, FS_CardinalityType
  <2>5. Cardinality(residents[u]) # 0
    BY <2>3, <2>4, FS_EmptySet
  <2>6. seen[u][h].firstWeek \in Int
    BY <2>2, DeviceAssumption DEF Sound
  <2>7. getCurrentWeek \in Int
    BY DeviceAssumption DEF getCurrentWeek, CleaningInv, CleaningTypeOK, DeviceTypeOK
  <2> QED
    BY <2>2, <2>3, <2>4, <2>5, <2>6, <2>7
<1>4. then[u].step \in {"checkWeek", "show"} => h # Null /\ seen[u][h].firstWeek = getCurrentWeek
  BY <1>1 DEF Load
<1> QED
  BY <1>1, <1>2, <1>3, <1>4

\* Home's handlers restart the schedule or know this week to be in it.
LEMMA HandlersInWeek ==
  ASSUME CleaningInv, NEW u \in Users, HomeHandlers(u), me[u].house # Null
  PROVE  \/ phase'[u] = "loading"
         \/ /\ showCurrentTask(u, me[u].house)
            /\ weekIndex(seen[u][me[u].house]) \in 0 .. Cardinality(residents[u]) - 1
<1>. DEFINE h == me[u].house
            node == seen[u][h]
            n == Cardinality(residents[u])
<1>1. phase[u] = "loading" /\ asked[u] = {}
  BY DEF HomeHandlers, HomeAppeared, HomeWeekSet, HomeScheduleRestarted, HomeReloaded, Loaded
<1>2. /\ online[u] /\ node # NoHouse /\ node.firstWeek \in Int /\ getCurrentWeek \in Int
      /\ n \in Nat \ {0}
      /\ then[u].step \in {"checkWeek", "show"} => node.firstWeek = getCurrentWeek
  BY <1>1, LoadedHouse DEF Sound
<1>3. ASSUME NEW next, RestartSchedule(u, h, next) PROVE phase'[u] = "loading"
  BY <1>2, <1>3 DEF RestartSchedule, GetAllData, CleaningInv, CleaningTypeOK, DeviceTypeOK
<1>. HIDE DEF n
<1>4. ASSUME checkIfWeekInSchedule(u, h), getCurrentWeek >= node.firstWeek
      PROVE  \/ phase'[u] = "loading"
             \/ showCurrentTask(u, h) /\ weekIndex(node) \in 0 .. n - 1
  <2>1. CASE PastSchedule(u, node)
    BY <1>3, <1>4, <2>1 DEF checkIfWeekInSchedule
  <2>2. CASE ~PastSchedule(u, node)
    <3>1. n = Cardinality(residents[u])
      BY DEF n
    <3>2. weekIndex(node) \in 0 .. n - 1
      BY <1>2, <1>4, <2>2, <3>1 DEF PastSchedule, weekIndex
    <3> QED
      BY <1>4, <2>2, <3>2 DEF checkIfWeekInSchedule
  <2> QED
    BY <2>1, <2>2
<1>5. CASE HomeAppeared(u)
  <2>1. checkForEndOfYear(u, h)
    BY <1>2, <1>5 DEF HomeAppeared
  <2>2. CASE getCurrentWeek < node.firstWeek
    BY <1>3, <2>1, <2>2 DEF checkForEndOfYear
  <2>3. CASE ~(getCurrentWeek < node.firstWeek)
    BY <1>2, <1>4, <2>1, <2>3 DEF checkForEndOfYear, n
  <2> QED
    BY <2>2, <2>3
<1>6. CASE HomeWeekSet(u)
  <2>1. checkIfWeekInSchedule(u, h) /\ node.firstWeek = getCurrentWeek
    BY <1>2, <1>6 DEF HomeWeekSet, HomeReloaded, Loaded
  <2> QED
    BY <1>2, <1>4, <2>1 DEF n
<1>7. CASE HomeScheduleRestarted(u)
  <2>1. showCurrentTask(u, h) /\ node.firstWeek = getCurrentWeek
    BY <1>2, <1>7 DEF HomeScheduleRestarted, HomeReloaded, Loaded
  <2>2. weekIndex(node) \in 0 .. n - 1
    BY <1>2, <2>1 DEF weekIndex
  <2> QED
    BY <2>1, <2>2 DEF n
<1> QED
  BY <1>5, <1>6, <1>7 DEF HomeHandlers

(* A task is shown only for a week its schedule covers                     *)
(* (HomeViewController.swift:97), for any number of flatmates restarting   *)
(* and saving schedules, over any number of years.                         *)
THEOREM SchedulesCoverWeek ==
  ASSUME Killable = {}, Offline = {}
  PROVE  CleaningSpec => ScheduleCoversWeek
<1>. DEFINE Covered(u) == phase[u] = "loading" /\ phase'[u] = "ready" /\ label'[u] # Null =>
               weekIndex(seen[u][label'[u]]) \in 0 .. Cardinality(residents[u]) - 1
<1>1. ASSUME CleaningInv, NEW u \in Users, phase[u] = "loading", asked[u] = {},
             HomeHandlers(u) \/ (CleanShown(u) /\ ~Trap(u)),
             phase'[u] = "ready", label'[u] # Null
      PROVE  weekIndex(seen[u][label'[u]]) \in 0 .. Cardinality(residents[u]) - 1
  <2>. DEFINE h == me[u].house
  <2>1. label[u] \in {Null, h}
    BY <1>1, LoadedHouse DEF CleaningInv, Schedules, Phone
  <2>2. label \in [Users -> Houses \cup {Null}] /\ phase \in [Users -> Phases]
    BY <1>1 DEF CleaningInv, CleaningTypeOK, LabelTypeOK, DeviceTypeOK
  <2>3. CASE CleanShown(u) /\ ~Trap(u)
    <3>1. label' = label
      BY <2>3 DEF CleanShown, CleanFilled
    <3>2. h # Null /\ label'[u] = h
      BY <1>1, <2>1, <3>1
    <3>3. weekIndex(seen[u][h]) \in Segments(u, seen[u][h])
      BY <2>3, <3>2 DEF CleanShown, CleanFilled
    <3> QED
      BY <3>2, <3>3 DEF Segments
  <2>4. CASE HomeHandlers(u) /\ h = Null
    <3>1. then[u].step = "appear"
      BY <1>1, <2>4, LoadedHouse
      DEF HomeHandlers, HomeAppeared, HomeWeekSet, HomeScheduleRestarted, HomeReloaded, Loaded
    <3>2. HomeAppeared(u)
      BY <2>4, <3>1 DEF HomeHandlers, HomeWeekSet, HomeScheduleRestarted, HomeReloaded, Loaded
    <3>3. label' = [label EXCEPT ![u] = Null]
      BY <2>4, <3>2 DEF HomeAppeared
    <3> QED
      BY <1>1, <2>2, <3>3
  <2>5. CASE HomeHandlers(u) /\ h # Null
    <3>1. showCurrentTask(u, h) /\ weekIndex(seen[u][h]) \in 0 .. Cardinality(residents[u]) - 1
      BY <1>1, <2>5, HandlersInWeek
    <3>2. ~Crash(u)
      BY <1>1, <2>2 DEF Crash, Stop
    <3>3. label'[u] \in {label[u], h}
      BY <2>2, <3>1, <3>2 DEF showCurrentTask
    <3> QED
      BY <1>1, <2>1, <3>1, <3>3
  <2> QED
    BY <1>1, <2>3, <2>4, <2>5
<1>2. ASSUME CleaningInv, CleaningNext, NEW w \in Users,
             phase[w] = "loading", phase'[w] = "ready"
      PROVE  /\ asked[w] = {}
             /\ HomeHandlers(w) \/ (CleanShown(w) /\ ~Trap(w))
  <2>1. phase \in [Users -> Phases]
    BY <1>2 DEF CleaningInv, CleaningTypeOK, DeviceTypeOK
  <2>2. ~Calendar
    BY <1>2 DEF Calendar, HomeCalendar, NewWeek
  <2>3. PICK u \in Users : Serve(u) \/ Handle(u) \/ Tap(u)
    BY <1>2, <2>2 DEF CleaningNext
  <2>4. ~Serve(u)
    BY <1>2, <2>1
    DEF Serve, WithTab, Background, ApplyPut, ServeUsers, ServeHouses, Crash, Stop
  <2>5. ~Tap(u)
    <3>1. ASSUME HomeTaps(u) \/ Lifecycle(u) PROVE FALSE
      BY <1>2, <2>1, <3>1
      DEF HomeTaps, Lifecycle, Refresh, DinnerSwitch, Launch, Quit, LoseConnection,
          RegainConnection, GetAllData, Ready, Running, Crash, Stop
    <3>2. ASSUME CleanAppears(u), phase[u] # "loading" PROVE FALSE
      BY <1>2, <2>1, <3>2 DEF CleanAppears, GetAllData
    <3>3. ASSUME SaveSchedule(u) \/ TabToHome(u) PROVE FALSE
      BY <1>2, <2>1, <3>3 DEF SaveSchedule, TabToHome, GetAllData, Ready, Trap, Crash, Stop
    <3>4. ASSUME \/ SegmentTapped(u) \/ plusButtonTapped(u) \/ DeleteTask(u) \/ PushSchedule(u)
                 \/ (TabToClean(u) /\ ~CleanAppears(u))
          PROVE  FALSE
      BY <1>2, <3>4
      DEF SegmentTapped, plusButtonTapped, DeleteTask, PushSchedule, TabToClean, homeVars, deviceVars
    <3> QED
      BY <3>1, <3>2, <3>3, <3>4 DEF Tap, WithTab, Okay, Back, TabToClean, Ready
  <2>6. ~Scheduled(u)
    BY <1>2, <2>1 DEF Scheduled
  <2>7. \/ HomeHandlers(u) /\ (ForgetTab(u) \/ UNCHANGED table)
        \/ CleanShown(u)
    BY <2>3, <2>4, <2>5, <2>6 DEF Handle, WithTab
  <2>8. OthersKept(u)
    BY <1>2, <2>7, HandlersKeep, CleanShownKeeps DEF PhoneStep, HomesKept
  <2>9. w = u
    BY <1>2, <2>8 DEF OthersKept
  <2>10. ~Trap(u)
    BY <1>2, <2>1, <2>9 DEF Trap, Crash, Stop
  <2>11. asked[u] = {}
    BY <2>7
    DEF CleanShown, HomeHandlers, HomeAppeared, HomeWeekSet, HomeScheduleRestarted,
        HomeReloaded, Loaded
  <2> QED
    BY <2>7, <2>9, <2>10, <2>11
<1>3. CleaningInv /\ [CleaningNext]_cleaningVars => [\A u \in Users : Covered(u)]_homeVars
  <2>1. CASE CleaningNext
    BY <1>1, <1>2, <2>1
  <2>2. CASE UNCHANGED cleaningVars
    BY <2>2 DEF cleaningVars
  <2> QED
    BY <2>1, <2>2
<1>4. [\A u \in Users : Covered(u)]_homeVars =>
        [\A u \in Users : phase[u] = "loading" /\ phase'[u] = "ready" /\ label'[u] # Null =>
           weekIndex(seen[u][label'[u]]) \in 0 .. Cardinality(residents[u]) - 1]_homeVars
  OBVIOUS
<1> QED
  BY <1>3, <1>4, SchedulesInvariant, PTL DEF CleaningSpec, ScheduleCoversWeek

-----------------------------------------------------------------------------
(* The traps, when no phone loses its connection.  A screen is then only   *)
(* ready once its load has completed.                                      *)

Reached(u) ==
  /\ online[u]
  /\ phase[u] \in {"ready", "alert"} => known[u]
  /\ phase[u] = "loading" /\ "users" \notin asked[u] => known[u]
  /\ phase[u] = "loading" /\ screen[u] = "clean" => then[u].step = "clean"
  /\ top[u] = "schedule" => me[u].house # Null
  /\ screen[u] = "schedule" => top[u] = "schedule"
  /\ Ready(u, "clean") /\ canCreate[u] => me[u].house # Null

ReachedInv == \A u \in Users : Reached(u)

Untouched(u) ==
  \A v \in Users \ {u} :
    /\ online'[v] = online[v] /\ phase'[v] = phase[v] /\ screen'[v] = screen[v]
    /\ then'[v] = then[v] /\ asked'[v] = asked[v] /\ me'[v] = me[v] /\ known'[v] = known[v]
    /\ top'[v] = top[v] /\ canCreate'[v] = canCreate[v]

\* A process that ends.
LEMMA StopReached ==
  ASSUME CleaningTypeOK, NEW u \in Users, Reached(u), NEW how \in {"off", "crashed"},
         Stop(u, how), ForgetTab(u), UNCHANGED online
  PROVE  Untouched(u) /\ Reached(u)'
<1>1. Untouched(u)
  BY DEF Untouched, Stop, ForgetTab, CleaningTypeOK, DeviceTypeOK
<1>2. phase'[u] = how /\ screen'[u] = "home" /\ top'[u] = "clean" /\ online'[u]
  BY DEF Reached, Stop, ForgetTab, CleaningTypeOK, DeviceTypeOK
<1> QED
  BY <1>1, <1>2 DEF Reached, Ready

\* A load begun from a screen.
LEMMA LoadReached ==
  ASSUME CleaningTypeOK, NEW u \in Users, Reached(u), NEW step, GetAllData(u, Run(step)),
         UNCHANGED <<online, me>>,
         screen'[u] = "clean" => step = "clean",
         screen'[u] = "schedule" => top'[u] = "schedule",
         top'[u] \in {"clean", top[u]}
  PROVE  Reached(u)'
<1>1. /\ phase'[u] = "loading" /\ asked'[u] = {"users", "houses"} /\ then'[u].step = step
      /\ online'[u] /\ me'[u] = me[u]
  BY DEF Reached, GetAllData, Run, CleaningTypeOK, DeviceTypeOK
<1> QED
  BY <1>1 DEF Reached, Ready

LEMMA BackgroundReached ==
  ASSUME Offline = {}, CleaningInv, NEW u \in Users, Reached(u), WithTab(u, Background(u))
  PROVE  Untouched(u) /\ Reached(u)'
<1>1. /\ Phone(u) /\ CleaningTypeOK
      /\ phase \in [Users -> Phases] /\ asked \in [Users -> SUBSET {"users", "houses"}]
  BY DEF CleaningInv, Schedules, CleaningTypeOK, DeviceTypeOK
<1>3. CASE ApplyPut(u)
  <2>1. UNCHANGED <<online, phase, screen, then, asked, me, known>>
    BY <1>3 DEF ApplyPut, memory
  <2>2. UNCHANGED <<canCreate, top>>
    BY <2>1 DEF WithTab, Running
  <2> QED
    BY <2>1, <2>2 DEF Untouched, Reached, Ready
<1>4. CASE ServeUsers(u)
  <2>1. UNCHANGED <<online, phase, screen, then>> /\ "users" \in asked[u]
    BY <1>4 DEF ServeUsers
  <2>2. UNCHANGED <<canCreate, top>>
    BY <2>1 DEF WithTab, Running
  <2>3. /\ known'[u] /\ me'[u].house = users[u].house
        /\ \A v \in Users \ {u} : asked'[v] = asked[v] /\ known'[v] = known[v] /\ me'[v] = me[v]
    <3>1. me'[u].house = IF users[u].house = Null THEN me[u].house ELSE users[u].house
      <4>1. users[u] \in UserNode /\ Answer(u).users = users
        BY <1>4, ConnectedAnswer DEF ServeUsers, CleaningInv, CleaningTypeOK, DeviceTypeOK
      <4> QED
        BY <1>4, <4>1 DEF ServeUsers, UserNode, CleaningInv, CleaningTypeOK, DeviceTypeOK
    <3>2. me'[u].house = users[u].house
      BY <1>1, <3>1 DEF Phone
    <3>3. known'[u] /\ \A v \in Users \ {u} :
                         asked'[v] = asked[v] /\ known'[v] = known[v] /\ me'[v] = me[v]
      BY <1>4 DEF ServeUsers, CleaningInv, CleaningTypeOK, DeviceTypeOK
    <3> QED
      BY <3>2, <3>3
  <2>4. phase[u] \in {"loading", "frozen"}
    BY <1>1, <2>1 DEF Phone
  <2>5. me[u].house # Null => me'[u].house # Null
    BY <1>1, <2>3 DEF Phone
  <2> QED
    BY <2>1, <2>2, <2>3, <2>4, <2>5 DEF Untouched, Reached, Ready
<1>5. CASE ServeHouses(u)
  <2>1. phase[u] \in {"loading", "frozen"} /\ UNCHANGED online
    BY <1>1, <1>5 DEF ServeHouses, Phone
  <2>2. CASE Crash(u)
    <3>1. phase'[u] = "crashed"
      BY <1>1, <2>2 DEF Crash, Stop
    <3>2. ForgetTab(u)
      BY <2>1, <3>1 DEF WithTab, Running
    <3> QED
      BY <1>1, <2>1, <2>2, <3>2, StopReached DEF Crash
  <2>3. CASE ~Crash(u)
    <3>1. /\ asked' = [asked EXCEPT ![u] = @ \ {"houses"}]
          /\ phase' = [phase EXCEPT ![u] = IF Answer(u).houses = NoHouses THEN "frozen" ELSE @]
          /\ UNCHANGED <<screen, then, me, known>>
      BY <1>5, <2>3 DEF ServeHouses
    <3>2. phase'[u] \in {phase[u], "frozen"} /\ UNCHANGED <<canCreate, top>>
      BY <1>1, <2>1, <3>1 DEF WithTab, Running
    <3>3. Untouched(u)
      BY <1>1, <2>1, <3>1, <3>2 DEF Untouched
    <3>4. "users" \notin asked'[u] => "users" \notin asked[u]
      BY <1>1, <3>1
    <3> QED
      BY <2>1, <3>1, <3>2, <3>3, <3>4 DEF Reached, Ready
  <2> QED
    BY <2>2, <2>3
<1> QED
  BY <1>3, <1>4, <1>5 DEF WithTab, Background

LEMMA HandlersReached ==
  ASSUME CleaningInv, NEW u \in Users, Reached(u), WithTab(u, HomeHandlers(u))
  PROVE  Untouched(u) /\ Reached(u)'
<1>1. HomeHandlers(u) /\ HomeTypeOK /\ CleaningTypeOK
  BY DEF WithTab, CleaningInv, CleaningTypeOK, HomeTypeOK
<1>2. /\ phase[u] = "loading" /\ asked[u] = {} /\ UNCHANGED online
      /\ HandlerEnds(u) \/ HandlerRestarts(u)
  BY <1>1, HomeHandlersDo
<1>3. then[u].step # "clean" /\ known[u] /\ screen[u] # "clean"
  <2>1. then[u].step \in {"appear", "checkWeek", "show"}
    BY <1>1
    DEF HomeHandlers, HomeAppeared, HomeWeekSet, HomeScheduleRestarted, HomeReloaded, Loaded
  <2> QED
    BY <1>2, <2>1 DEF Reached
<1>4. CASE Crash(u)
  <2>1. phase'[u] = "crashed"
    BY <1>1, <1>4 DEF Crash, Stop, HomeTypeOK, DeviceTypeOK
  <2>2. ForgetTab(u)
    BY <1>2, <2>1 DEF WithTab, Running
  <2> QED
    BY <1>1, <1>2, <1>4, <2>2, StopReached DEF Crash
<1>5. CASE Rest(u) /\ UNCHANGED <<screen, me>>
  <2>1. /\ phase'[u] = "ready"
        /\ \A v \in Users \ {u} : phase'[v] = phase[v] /\ then'[v] = then[v]
        /\ UNCHANGED <<asked, known>>
    BY <1>1, <1>5 DEF Rest, HomeTypeOK, DeviceTypeOK
  <2>2. UNCHANGED <<canCreate, top>>
    BY <2>1 DEF WithTab, Running
  <2> QED
    BY <1>2, <1>3, <1>5, <2>1, <2>2 DEF Untouched, Reached, Ready
<1>6. CASE HandlerRestarts(u)
  <2>1. PICK next \in {"checkWeek", "show"} :
          GetAllData(u, Run(next)) /\ UNCHANGED <<screen, me>>
    BY <1>6 DEF HandlerRestarts, RestartSchedule
  <2>2. /\ phase'[u] = "loading"
        /\ \A v \in Users \ {u} :
             phase'[v] = phase[v] /\ then'[v] = then[v] /\ asked'[v] = asked[v] /\ known'[v] = known[v]
    BY <1>1, <2>1 DEF Reached, GetAllData, HomeTypeOK, DeviceTypeOK
  <2>3. UNCHANGED <<canCreate, top>>
    BY <2>2 DEF WithTab, Running
  <2>4. Reached(u)'
    <3>1. screen'[u] # "clean" /\ (screen'[u] = "schedule" => top'[u] = "schedule")
      BY <1>3, <2>1, <2>3 DEF Reached
    <3> QED
      BY <1>1, <1>2, <2>1, <2>3, <3>1, LoadReached
  <2> QED
    BY <1>2, <2>1, <2>2, <2>3, <2>4 DEF Untouched
<1> QED
  BY <1>2, <1>4, <1>5, <1>6 DEF HandlerEnds

LEMMA HomeTapsReached ==
  ASSUME Offline = {}, CleaningInv, NEW u \in Users, Reached(u),
         WithTab(u, HomeTaps(u) \/ Lifecycle(u))
  PROVE  Untouched(u) /\ Reached(u)'
<1>1. CleaningTypeOK /\ phase \in [Users -> Phases]
  BY DEF CleaningInv, CleaningTypeOK, DeviceTypeOK
<1>2. CASE Refresh(u) \/ Launch(u)
  <2>1. GetAllData(u, Run("appear")) /\ UNCHANGED <<online, me>>
    BY <1>2 DEF Refresh, Launch
  <2>2. /\ phase'[u] = "loading"
        /\ \A v \in Users \ {u} :
             phase'[v] = phase[v] /\ then'[v] = then[v] /\ asked'[v] = asked[v] /\ known'[v] = known[v]
    BY <1>1, <2>1 DEF Reached, GetAllData, CleaningTypeOK, DeviceTypeOK
  <2>3. UNCHANGED <<canCreate, top>>
    BY <2>2 DEF WithTab, Running
  <2>4. screen'[u] = "home" /\ \A v \in Users \ {u} : screen'[v] = screen[v]
    BY <1>1, <1>2 DEF Refresh, Launch, Ready, CleaningTypeOK, DeviceTypeOK
  <2>5. Reached(u)'
    BY <1>1, <2>1, <2>3, <2>4, LoadReached
  <2> QED
    BY <2>1, <2>2, <2>3, <2>4, <2>5 DEF Untouched
<1>3. CASE Quit(u)
  <2>1. Stop(u, "off") /\ Running(u) /\ phase'[u] = "off" /\ UNCHANGED online
    BY <1>1, <1>3 DEF Quit, Stop
  <2>2. ForgetTab(u)
    BY <2>1 DEF WithTab, Running
  <2> QED
    BY <1>1, <2>1, <2>2, StopReached
<1>4. CASE DinnerSwitch(u)
  <2>1. known[u]
    BY <1>4 DEF DinnerSwitch, Ready, Reached
  <2>2. UNCHANGED <<online, phase, screen, then, asked, me, known>>
    BY <1>4, <2>1 DEF DinnerSwitch, memory
  <2>3. UNCHANGED <<canCreate, top>>
    BY <2>2 DEF WithTab, Running
  <2> QED
    BY <2>2, <2>3 DEF Untouched, Reached, Ready
<1>5. ~LoseConnection(u) /\ ~RegainConnection(u)
  BY DEF LoseConnection, RegainConnection, Reached
<1> QED
  BY <1>2, <1>3, <1>4, <1>5 DEF WithTab, HomeTaps, Lifecycle

LEMMA TabReached ==
  ASSUME CleaningInv, NEW u \in Users, Reached(u),
         \/ CleanShown(u) \/ SaveSchedule(u)
         \/ SegmentTapped(u) \/ PushSchedule(u) \/ plusButtonTapped(u) \/ DeleteTask(u)
         \/ Scheduled(u) \/ Okay(u) \/ Back(u) \/ TabToClean(u) \/ TabToHome(u)
  PROVE  Untouched(u) /\ Reached(u)'
<1>1. CleaningTypeOK
  BY DEF CleaningInv
<1>2. CASE Trap(u)
  BY <1>1, <1>2, StopReached DEF Trap, Crash
<1>3. CASE CleanShown(u) /\ ~Trap(u)
  <2>1. /\ phase[u] = "loading" /\ asked[u] = {} /\ Rest(u)
        /\ UNCHANGED <<online, screen, me, top>>
        /\ canCreate'[u] => me[u].house # Null
        /\ \A v \in Users \ {u} : canCreate'[v] = canCreate[v]
    BY <1>1, <1>3 DEF CleanShown, CleanFilled, Loaded, CleaningTypeOK
  <2>2. /\ phase'[u] = "ready" /\ UNCHANGED <<asked, known>>
        /\ \A v \in Users \ {u} : phase'[v] = phase[v] /\ then'[v] = then[v]
    BY <1>1, <2>1 DEF Rest, CleaningTypeOK, DeviceTypeOK
  <2> QED
    BY <2>1, <2>2 DEF Untouched, Reached, Ready
<1>4. CASE SaveSchedule(u) /\ ~Trap(u)
  <2>1. /\ GetAllData(u, Run("scheduled")) /\ screen[u] = "schedule"
        /\ UNCHANGED <<online, screen, me, canCreate, top>>
    BY <1>4 DEF SaveSchedule, Ready
  <2>2. Reached(u)'
    BY <1>1, <2>1, LoadReached DEF Reached
  <2>3. Untouched(u)
    BY <1>1, <2>1 DEF Untouched, GetAllData, CleaningTypeOK, DeviceTypeOK
  <2> QED
    BY <2>2, <2>3
<1>5. ASSUME CleanAppears(u) PROVE Untouched(u) /\ Reached(u)'
  <2>1. /\ GetAllData(u, Run("clean")) /\ screen'[u] = "clean" /\ top'[u] = "clean"
        /\ UNCHANGED <<online, me, canCreate>>
        /\ \A v \in Users \ {u} : screen'[v] = screen[v] /\ top'[v] = top[v]
    BY <1>1, <1>5 DEF CleanAppears, CleaningTypeOK, DeviceTypeOK
  <2>2. Reached(u)'
    BY <1>1, <2>1, LoadReached
  <2>3. Untouched(u)
    BY <1>1, <2>1 DEF Untouched, GetAllData, CleaningTypeOK, DeviceTypeOK
  <2> QED
    BY <2>2, <2>3
<1>6. CASE TabToHome(u)
  <2>1. /\ GetAllData(u, Run("appear")) /\ screen'[u] = "home"
        /\ UNCHANGED <<online, me, canCreate, top>>
        /\ \A v \in Users \ {u} : screen'[v] = screen[v]
    BY <1>1, <1>6 DEF TabToHome, CleaningTypeOK, DeviceTypeOK
  <2>2. Reached(u)'
    BY <1>1, <2>1, LoadReached
  <2>3. Untouched(u)
    BY <1>1, <2>1 DEF Untouched, GetAllData, CleaningTypeOK, DeviceTypeOK
  <2> QED
    BY <2>2, <2>3
<1>7. CASE PushSchedule(u) \/ (TabToClean(u) /\ ~CleanAppears(u))
  <2>1. /\ phase[u] = "ready" /\ screen'[u] = "schedule" /\ top'[u] = "schedule"
        /\ me[u].house # Null
        /\ UNCHANGED <<online, phase, then, asked, me, known, canCreate>>
        /\ \A v \in Users \ {u} : screen'[v] = screen[v] /\ top'[v] = top[v]
    BY <1>1, <1>7
    DEF PushSchedule, TabToClean, Ready, Reached, memory, CleaningTypeOK, DeviceTypeOK
  <2> QED
    BY <2>1 DEF Untouched, Reached, Ready
<1>8. CASE Scheduled(u)
  <2>1. /\ phase[u] = "loading" /\ asked[u] = {} /\ phase'[u] = "alert"
        /\ UNCHANGED <<online, screen, then, asked, me, known, canCreate, top>>
        /\ \A v \in Users \ {u} : phase'[v] = phase[v]
    BY <1>1, <1>8 DEF Scheduled, Loaded, memory, CleaningTypeOK, DeviceTypeOK
  <2> QED
    BY <2>1 DEF Untouched, Reached, Ready
<1>9. CASE SegmentTapped(u) \/ plusButtonTapped(u) \/ DeleteTask(u)
  <2>1. UNCHANGED <<online, phase, screen, then, asked, me, known, canCreate, top>>
    BY <1>9 DEF SegmentTapped, plusButtonTapped, DeleteTask, homeVars, deviceVars
  <2> QED
    BY <2>1 DEF Untouched, Reached, Ready
<1> QED
  BY <1>2, <1>3, <1>4, <1>5, <1>6, <1>7, <1>8, <1>9 DEF Okay, Back, TabToClean

LEMMA ReachedSteps ==
  ASSUME Offline = {}, CleaningInv, ReachedInv, [CleaningNext]_cleaningVars
  PROVE  ReachedInv'
<1>1. CASE UNCHANGED cleaningVars \/ Calendar
  BY <1>1
  DEF cleaningVars, homeVars, deviceVars, Calendar, HomeCalendar, NewWeek, memory,
      ReachedInv, Reached, Ready
<1>2. ASSUME NEW u \in Users, Serve(u) \/ Handle(u) \/ Tap(u) PROVE ReachedInv'
  <2>1. Untouched(u) /\ Reached(u)'
    BY <1>2, BackgroundReached, HandlersReached, HomeTapsReached, TabReached
    DEF ReachedInv, Serve, Handle, Tap
  <2>2. \A v \in Users \ {u} : Reached(v)'
    BY <2>1 DEF ReachedInv, Reached, Ready, Untouched
  <2> QED
    BY <2>1, <2>2 DEF ReachedInv
<1> QED
  BY <1>1, <1>2 DEF CleaningNext

LEMMA ReachedAlways ==
  ASSUME Killable = {}, Offline = {}
  PROVE  CleaningSpec => []ReachedInv
<1>1. CleaningInit => ReachedInv
  BY DEF CleaningInit, HomeInit, DeviceInit, ReachedInv, Reached, Ready
<1>2. CleaningInv /\ ReachedInv /\ [CleaningNext]_cleaningVars => ReachedInv'
  BY ReachedSteps
<1> QED
  BY <1>1, <1>2, SchedulesInvariant, PTL DEF CleaningSpec

\* No handler of Home traps.
LEMMA HandlersRun ==
  ASSUME CleaningInv, NEW u \in Users, HomeHandlers(u)
  PROVE  phase'[u] # "crashed"
<1>. DEFINE h == me[u].house
<1>1. /\ phase[u] = "loading" /\ asked[u] = {} /\ phase \in [Users -> Phases]
  BY DEF HomeHandlers, HomeAppeared, HomeWeekSet, HomeScheduleRestarted, HomeReloaded, Loaded,
         CleaningInv, CleaningTypeOK, DeviceTypeOK
<1>2. CASE h = Null
  <2>1. then[u].step \notin {"checkWeek", "show"}
    BY <1>1, <1>2, LoadedHouse
  <2>2. HomeAppeared(u)
    BY <2>1 DEF HomeHandlers, HomeWeekSet, HomeScheduleRestarted, HomeReloaded, Loaded
  <2> QED
    BY <1>1, <1>2, <2>2 DEF HomeAppeared, Rest
<1>3. CASE h # Null
  <2>1. CASE phase'[u] = "loading"
    BY <2>1
  <2>2. CASE /\ showCurrentTask(u, h)
             /\ weekIndex(seen[u][h]) \in 0 .. Cardinality(residents[u]) - 1
    <3>1. u \in seen[u][h].residents /\ Cardinality(residents[u]) \in Nat
      BY <1>1, <1>3, LoadedHouse
    <3>2. InRows(u, seen[u][h])
      BY <2>2, <3>1 DEF InRows
    <3>3. Rest(u)
      BY <2>2, <3>1, <3>2 DEF showCurrentTask
    <3> QED
      BY <1>1, <3>3 DEF Rest
  <2> QED
    BY <1>3, <2>1, <2>2, HandlersInWeek
<1> QED
  BY <1>2, <1>3

\* A read of houses/ traps only on a house that another phone is writing.
LEMMA HousesTrap ==
  ASSUME CleaningInv, NEW u \in Users, uplink[u] = << >>, ~Parsable(houses)
  PROVE  HalfSaved(u)
<1>1. PICK h \in Houses : houses[h] # NoHouse /\ ~Complete(houses[h])
  BY DEF Parsable
<1>2. Sound(houses[h], h) /\ \E v \in Users : users[v].house = h
  BY <1>1 DEF CleaningInv, Schedules, Tree
<1>3. houses[h].firstWeek # Null
  BY <1>2, DeviceAssumption, NamesAssumption DEF Sound
<1>4. houses[h].tasks = {}
  BY <1>1, <1>2, <1>3 DEF Complete, Sound
<1>5. PICK v \in Users : uplink[v] # << >> /\ Head(uplink[v]).path = "houses/tasks/task"
  BY <1>1, <1>4 DEF CleaningInv, Schedules, Halves
<1> QED
  BY <1>4, <1>5 DEF HalfSaved

(* The causes of a trap in the two tabs (DataController.swift:117,         *)
(* CleanViewController.swift:102), for any number of flatmates: no row of  *)
(* Home or of the table is out of range, no node is missing and no user    *)
(* without a house saves a schedule.  Without a connection the last is not *)
(* so.                                                                     *)
THEOREM TrapsHaveCauses ==
  ASSUME Killable = {}, Offline = {}
  PROVE  CleaningSpec => TrapCauses
<1>. DEFINE Caused(u) == phase[u] # "crashed" /\ phase'[u] = "crashed" =>
               HalfSaved(u) \/ (Loaded(u, "clean") /\ NoSegment(u))
<1>1. ASSUME CleaningInv, ReachedInv, CleaningNext, NEW w \in Users,
             phase[w] # "crashed", phase'[w] = "crashed"
      PROVE  HalfSaved(w) \/ (Loaded(w, "clean") /\ NoSegment(w))
  <2>1. phase \in [Users -> Phases]
    BY <1>1 DEF CleaningInv, CleaningTypeOK, DeviceTypeOK
  <2>2. ~Calendar
    BY <1>1 DEF Calendar, HomeCalendar, NewWeek
  <2>3. PICK u \in Users : Serve(u) \/ Handle(u) \/ Tap(u)
    BY <1>1, <2>2 DEF CleaningNext
  <2>4. w = u
    <3>1. Untouched(u)
      BY <1>1, <2>3, BackgroundReached, HandlersReached, HomeTapsReached, TabReached
      DEF ReachedInv, Serve, Handle, Tap
    <3> QED
      BY <1>1, <3>1 DEF Untouched
  <2>5. Reached(u)
    BY <1>1 DEF ReachedInv
  <2>6. CASE Serve(u)
    <3>0. ServeHouses(u)
      BY <1>1, <2>4, <2>6 DEF Serve, WithTab, Background, ApplyPut, ServeUsers
    <3>1. ServeHouses(u) /\ uplink[u] = << >> /\ Answer(u).houses = houses
      BY <3>0, ConnectedAnswer DEF ServeHouses
    <3>2. phase[u] \in {"loading", "frozen"}
      BY <1>1, <3>1 DEF ServeHouses, CleaningInv, Schedules, Phone
    <3>3. ~Parsable(houses)
      BY <1>1, <2>1, <2>4, <3>1, <3>2 DEF ServeHouses
    <3> QED
      BY <1>1, <2>4, <3>1, <3>3, HousesTrap
  <2>7. CASE Handle(u)
    <3>1. CleanShown(u)
      BY <1>1, <2>1, <2>4, <2>7, HandlersRun DEF Handle, WithTab, Scheduled
    <3>2. Trap(u) /\ me[u].house # Null
      BY <1>1, <2>1, <2>4, <3>1 DEF CleanShown, CleanFilled, Rest
    <3>3. phase[u] = "loading" /\ asked[u] = {}
      BY <3>1 DEF CleanShown, Loaded
    <3>4. seen[u][me[u].house] # NoHouse /\ residents[u] # {}
      BY <1>1, <3>2, <3>3, LoadedHouse DEF Sound
    <3>5. CleanFilled(u, me[u].house)
      BY <3>1, <3>2 DEF CleanShown
    <3>6. NoSegment(u)
      <4>1. ASSUME ~NoSegment(u) PROVE Rest(u)
        BY <3>4, <3>5, <4>1 DEF CleanFilled, NoSegment
      <4> QED
        BY <1>1, <2>1, <2>4, <4>1 DEF Rest
    <3> QED
      BY <2>4, <3>1, <3>6 DEF CleanShown
  <2>8. ~Tap(u)
    <3>1. ASSUME HomeTaps(u) \/ Lifecycle(u) PROVE FALSE
      BY <1>1, <2>1, <2>4, <2>5, <3>1
      DEF HomeTaps, Lifecycle, Refresh, DinnerSwitch, Launch, Quit, LoseConnection,
          RegainConnection, GetAllData, Ready, Stop, Reached
    <3>2. ASSUME CleanAppears(u) PROVE FALSE
      BY <1>1, <2>1, <2>4, <3>2 DEF CleanAppears, GetAllData
    <3>3. ASSUME SaveSchedule(u) PROVE FALSE
      <4>1. me[u].house # Null
        BY <2>5, <3>3 DEF SaveSchedule, Ready, Reached
      <4> QED
        BY <1>1, <2>1, <2>4, <3>3, <4>1 DEF SaveSchedule, GetAllData
    <3>4. ASSUME \/ SegmentTapped(u) \/ plusButtonTapped(u) \/ DeleteTask(u) \/ PushSchedule(u)
                 \/ (TabToClean(u) /\ ~CleanAppears(u)) \/ TabToHome(u)
          PROVE  FALSE
      BY <1>1, <2>1, <2>4, <3>4
      DEF SegmentTapped, plusButtonTapped, DeleteTask, PushSchedule, TabToClean, TabToHome,
          GetAllData, homeVars, deviceVars
    <3> QED
      BY <3>1, <3>2, <3>3, <3>4 DEF Tap, WithTab, Okay, Back, TabToClean
  <2> QED
    BY <2>3, <2>6, <2>7, <2>8
<1>2. CleaningInv /\ ReachedInv /\ [CleaningNext]_cleaningVars =>
        [\A u \in Users : Caused(u)]_cleaningVars
  BY <1>1
<1>3. [\A u \in Users : Caused(u)]_cleaningVars =>
        [\A u \in Users : phase[u] # "crashed" /\ phase'[u] = "crashed" =>
           HalfSaved(u) \/ (Loaded(u, "clean") /\ NoSegment(u))]_cleaningVars
  OBVIOUS
<1> QED
  BY <1>2, <1>3, SchedulesInvariant, ReachedAlways, PTL DEF CleaningSpec, TrapCauses

=============================================================================
