----------------------------- MODULE HomeProofs -----------------------------
(***************************************************************************)
(* What the proofs about the other screens share, for any sets of users,   *)
(* houses, tasks and passwords.  First the types: the tree under a write,  *)
(* the pieces of Device that actions are made of, and the steps of Home.   *)
(* Then, for a use in turns: the tree ahead, on which the two records of   *)
(* who lives where agree, and the copy of the phone in use beside it.      *)
(***************************************************************************)
EXTENDS Home, DatabaseProofs, FiniteSetTheorems

HomeTypeOK == DeviceTypeOK /\ LabelTypeOK

-----------------------------------------------------------------------------
\* Applying a write keeps the tree well formed.
LEMMA PutsKeepTree ==
  ASSUME NEW us \in [Users -> UserNode], NEW hs \in [Houses -> HouseNode],
         NEW p \in Puts
  PROVE  /\ UsersAfter(us, p) \in [Users -> UserNode]
         /\ HousesAfter(hs, p) \in [Houses -> HouseNode]
<1>1. CASE p.path = "users/house"
  BY <1>1 DEF Puts, UsersAfter, HousesAfter, UserNode
<1>2. CASE p.path = "users/drinks"
  BY <1>2 DEF Puts, UsersAfter, HousesAfter, UserNode
<1>3. CASE p.path = "users/drinksToBuy"
  BY <1>3 DEF Puts, UsersAfter, HousesAfter, UserNode
<1>4. CASE p.path = "users/dinner"
  BY <1>4 DEF Puts, UsersAfter, HousesAfter, UserNode
<1>5. CASE p.path = "houses"
  BY <1>5 DEF Puts, UsersAfter, HousesAfter
<1>6. CASE p.path = "houses/drinks"
  BY <1>6 DEF Puts, UsersAfter, HousesAfter, HouseNode
<1>7. CASE p.path = "houses/firstWeek"
  BY <1>7 DEF Puts, UsersAfter, HousesAfter, HouseNode
<1>8. CASE p.path = "houses/residents"
  BY <1>8 DEF Puts, UsersAfter, HousesAfter, HouseNode
<1>9. CASE p.path = "houses/tasks"
  BY <1>9 DEF Puts, UsersAfter, HousesAfter, HouseNode
<1>10. CASE p.path = "houses/tasks/task"
  BY <1>10 DEF Puts, UsersAfter, HousesAfter, HouseNode
<1> QED
  BY <1>1, <1>2, <1>3, <1>4, <1>5, <1>6, <1>7, <1>8, <1>9, <1>10 DEF Puts

\* The constant nodes.
LEMMA NodesTyped ==
  /\ NoUser \in UserNode
  /\ NoHouse \in HouseNode
  /\ NoHouses \in [Houses -> HouseNode]
  /\ \A u \in Users, pw \in Passwords : NewHouse(u, pw) \in HouseNode
  /\ \A hs \in [Houses -> HouseNode] : ParsedHouses(hs) \in [Houses -> HouseNode]
<1>1. NoUser \in UserNode
  BY DEF NoUser, UserNode
<1>2. NoHouse \in HouseNode
  BY DEF NoHouse, HouseNode
<1>3. NoHouses \in [Houses -> HouseNode]
  BY <1>2 DEF NoHouses
<1>4. \A u \in Users, pw \in Passwords : NewHouse(u, pw) \in HouseNode
  BY NamesAssumption DEF NewHouse, HouseNode
<1>5. \A hs \in [Houses -> HouseNode] : ParsedHouses(hs) \in [Houses -> HouseNode]
  BY DEF ParsedHouses, ParsedTasks, HouseNode
<1> QED
  BY <1>1, <1>2, <1>3, <1>4, <1>5

\* The trees of the database.
Trees == [users: [Users -> UserNode], houses: [Houses -> HouseNode]]

LEMMA AfterTyped ==
  ASSUME NEW tree \in Trees, NEW p \in Puts
  PROVE  After(tree, p) \in Trees
BY PutsKeepTree DEF After, Trees

LEMMA AppliedTyped ==
  ASSUME NEW tree \in Trees, NEW q \in Seq(Puts)
  PROVE  Applied(tree, q) \in Trees
<1>. DEFINE c == Course(tree, q)
            Bad == {n \in 0 .. Len(q) : c[n] \notin Trees}
<1>1. c[0] = tree /\ \A n \in 1 .. Len(q) : c[n] = After(c[n - 1], q[n])
  BY CourseStep
<1>. HIDE DEF c
<1>2. Len(q) \in Nat /\ \A n \in 1 .. Len(q) : q[n] \in Puts
  OBVIOUS
<1>3. Bad = {}
  <2> SUFFICES ASSUME Bad # {} PROVE FALSE
    OBVIOUS
  <2>1. PICK n \in Bad : \A k \in Bad : n <= k
    <3>1. Bad \in SUBSET Nat
      BY <1>2
    <3> QED
      BY <3>1, LeastNatural
  <2>2. n \in 1 .. Len(q)
    BY <1>1, <1>2, <2>1
  <2>3. n - 1 \in 0 .. Len(q) /\ n - 1 \notin Bad
    BY <1>2, <2>1, <2>2
  <2>4. After(c[n - 1], q[n]) \in Trees
    BY <1>2, <2>2, <2>3, AfterTyped
  <2> QED
    BY <1>1, <2>1, <2>2, <2>4
<1>4. c[Len(q)] \in Trees
  BY <1>2, <1>3
<1> QED
  BY <1>4 DEF Applied, c

\* What a phone is answered is a tree of the database, and the server's own as
\* long as its connection lasts.
LEMMA AnswerTyped ==
  ASSUME DeviceTypeOK, NEW u \in Users
  PROVE  /\ Answer(u) \in Trees
         /\ Answer(u).users[u] \in UserNode
         /\ Answer(u).houses \in [Houses -> HouseNode]
<1>1. Server \in Trees /\ uplink[u] \in Seq(Puts)
  BY DEF Server, Trees, DeviceTypeOK
<1>2. Answer(u) \in Trees
  BY <1>1, AppliedTyped DEF Answer
<1> QED
  BY <1>2 DEF Trees

LEMMA AnswerIsServer ==
  ASSUME NEW u \in Users, uplink[u] = << >>
  PROVE  /\ Answer(u) = Server
         /\ Answer(u).users = users
         /\ Answer(u).houses = houses
<1>1. Answer(u) = Server
  BY AppliedNothing DEF Answer
<1> QED
  BY <1>1 DEF Server

LEMMA ConnectedAnswer ==
  ASSUME NEW u \in Users, u \notin Offline, Answerable(u)
  PROVE  /\ online[u] /\ uplink[u] = << >>
         /\ Answer(u) = Server
         /\ Answer(u).users = users
         /\ Answer(u).houses = houses
BY AnswerIsServer DEF Answerable

LEMMA HomePutsTyped ==
  ASSUME DeviceTypeOK, NEW u \in Users, NEW h \in Houses, NEW b \in BOOLEAN
  PROVE  /\ <<SetFirstWeek(h, getCurrentWeek)>> \in Seq(Puts)
         /\ <<SetDinner(u, b)>> \in Seq(Puts)
<1>1. getCurrentWeek \in Int
  BY DeviceAssumption DEF getCurrentWeek, DeviceTypeOK
<1> QED
  BY <1>1 DEF SetFirstWeek, SetDinner, Puts

\* The pieces the actions are made of, each for the variables it changes.
LEMMA IssueTyped ==
  ASSUME DeviceTypeOK, NEW u \in Users, NEW puts \in Seq(Puts), Issue(u, puts)
  PROVE  uplink' \in [Users -> Seq(Puts)]
BY DEF DeviceTypeOK, Issue

LEMMA GetAllDataTyped ==
  ASSUME DeviceTypeOK, NEW u \in Users, NEW next \in Handlers, GetAllData(u, next)
  PROVE  /\ phase' \in [Users -> Phases]
         /\ then' \in [Users -> Handlers]
         /\ asked' \in [Users -> SUBSET {"users", "houses"}]
         /\ seen' \in [Users -> [Houses -> HouseNode]]
         /\ known' \in [Users -> BOOLEAN]
<1>1. Nothing \in Handlers /\ {"loading", "ready"} \subseteq Phases
  BY DEF Nothing, Run, Handlers, Steps, Phases
<1>2. CASE online[u]
  <2>1. /\ phase' = [phase EXCEPT ![u] = "loading"]
        /\ then' = [then EXCEPT ![u] = next]
        /\ asked' = [asked EXCEPT ![u] = {"users", "houses"}]
        /\ seen' = [seen EXCEPT ![u] = NoHouses]
        /\ known' = [known EXCEPT ![u] = FALSE]
    BY <1>2 DEF GetAllData
  <2>2. asked' \in [Users -> SUBSET {"users", "houses"}]
    BY <2>1 DEF DeviceTypeOK
  <2>3. seen' \in [Users -> [Houses -> HouseNode]]
    BY <2>1, NodesTyped DEF DeviceTypeOK
  <2> QED
    BY <1>1, <2>1, <2>2, <2>3 DEF DeviceTypeOK
<1>3. CASE ~online[u]
  <2>1. /\ phase' = [phase EXCEPT ![u] = "ready"]
        /\ then' = [then EXCEPT ![u] = Nothing]
        /\ UNCHANGED <<asked, seen, known>>
    BY <1>3 DEF GetAllData
  <2> QED
    BY <1>1, <2>1 DEF DeviceTypeOK
<1> QED
  BY <1>2, <1>3

LEMMA RestTyped ==
  ASSUME DeviceTypeOK, NEW u \in Users, Rest(u)
  PROVE  /\ phase' \in [Users -> Phases]
         /\ then' \in [Users -> Handlers]
         /\ UNCHANGED <<uplink, asked, known, seen, residents>>
<1>1. Nothing \in Handlers /\ "ready" \in Phases
  BY DEF Nothing, Run, Handlers, Steps, Phases
<1> QED
  BY <1>1 DEF Rest, DeviceTypeOK

LEMMA StopTyped ==
  ASSUME DeviceTypeOK, NEW u \in Users, NEW how \in {"off", "crashed"}, Stop(u, how)
  PROVE  /\ phase' \in [Users -> Phases]
         /\ screen' \in [Users -> Screens]
         /\ uplink' \in [Users -> Seq(Puts)]
         /\ then' \in [Users -> Handlers]
         /\ asked' \in [Users -> SUBSET {"users", "houses"}]
         /\ me' \in [Users -> UserNode]
         /\ known' \in [Users -> BOOLEAN]
         /\ seen' \in [Users -> [Houses -> HouseNode]]
         /\ residents' \in [Users -> SUBSET Users]
<1>1. Nothing \in Handlers /\ how \in Phases /\ "home" \in Screens
  BY DEF Nothing, Run, Handlers, Steps, Phases, Screens
<1>2. << >> \in Seq(Puts)
  OBVIOUS
<1> QED
  BY <1>1, <1>2, NodesTyped DEF Stop, DeviceTypeOK

\* The write on which a process ends is one of the dinner switch's.
LEMMA LastWriteTyped ==
  ASSUME DeviceTypeOK, NEW u, NEW v \in Users, NEW b \in BOOLEAN, LastWrite(u, SetDinner(v, b))
  PROVE  /\ users' \in [Users -> UserNode]
         /\ houses' \in [Houses -> HouseNode]
         /\ UNCHANGED houses
         /\ \A w \in Users : users'[w].house = users[w].house
<1>1. SetDinner(v, b) \in Puts
  BY DEF SetDinner, Puts
<1>2. /\ UsersAfter(users, SetDinner(v, b)) = [users EXCEPT ![v].dinner = b]
      /\ HousesAfter(houses, SetDinner(v, b)) = houses
  BY DEF UsersAfter, HousesAfter, SetDinner
<1>3. CASE UNCHANGED database
  BY <1>3 DEF database, DeviceTypeOK
<1>4. CASE ~UNCHANGED database
  <2>1. users' = [users EXCEPT ![v].dinner = b] /\ houses' = houses
    BY <1>2, <1>4 DEF LastWrite
  <2>2. users' \in [Users -> UserNode]
    <3>1. UsersAfter(users, SetDinner(v, b)) \in [Users -> UserNode]
      BY <1>1, PutsKeepTree DEF DeviceTypeOK
    <3>2. users' = UsersAfter(users, SetDinner(v, b))
      BY <1>4 DEF LastWrite
    <3> QED
      BY <3>1, <3>2
  <2>3. \A w \in Users : users'[w].house = users[w].house
    BY <2>1 DEF DeviceTypeOK, UserNode
  <2> QED
    BY <2>1, <2>2, <2>3 DEF DeviceTypeOK
<1> QED
  BY <1>3, <1>4

LEMMA HouseInfoTyped ==
  ASSUME DeviceTypeOK, NEW u \in Users, NEW home \in Houses \cup {Null},
         NEW hs \in [Houses -> HouseNode], SetHouseInfo(u, home, hs)
  PROVE  residents' \in [Users -> SUBSET Users]
<1>1. CASE home # Null /\ hs[home] # NoHouse
  <2>1. hs[home].residents \in SUBSET Users
    BY <1>1 DEF HouseNode
  <2> QED
    BY <1>1, <2>1 DEF SetHouseInfo, DeviceTypeOK
<1>2. CASE ~(home # Null /\ hs[home] # NoHouse)
  BY <1>2 DEF SetHouseInfo, DeviceTypeOK
<1> QED
  BY <1>1, <1>2

-----------------------------------------------------------------------------
\* The steps that need no tap.
LEMMA BackgroundTyped ==
  ASSUME HomeTypeOK, NEW u \in Users, Background(u)
  PROVE  HomeTypeOK'
<1>2. CASE ApplyPut(u) /\ UNCHANGED label
  <2>1. uplink[u] \in Seq(Puts) /\ uplink[u] # << >>
    BY <1>2 DEF ApplyPut, HomeTypeOK, DeviceTypeOK
  <2>2. Head(uplink[u]) \in Puts /\ Tail(uplink[u]) \in Seq(Puts)
    BY <2>1
  <2>3. users' \in [Users -> UserNode] /\ houses' \in [Houses -> HouseNode]
    BY <1>2, <2>2, PutsKeepTree DEF ApplyPut, HomeTypeOK, DeviceTypeOK
  <2>4. uplink' \in [Users -> Seq(Puts)]
    BY <1>2, <2>2 DEF ApplyPut, HomeTypeOK, DeviceTypeOK
  <2> QED
    BY <1>2, <2>3, <2>4
    DEF ApplyPut, HomeTypeOK, DeviceTypeOK, LabelTypeOK, memory
<1>3. CASE ServeUsers(u) /\ UNCHANGED label
  <2>. DEFINE own == Answer(u).users[u]
              home == IF own.house = Null THEN me[u].house ELSE own.house
  <2>00. own \in UserNode
    BY AnswerTyped DEF HomeTypeOK
  <2>0. home \in Houses \cup {Null}
    BY <2>00 DEF HomeTypeOK, DeviceTypeOK, UserNode
  <2>1. me' \in [Users -> UserNode]
    <3>2. [own EXCEPT !.house = home] \in UserNode
      BY <2>0, <2>00 DEF UserNode
    <3>3. me' = [me EXCEPT ![u] = [own EXCEPT !.house = home]]
      BY <1>3 DEF ServeUsers
    <3> QED
      BY <3>2, <3>3 DEF HomeTypeOK, DeviceTypeOK
  <2>2. residents' \in [Users -> SUBSET Users]
    <3>1. SetHouseInfo(u, home, seen[u]) \/ UNCHANGED residents
      BY <1>3 DEF ServeUsers
    <3> QED
      BY <2>0, <3>1, HouseInfoTyped DEF HomeTypeOK, DeviceTypeOK
  <2>3. asked' \in [Users -> SUBSET {"users", "houses"}]
    BY <1>3 DEF ServeUsers, HomeTypeOK, DeviceTypeOK
  <2> QED
    BY <1>3, <2>1, <2>2, <2>3
    DEF ServeUsers, HomeTypeOK, DeviceTypeOK, LabelTypeOK, database
<1>4. CASE ServeHouses(u) /\ (LabelLost(u) \/ UNCHANGED label)
  <2>1. label' \in [Users -> Houses \cup {Null}]
    BY <1>4 DEF LabelLost, HomeTypeOK, LabelTypeOK
  <2>2. CASE Crash(u)
    BY <1>4, <2>1, <2>2, StopTyped
    DEF ServeHouses, Crash, HomeTypeOK, DeviceTypeOK, LabelTypeOK, database
  <2>3. CASE ~Crash(u)
    <3>. DEFINE hs == Answer(u).houses
    <3>1. /\ asked' = [asked EXCEPT ![u] = @ \ {"houses"}]
          /\ seen' = [seen EXCEPT ![u] = ParsedHouses(hs)]
          /\ phase' = [phase EXCEPT ![u] = IF hs = NoHouses THEN "frozen" ELSE @]
          /\ SetHouseInfo(u, me[u].house, ParsedHouses(hs)) \/ UNCHANGED residents
          /\ UNCHANGED <<uplink, screen, then, me, known, users, houses, online, week>>
      BY <1>4, <2>3 DEF ServeHouses, database
    <3>2. ParsedHouses(hs) \in [Houses -> HouseNode]
      BY AnswerTyped, NodesTyped DEF HomeTypeOK
    <3>3. asked' \in [Users -> SUBSET {"users", "houses"}]
      BY <3>1 DEF HomeTypeOK, DeviceTypeOK
    <3>4. phase' \in [Users -> Phases]
      BY <3>1 DEF HomeTypeOK, DeviceTypeOK, Phases
    <3>5. seen' \in [Users -> [Houses -> HouseNode]]
      BY <3>1, <3>2 DEF HomeTypeOK, DeviceTypeOK
    <3>6. residents' \in [Users -> SUBSET Users]
      <4>1. me[u].house \in Houses \cup {Null}
        BY DEF HomeTypeOK, DeviceTypeOK, UserNode
      <4> QED
        BY <3>1, <3>2, <4>1, HouseInfoTyped DEF HomeTypeOK, DeviceTypeOK
    <3> QED
      BY <2>1, <3>1, <3>3, <3>4, <3>5, <3>6 DEF HomeTypeOK, DeviceTypeOK, LabelTypeOK
  <2> QED
    BY <2>2, <2>3
<1> QED
  BY <1>2, <1>3, <1>4 DEF Background

\* What a completion handler of Home comes to: it rests or traps, or it
\* restarts the schedule of the user's house.
HandlerEnds(u) ==
  /\ (Rest(u) /\ UNCHANGED <<screen, me>>) \/ Crash(u)
  /\ \/ UNCHANGED label
     \/ LabelLost(u)
     \/ me[u].house \in Houses /\ label' = [label EXCEPT ![u] = me[u].house]

HandlerRestarts(u) ==
  /\ me[u].house \in Houses
  /\ \E next \in {"checkWeek", "show"} : RestartSchedule(u, me[u].house, next)

LEMMA HomeHandlersDo ==
  ASSUME HomeTypeOK, NEW u \in Users, HomeHandlers(u)
  PROVE  /\ phase[u] = "loading" /\ asked[u] = {}
         /\ UNCHANGED <<users, houses, online, week>>
         /\ HandlerEnds(u) \/ HandlerRestarts(u)
<1>. DEFINE h == me[u].house
<1>2. h = Null \/ h \in Houses
  BY DEF HomeTypeOK, DeviceTypeOK, UserNode
<1>3. /\ phase[u] = "loading" /\ asked[u] = {}
      /\ UNCHANGED <<users, houses, online, week>>
  BY DEF HomeHandlers, HomeAppeared, HomeWeekSet, HomeScheduleRestarted, HomeReloaded,
         Loaded, database
<1>4. ASSUME h \in Houses, showCurrentTask(u, h)
      PROVE  HandlerEnds(u)
  BY <1>4 DEF showCurrentTask, LabelLost, HandlerEnds
<1>5. ASSUME h \in Houses, checkIfWeekInSchedule(u, h)
      PROVE  HandlerEnds(u) \/ HandlerRestarts(u)
  BY <1>4, <1>5 DEF checkIfWeekInSchedule, HandlerRestarts
<1>6. HandlerEnds(u) \/ HandlerRestarts(u)
  <2>1. CASE HomeAppeared(u)
    <3>1. CASE h = Null
      BY <2>1, <3>1 DEF HomeAppeared, LabelLost, HandlerEnds
    <3>2. CASE h # Null /\ seen[u][h] = NoHouse
      BY <2>1, <3>2 DEF HomeAppeared, HandlerEnds
    <3>3. CASE h # Null /\ seen[u][h] # NoHouse
      <4>1. checkForEndOfYear(u, h)
        BY <2>1, <3>3 DEF HomeAppeared
      <4> QED
        BY <1>2, <1>5, <3>3, <4>1 DEF checkForEndOfYear, HandlerRestarts
    <3> QED
      BY <3>1, <3>2, <3>3
  <2>2. ASSUME h # Null, seen[u][h] # NoHouse, HomeWeekSet(u) \/ HomeScheduleRestarted(u)
        PROVE  checkIfWeekInSchedule(u, h) \/ showCurrentTask(u, h)
    BY <2>2 DEF HomeWeekSet, HomeScheduleRestarted, HomeReloaded
  <2>3. CASE HomeWeekSet(u) \/ HomeScheduleRestarted(u)
    <3>1. CASE h = Null \/ seen[u][h] = NoHouse
      BY <2>3, <3>1 DEF HomeWeekSet, HomeScheduleRestarted, HomeReloaded, LabelLost, HandlerEnds
    <3>2. CASE ~(h = Null \/ seen[u][h] = NoHouse)
      BY <1>2, <1>4, <1>5, <2>2, <2>3, <3>2
    <3> QED
      BY <3>1, <3>2
  <2> QED
    BY <2>1, <2>3 DEF HomeHandlers
<1> QED
  BY <1>3, <1>6

\* Home's completion handlers.
LEMMA HomeHandlersTyped ==
  ASSUME HomeTypeOK, NEW u \in Users, HomeHandlers(u)
  PROVE  HomeTypeOK'
<1>1. UNCHANGED <<users, houses, online, week>>
  BY HomeHandlersDo
<1>2. CASE HandlerEnds(u)
  <2>1. label' \in [Users -> Houses \cup {Null}]
    BY <1>2 DEF HandlerEnds, HomeTypeOK, LabelTypeOK, LabelLost
  <2>2. CASE Rest(u) /\ UNCHANGED <<screen, me>>
    BY <1>1, <2>1, <2>2, RestTyped DEF HomeTypeOK, DeviceTypeOK, LabelTypeOK
  <2>3. CASE Crash(u)
    BY <1>1, <2>1, <2>3, StopTyped DEF Crash, HomeTypeOK, DeviceTypeOK, LabelTypeOK
  <2> QED
    BY <1>2, <2>2, <2>3 DEF HandlerEnds
<1>3. CASE HandlerRestarts(u)
  <2>1. PICK next \in {"checkWeek", "show"} : RestartSchedule(u, me[u].house, next)
    BY <1>3 DEF HandlerRestarts
  <2>2. Run(next) \in Handlers
    BY DEF Run, Handlers, Steps
  <2>3. uplink' \in [Users -> Seq(Puts)]
    BY <1>3, <2>1, HomePutsTyped, IssueTyped DEF RestartSchedule, HandlerRestarts, HomeTypeOK
  <2> QED
    BY <1>1, <2>1, <2>2, <2>3, GetAllDataTyped
    DEF RestartSchedule, HomeTypeOK, DeviceTypeOK, LabelTypeOK
<1> QED
  BY <1>2, <1>3, HomeHandlersDo

\* Home's taps, and the launch, the end and the connection of the app.
LEMMA HomeTapsTyped ==
  ASSUME HomeTypeOK, NEW u \in Users, HomeTaps(u) \/ Lifecycle(u)
  PROVE  HomeTypeOK'
<1>2. Run("appear") \in Handlers /\ "home" \in Screens
  BY DEF Run, Handlers, Steps, Screens
<1>3. CASE Refresh(u)
  BY <1>2, <1>3, GetAllDataTyped
  DEF Refresh, HomeTypeOK, DeviceTypeOK, LabelTypeOK, database
<1>4. CASE Launch(u) /\ UNCHANGED label
  <2>1. screen' \in [Users -> Screens]
    BY <1>2, <1>4 DEF Launch, HomeTypeOK, DeviceTypeOK
  <2> QED
    BY <1>2, <1>4, <2>1, GetAllDataTyped
    DEF Launch, HomeTypeOK, DeviceTypeOK, LabelTypeOK, database
<1>5. CASE Quit(u) /\ LabelLost(u)
  <2>1. label' \in [Users -> Houses \cup {Null}]
    BY <1>5 DEF LabelLost, HomeTypeOK, LabelTypeOK
  <2> QED
    BY <1>5, <2>1, StopTyped DEF Quit, HomeTypeOK, DeviceTypeOK, LabelTypeOK, database
<1>6. CASE DinnerSwitch(u)
  <2>1. CASE known[u]
    <3>1. PICK on \in BOOLEAN : Issue(u, <<SetDinner(u, on)>>)
      BY <1>6, <2>1 DEF DinnerSwitch
    <3>2. Houses # {} => uplink' \in [Users -> Seq(Puts)]
      BY <3>1, HomePutsTyped, IssueTyped DEF HomeTypeOK
    <3>3. <<SetDinner(u, on)>> \in Seq(Puts)
      BY DEF SetDinner, Puts
    <3>4. uplink' \in [Users -> Seq(Puts)]
      BY <3>1, <3>3, IssueTyped DEF HomeTypeOK
    <3> QED
      BY <1>6, <2>1, <3>4
      DEF DinnerSwitch, HomeTypeOK, DeviceTypeOK, LabelTypeOK, memory, database
  <2>2. CASE ~known[u]
    <3>1. label' \in [Users -> Houses \cup {Null}]
      BY <1>6, <2>2 DEF DinnerSwitch, HomeTypeOK, LabelTypeOK
    <3>2. PICK on \in BOOLEAN : LastWrite(u, SetDinner(u, on))
      BY <1>6, <2>2 DEF DinnerSwitch
    <3>3. users' \in [Users -> UserNode] /\ houses' \in [Houses -> HouseNode]
      BY <3>2, LastWriteTyped DEF HomeTypeOK
    <3> QED
      BY <1>6, <2>2, <3>1, <3>3, StopTyped
      DEF DinnerSwitch, Crash, HomeTypeOK, DeviceTypeOK, LabelTypeOK
  <2> QED
    BY <2>1, <2>2
<1>7. CASE (LoseConnection(u) \/ RegainConnection(u)) /\ UNCHANGED label
  BY <1>7
  DEF LoseConnection, RegainConnection, HomeTypeOK, DeviceTypeOK, LabelTypeOK, memory, database
<1> QED
  BY <1>3, <1>4, <1>5, <1>6, <1>7 DEF HomeTaps, Lifecycle

\* The states a run starts from.
LEMMA HomeInitTyped ==
  ASSUME HomeInit
  PROVE  HomeTypeOK
<1>1. PICK homes \in [Users -> Houses \cup {Null}] :
        /\ users = [u \in Users |-> [NoUser EXCEPT !.house = homes[u]]]
        /\ houses = [h \in Houses |-> InitialHouse(homes, h)]
  BY DeviceAssumption DEF HomeInit, DeviceInit
<1>2. users \in [Users -> UserNode]
  <2>1. \A r \in UserNode, x \in Houses \cup {Null} : [r EXCEPT !.house = x] \in UserNode
    BY DEF UserNode
  <2>2. \A u \in Users : homes[u] \in Houses \cup {Null}
    BY <1>1
  <2> QED
    BY <1>1, <2>1, <2>2, NodesTyped
<1>3. \A h \in Houses : InitialHouse(homes, h) \in HouseNode
  <2>1. ((FirstWeek - 1) % WeeksInYear) + 1 \in Int
    BY DeviceAssumption
  <2>2. (CHOOSE p \in Passwords : TRUE) \in Passwords
    BY NamesAssumption
  <2>3. InitialStock \in Int
    BY DeviceAssumption
  <2>4. InitialTasks \cup {DefaultTask} \subseteq Tasks
    BY DeviceAssumption, NamesAssumption
  <2> QED
    BY <2>1, <2>2, <2>3, <2>4, NodesTyped DEF InitialHouse, HouseNode
<1>4. houses \in [Houses -> HouseNode]
  BY <1>1, <1>3
<1>5. uplink \in [Users -> Seq(Puts)]
  BY DEF HomeInit, DeviceInit
<1>6. Nothing \in Handlers /\ "off" \in Phases /\ "home" \in Screens
  BY DEF Nothing, Run, Handlers, Steps, Phases, Screens
<1> QED
  BY <1>2, <1>4, <1>5, <1>6, NodesTyped, DeviceAssumption
  DEF HomeInit, DeviceInit, HomeTypeOK, DeviceTypeOK, LabelTypeOK

-----------------------------------------------------------------------------
(* The tree ahead.                                                         *)

LEMMA TreeAhead ==
  ASSUME DeviceTypeOK
  PROVE  Ahead \in Trees
<1>1. Server \in Trees /\ OnTheirWay \in Seq(Puts)
  <2>1. CASE \A u \in Users : uplink[u] = << >>
    BY <2>1 DEF Server, OnTheirWay, Trees, DeviceTypeOK
  <2>2. CASE ~(\A u \in Users : uplink[u] = << >>)
    BY <2>2 DEF Server, OnTheirWay, Trees, DeviceTypeOK
  <2> QED
    BY <2>1, <2>2
<1> QED
  BY <1>1, AppliedTyped DEF Ahead

\* The only queue with writes in it.
LEMMA OneQueue ==
  ASSUME NEW up, NEW u \in Users, \A v \in Users \ {u} : up[v] = << >>
  PROVE  (IF \A w \in Users : up[w] = << >> THEN << >>
          ELSE up[CHOOSE w \in Users : up[w] # << >>]) = up[u]
<1>1. CASE \A w \in Users : up[w] = << >>
  BY <1>1
<1>2. CASE ~(\A w \in Users : up[w] = << >>)
  <2>1. (CHOOSE w \in Users : up[w] # << >>) = u
    BY <1>2
  <2> QED
    BY <1>2, <2>1
<1> QED
  BY <1>1, <1>2

\* The two records of who lives where agree, and no house is half there.
Agreed(tree) ==
  /\ \A v \in Users, h \in Houses :
       v \in tree.houses[h].residents <=> tree.users[v].house = h
  /\ Parsable(tree.houses)

\* Who is listed is there, and who is there is listed by a complete house.
LEMMA HomesAreOpen ==
  ASSUME NEW tree \in Trees, Agreed(tree), NEW h \in Houses
  PROVE  /\ tree.houses[h] # NoHouse <=> \E v \in Users : tree.users[v].house = h
         /\ tree.houses[h] # NoHouse => Complete(tree.houses[h])
<1>1. tree.houses[h] # NoHouse => Complete(tree.houses[h])
  BY DEF Agreed, Parsable
<1>2. tree.houses[h].residents \in SUBSET Users
  BY DEF Trees, HouseNode
<1>3. \A v \in Users : v \in tree.houses[h].residents <=> tree.users[v].house = h
  BY DEF Agreed
<1> QED
  BY <1>1, <1>2, <1>3 DEF Complete, NoHouse

\* What parsing the houses keeps.
LEMMA ParsedKeeps ==
  ASSUME NEW hs \in [Houses -> HouseNode], NEW h \in Houses
  PROVE  /\ ParsedHouses(hs)[h].password = hs[h].password
         /\ ParsedHouses(hs)[h].residents = hs[h].residents
         /\ ParsedHouses(hs)[h].firstWeek = hs[h].firstWeek
         /\ ParsedHouses(hs)[h].drinks = hs[h].drinks
         /\ hs[h] # NoHouse /\ Complete(hs[h]) => ParsedHouses(hs)[h] # NoHouse
         /\ hs[h] = NoHouse => ParsedHouses(hs)[h] = NoHouse
<1>1. ParsedHouses(hs)[h] = [hs[h] EXCEPT !.tasks = ParsedTasks(@)] /\ hs[h] \in HouseNode
  BY DEF ParsedHouses
<1>2. /\ ParsedHouses(hs)[h].password = hs[h].password
      /\ ParsedHouses(hs)[h].residents = hs[h].residents
      /\ ParsedHouses(hs)[h].firstWeek = hs[h].firstWeek
      /\ ParsedHouses(hs)[h].drinks = hs[h].drinks
  BY <1>1 DEF HouseNode
<1>3. Complete(hs[h]) => hs[h].password # Null
  BY DEF Complete
<1>4. ParsedTasks({}) = {}
  BY DEF ParsedTasks
<1>5. hs[h] = NoHouse => ParsedHouses(hs)[h] = NoHouse
  BY <1>1, <1>4 DEF NoHouse
<1> QED
  BY <1>2, <1>3, <1>5 DEF NoHouse

-----------------------------------------------------------------------------
(* The one phone with writes on their way, and its copy of the tree ahead. *)

Sole(u) ==
  /\ HomeTypeOK
  /\ Agreed(Ahead)
  /\ \A v \in Users \ {u} : uplink[v] = << >>

LEMMA SoleFacts ==
  ASSUME NEW u \in Users, Sole(u)
  PROVE  /\ uplink[u] \in Seq(Puts)
         /\ OnTheirWay = uplink[u]
         /\ Server \in Trees
         /\ Ahead \in Trees
         /\ Ahead = Applied(Server, uplink[u])
         /\ Answer(u) = Ahead
         /\ uplink[u] = << >> => Ahead = Server
<1>1. uplink[u] \in Seq(Puts) /\ Server \in Trees
  BY DEF Sole, HomeTypeOK, DeviceTypeOK, Server, Trees
<1>2. OnTheirWay = uplink[u]
  BY OneQueue DEF OnTheirWay, Sole
<1> QED
  BY <1>1, <1>2, AppliedTyped, AppliedNothing DEF Ahead, Answer

\* The copy is that of the tree ahead.
Home(u) == Ahead.users[u].house
CopiedHome(u) == me[u].house = Home(u) /\ known[u]
CopiedHouses(u) == seen[u] = ParsedHouses(Ahead.houses)
CopiedResidents(u) ==
  me[u].house # Null => residents[u] = Ahead.houses[me[u].house].residents

Current(u) ==
  /\ asked[u] = {}
  /\ CopiedHome(u) /\ CopiedHouses(u) /\ CopiedResidents(u)

\* A load: what each answer has brought, and what a restart is followed by.
Underway(u) ==
  /\ asked[u] # {"users", "houses"} => uplink[u] = << >>
  /\ "users" \notin asked[u] => CopiedHome(u)
  /\ "houses" \notin asked[u] => CopiedHouses(u)
  /\ asked[u] = {} => CopiedResidents(u)
  /\ then[u].step \in {"checkWeek", "show"} =>
       /\ me[u].house # Null /\ me[u].house = Home(u)
       /\ Ahead.houses[Home(u)].firstWeek = getCurrentWeek

\* The residents of the house copied.
LEMMA HouseInfoCopied ==
  ASSUME NEW u \in Users, Sole(u), NEW home \in Houses \cup {Null}, home = Home(u),
         NEW hs, hs = ParsedHouses(Ahead.houses), SetHouseInfo(u, home, hs)
  PROVE  home # Null => residents'[u] = Ahead.houses[home].residents
<1> SUFFICES ASSUME home # Null PROVE residents'[u] = Ahead.houses[home].residents
  OBVIOUS
<1>1. Ahead \in Trees /\ Agreed(Ahead) /\ home \in Houses
  BY SoleFacts DEF Sole
<1>2. Ahead.houses[home] # NoHouse /\ Complete(Ahead.houses[home])
  BY <1>1, HomesAreOpen DEF Home
<1>3. hs[home] # NoHouse /\ hs[home].residents = Ahead.houses[home].residents
  BY <1>1, <1>2, ParsedKeeps DEF Trees
<1> QED
  BY <1>3 DEF SetHouseInfo, Sole, HomeTypeOK, DeviceTypeOK

\* The answers of a load copy the tree ahead.
LEMMA UsersCopied ==
  ASSUME NEW u \in Users, u \notin Offline, Sole(u), Ahead' = Ahead, ServeUsers(u),
         Home(u) = Null => me[u].house = Null, phase[u] = "loading" => Underway(u)
  PROVE  /\ "users" \in asked[u] /\ uplink[u] = << >> /\ Ahead = Server
         /\ UNCHANGED <<users, houses, uplink, online, phase, screen, then, seen, week>>
         /\ me'[u] = Ahead.users[u] /\ known'[u]
         /\ phase[u] = "loading" => Underway(u)'
<1>. DEFINE home == IF users[u].house = Null THEN me[u].house ELSE users[u].house
<1>0. uplink[u] = << >> /\ Answer(u).users = users
  BY ConnectedAnswer DEF ServeUsers
<1>1. Home(u)' = Home(u)
  BY DEF Home
<1>2. /\ "users" \in asked[u] /\ uplink[u] = << >>
      /\ UNCHANGED <<users, houses, uplink, online, phase, screen, then, seen, week>>
      /\ asked'[u] = asked[u] \ {"users"} /\ known'[u]
      /\ me' = [me EXCEPT ![u] = [users[u] EXCEPT !.house = home]]
  BY <1>0 DEF ServeUsers, database, Sole, HomeTypeOK, DeviceTypeOK
<1>3. Ahead = Server
  BY <1>2, SoleFacts
<1>4. home = Home(u) /\ home = users[u].house
  BY <1>3 DEF Home, Server
<1>5. me'[u] = Ahead.users[u] /\ me'[u].house = Home(u)
  <2>1. users[u] \in UserNode /\ me \in [Users -> UserNode]
    BY DEF Sole, HomeTypeOK, DeviceTypeOK
  <2>2. [users[u] EXCEPT !.house = home] = users[u]
    BY <1>4, <2>1 DEF UserNode
  <2> QED
    BY <1>2, <1>3, <1>4, <2>1, <2>2 DEF Server
<1>6. getCurrentWeek' = getCurrentWeek
  BY <1>2 DEF getCurrentWeek
<1>7. ASSUME phase[u] = "loading", asked'[u] = {} PROVE CopiedResidents(u)'
  <2>1. asked[u] = {"users"}
    BY <1>2, <1>7 DEF Sole, HomeTypeOK, DeviceTypeOK
  <2>2. SetHouseInfo(u, home, seen[u])
    BY <1>0, <1>7, <2>1 DEF ServeUsers
  <2>3. seen[u] = ParsedHouses(Ahead.houses)
    BY <1>7, <2>1 DEF Underway, CopiedHouses
  <2>4. home \in Houses \cup {Null}
    BY DEF Sole, HomeTypeOK, DeviceTypeOK, UserNode
  <2>5. home # Null => residents'[u] = Ahead.houses[home].residents
    BY <1>4, <2>2, <2>3, <2>4, HouseInfoCopied
  <2> QED
    BY <1>4, <1>5, <2>5 DEF CopiedResidents
<1>8. phase[u] = "loading" => Underway(u)'
  BY <1>1, <1>2, <1>5, <1>6, <1>7 DEF Underway, CopiedHome, CopiedHouses
<1> QED
  BY <1>2, <1>3, <1>5, <1>8

LEMMA HousesCopied ==
  ASSUME NEW u \in Users, u \notin Offline, Sole(u), Ahead' = Ahead, ServeHouses(u),
         phase[u] = "loading" => Underway(u)
  PROVE  /\ "houses" \in asked[u] /\ uplink[u] = << >> /\ Ahead = Server
         /\ UNCHANGED <<users, houses, uplink, online, screen, then, me, known, week>>
         /\ phase'[u] = IF Ahead.houses = NoHouses THEN "frozen" ELSE phase[u]
         /\ phase[u] = "loading" => Underway(u)'
<1>1. Home(u)' = Home(u)
  BY DEF Home
<1>2. "houses" \in asked[u] /\ uplink[u] = << >> /\ Answer(u).houses = houses
  BY ConnectedAnswer DEF ServeHouses
<1>3. Ahead = Server
  BY <1>2, SoleFacts
<1>4. Parsable(houses)
  BY <1>3 DEF Sole, Agreed, Server
<1>5. /\ UNCHANGED <<users, houses, uplink, online, screen, then, me, known, week>>
      /\ asked'[u] = asked[u] \ {"houses"}
      /\ seen'[u] = ParsedHouses(houses)
      /\ phase'[u] = IF houses = NoHouses THEN "frozen" ELSE phase[u]
      /\ asked[u] = {"houses"} => SetHouseInfo(u, me[u].house, ParsedHouses(houses))
  BY <1>2, <1>4 DEF ServeHouses, database, Sole, HomeTypeOK, DeviceTypeOK
<1>6. getCurrentWeek' = getCurrentWeek
  BY <1>5 DEF getCurrentWeek
<1>7. CopiedHouses(u)'
  BY <1>3, <1>5 DEF CopiedHouses, Server
<1>8. ASSUME phase[u] = "loading", asked'[u] = {} PROVE CopiedResidents(u)'
  <2>1. asked[u] = {"houses"}
    <3>1. asked[u] \ {"houses"} = {}
      BY <1>5, <1>8
    <3> QED
      BY <1>2, <3>1
  <2>2. me[u].house = Home(u)
    BY <1>8, <2>1 DEF Underway, CopiedHome
  <2>3. me[u].house \in Houses \cup {Null}
    BY DEF Sole, HomeTypeOK, DeviceTypeOK, UserNode
  <2>4. SetHouseInfo(u, me[u].house, ParsedHouses(Ahead.houses))
    BY <1>3, <1>5, <2>1 DEF Server
  <2>5. me[u].house # Null => residents'[u] = Ahead.houses[me[u].house].residents
    BY <2>2, <2>3, <2>4, HouseInfoCopied
  <2> QED
    BY <1>5, <2>5 DEF CopiedResidents
<1>9. phase[u] = "loading" => Underway(u)'
  BY <1>1, <1>2, <1>5, <1>6, <1>7, <1>8 DEF Underway, CopiedHome
<1> QED
  BY <1>2, <1>3, <1>5, <1>9 DEF Server

-----------------------------------------------------------------------------
(* Home: its completion handlers, with the copy of the tree ahead, never   *)
(* trap, and leave a task of the house on the label.                       *)

\* The house Home shows, when its load has completed.
LEMMA HouseCopied ==
  ASSUME IsFiniteSet(Users), NEW u \in Users, Sole(u), Current(u),
         NEW h, h = me[u].house, h # Null
  PROVE  /\ h \in Houses /\ h = Home(u)
         /\ seen[u][h] # NoHouse /\ u \in seen[u][h].residents
         /\ seen[u][h].firstWeek = Ahead.houses[h].firstWeek
         /\ seen[u][h].firstWeek \in Int
         /\ Ahead.houses[h] # NoHouse
         /\ Cardinality(residents[u]) \in Nat /\ Cardinality(residents[u]) > 0
<1>1. h \in Houses /\ h = Home(u) /\ seen[u] = ParsedHouses(Ahead.houses)
      /\ residents[u] = Ahead.houses[h].residents
  BY DEF Current, CopiedHome, CopiedHouses, CopiedResidents, Sole, HomeTypeOK, DeviceTypeOK, UserNode
<1>2. Ahead \in Trees /\ Agreed(Ahead)
  BY SoleFacts DEF Sole
<1>3. Ahead.houses[h] # NoHouse /\ Complete(Ahead.houses[h])
  BY <1>1, <1>2, HomesAreOpen DEF Home
<1>4. /\ seen[u][h] # NoHouse
      /\ seen[u][h].residents = Ahead.houses[h].residents
      /\ seen[u][h].firstWeek = Ahead.houses[h].firstWeek
  BY <1>1, <1>2, <1>3, ParsedKeeps DEF Trees
<1>5. u \in Ahead.houses[h].residents
  BY <1>1, <1>2 DEF Agreed, Home
<1>6. /\ Ahead.houses[h].firstWeek \in Int
      /\ Ahead.houses[h].residents \in SUBSET Users
  BY <1>1, <1>2, <1>3 DEF Trees, HouseNode, Complete
<1>7. IsFiniteSet(residents[u]) /\ residents[u] # {}
  BY <1>1, <1>5, <1>6, FS_Subset
<1> QED
  BY <1>1, <1>3, <1>4, <1>5, <1>6, <1>7, FS_CardinalityType, FS_EmptySet

\* A completion handler of Home shows the task of the user's house.
Shows(u) ==
  /\ Rest(u) /\ UNCHANGED <<screen, me>>
  /\ label'[u] # Null =>
       me[u].house # Null /\ (label'[u] = me[u].house \/ seen[u][me[u].house].tasks = {})

LEMMA HandlersShow ==
  ASSUME IsFiniteSet(Users), NEW u \in Users, Sole(u), HomeHandlers(u), Underway(u)
  PROVE  Shows(u) \/ HandlerRestarts(u)
<1>. DEFINE h == me[u].house
            node == seen[u][h]
<1>1. phase[u] = "loading" /\ asked[u] = {}
  BY HomeHandlersDo DEF Sole
<1>2. Current(u)
  BY <1>1 DEF Underway, Current
<1>3. h # Null =>
        /\ h \in Houses /\ h = Home(u)
        /\ node # NoHouse /\ u \in node.residents
        /\ node.firstWeek = Ahead.houses[h].firstWeek
        /\ node.firstWeek \in Int
        /\ Cardinality(residents[u]) \in Nat /\ Cardinality(residents[u]) > 0
  BY <1>2, HouseCopied
<1>4. getCurrentWeek \in Int
  BY DeviceAssumption DEF getCurrentWeek, Sole, HomeTypeOK, DeviceTypeOK
<1>5. ASSUME h # Null, showCurrentTask(u, h), InRows(u, node) PROVE Shows(u)
  <2>1. label \in [Users -> Houses \cup {Null}]
    BY DEF Sole, HomeTypeOK, LabelTypeOK
  <2> QED
    BY <1>3, <1>5, <2>1 DEF showCurrentTask, Shows
<1>6. ASSUME h # Null, checkIfWeekInSchedule(u, h), ~(getCurrentWeek < node.firstWeek)
      PROVE  Shows(u) \/ HandlerRestarts(u)
  <2>1. CASE PastSchedule(u, node)
    BY <1>3, <1>6, <2>1 DEF checkIfWeekInSchedule, HandlerRestarts
  <2>2. CASE ~PastSchedule(u, node)
    <3>1. InRows(u, node)
      BY <1>3, <1>4, <1>6, <2>2 DEF PastSchedule, InRows, weekIndex
    <3> QED
      BY <1>5, <1>6, <2>2, <3>1 DEF checkIfWeekInSchedule
  <2> QED
    BY <2>1, <2>2
<1>7. CASE HomeAppeared(u)
  <2>1. CASE h = Null
    BY <1>7, <2>1 DEF HomeAppeared, Shows, Sole, HomeTypeOK, LabelTypeOK
  <2>2. CASE h # Null
    <3>1. checkForEndOfYear(u, h)
      BY <1>3, <1>7, <2>2 DEF HomeAppeared
    <3>2. CASE getCurrentWeek < node.firstWeek
      BY <1>3, <2>2, <3>1, <3>2 DEF checkForEndOfYear, HandlerRestarts
    <3>3. CASE ~(getCurrentWeek < node.firstWeek)
      BY <1>6, <2>2, <3>1, <3>3 DEF checkForEndOfYear
    <3> QED
      BY <3>2, <3>3
  <2> QED
    BY <2>1, <2>2
<1>8. CASE HomeWeekSet(u) \/ HomeScheduleRestarted(u)
  <2>1. then[u].step \in {"checkWeek", "show"}
    BY <1>8 DEF HomeWeekSet, HomeScheduleRestarted, HomeReloaded, Loaded
  <2>2. h # Null /\ node.firstWeek = getCurrentWeek
    BY <1>1, <1>2, <1>3, <2>1 DEF Underway
  <2>3. checkIfWeekInSchedule(u, h) \/ showCurrentTask(u, h)
    BY <1>3, <1>8, <2>2 DEF HomeWeekSet, HomeScheduleRestarted, HomeReloaded
  <2>4. InRows(u, node) /\ ~(getCurrentWeek < node.firstWeek)
    BY <1>3, <1>4, <2>2 DEF InRows, weekIndex
  <2> QED
    BY <1>5, <1>6, <2>2, <2>3, <2>4
<1> QED
  BY <1>7, <1>8 DEF HomeHandlers
=============================================================================
