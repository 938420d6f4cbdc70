------------------------------- MODULE Device -------------------------------
(***************************************************************************)
(* A phone running RoomMate, and the Realtime Database it talks to.        *)
(*                                                                         *)
(* Every screen of the app works on the global struct CurrentUser, which   *)
(* getAllData refreshes with one read of users/ and one of houses/, and    *)
(* writes with setValue/removeValue, which return at once and are sent in  *)
(* the order of the calls.  The two meet on one connection per phone.      *)
(* While it lasts, the server answers a read after it has applied the      *)
(* phone's earlier writes; a phone that reconnects sends its reads again   *)
(* before its writes, and sees the answer with those writes on top.        *)
(* Nothing orders the two reads of a load, nor one phone's writes with     *)
(* another's.                                                              *)
(*                                                                         *)
(* A screen's code runs when its load completes: "then" says which         *)
(* completion handler waits.  A failed force unwrap or an index out of     *)
(* range ends the process: Crash.  The modules of the screens extend this  *)
(* one.                                                                    *)
(***************************************************************************)
EXTENDS Database

CONSTANTS
  InitialHomes, \* the states of the database a run starts from: who lives where
  InitialTasks, \* the tasks every initial house has, besides "default"
  InitialStock, \* the drinks in every initial house
  FirstWeek,    \* the running number of the week a run starts in
  LastWeek,     \* bound: the last week a run reaches
  WeeksInYear,  \* 52, or fewer to have a new year within the bound
  Killable,     \* the users whose app may be killed with writes unsent
  Offline,      \* the users whose phone may lose its connection
  MaxUnsent     \* bound: no new writes while more than this many are unsent

ASSUME DeviceAssumption ==
  /\ InitialHomes \subseteq [Users -> Houses \cup {Null}]
  /\ InitialTasks \subseteq Tasks
  /\ InitialStock \in Nat
  /\ FirstWeek \in Nat /\ LastWeek \in Nat /\ WeeksInYear \in Nat \ {0}
  /\ FirstWeek > 0
  /\ Killable \subseteq Users /\ Offline \subseteq Users
  /\ MaxUnsent \in Nat

VARIABLES
  users,   \* server: users/
  houses,  \* server: houses/
  uplink,  \* per phone, the writes issued and not yet applied by the server
  online,  \* per phone, whether checkInternetConnection succeeds
  phase,   \* per phone, see Phases
  screen,  \* per phone, the view controller on top
  then,    \* per phone, what runs when the load completes, or an alert shows
  asked,   \* per phone, the reads of the load without an answer yet
  me,      \* CurrentUser.user
  known,   \* CurrentUser.users holds the phone's own user
  seen,    \* CurrentUser.houses
  residents, \* CurrentUser.residents
  week     \* running number of the current week

database == <<users, houses>>
memory == <<me, known, seen, residents>>
deviceVars == <<users, houses, uplink, online, phase, screen, then, asked,
                me, known, seen, residents, week>>

(* "off": not running; "crashed": ended by a trap; "loading": interaction  *)
(* ignored until the completion handler; "ready": takes taps; "alert": a   *)
(* popping alert waits for Okay; "frozen": interaction ignored for good.   *)
Phases == {"off", "crashed", "loading", "ready", "alert", "frozen"}
Screens == {"home", "dinner", "yourHouse", "clean", "schedule", "drink", "add",
            "overview", "profile", "pick", "new"}
Steps == {"none", "appear", "checkWeek", "show", "dinner", "clean", "scheduled",
          "drinks", "drunk", "add", "added", "overview", "trashed", "profile",
          "picker", "joined", "created"}
Handlers == [step: Steps, house: Houses \cup {Null}]
Run(step) == [step |-> step, house |-> Null]
Nothing == Run("none")

NoUser == [house |-> Null, drinks |-> 0, drinksToBuy |-> 0, dinner |-> FALSE]

getCurrentWeek == ((week - 1) % WeeksInYear) + 1

Running(u) == phase[u] \notin {"off", "crashed"}
Ready(u, s) == phase[u] = "ready" /\ screen[u] = s
Loaded(u, step) ==
  phase[u] = "loading" /\ asked[u] = {} /\ then[u].step = step

DeviceTypeOK ==
  /\ users \in [Users -> UserNode]
  /\ houses \in [Houses -> HouseNode]
  /\ uplink \in [Users -> Seq(Puts)]
  /\ online \in [Users -> BOOLEAN]
  /\ phase \in [Users -> Phases]
  /\ screen \in [Users -> Screens]
  /\ then \in [Users -> Handlers]
  /\ asked \in [Users -> SUBSET {"users", "houses"}]
  /\ me \in [Users -> UserNode]
  /\ known \in [Users -> BOOLEAN]
  /\ seen \in [Users -> [Houses -> HouseNode]]
  /\ residents \in [Users -> SUBSET Users]
  /\ week \in Nat \ {0}

-----------------------------------------------------------------------------
(* What the steps below are made of.                                       *)

\* setValue and removeValue: queued, in order, behind what is still unsent.
Issue(u, puts) == uplink' = [uplink EXCEPT ![u] = @ \o puts]

\* getAllData { next }: without a connection an alert is all that happens.
GetAllData(u, next) ==
  IF online[u]
  THEN /\ phase' = [phase EXCEPT ![u] = "loading"]
       /\ then' = [then EXCEPT ![u] = next]
       /\ asked' = [asked EXCEPT ![u] = {"users", "houses"}]
       /\ seen' = [seen EXCEPT ![u] = NoHouses]
       /\ known' = [known EXCEPT ![u] = FALSE]
  ELSE /\ phase' = [phase EXCEPT ![u] = "ready"]
       /\ then' = [then EXCEPT ![u] = Nothing]
       /\ UNCHANGED <<asked, seen, known>>

\* The completion handler is done and the screen takes taps again.
Rest(u) ==
  /\ phase' = [phase EXCEPT ![u] = "ready"]
  /\ then' = [then EXCEPT ![u] = Nothing]
  /\ UNCHANGED <<uplink, asked, known, seen, residents>>

\* The process ends; what it held in memory goes with it, unsent writes too.
Stop(u, how) ==
  /\ phase' = [phase EXCEPT ![u] = how]
  /\ screen' = [screen EXCEPT ![u] = "home"]
  /\ uplink' = [uplink EXCEPT ![u] = <<>>]
  /\ then' = [then EXCEPT ![u] = Nothing]
  /\ asked' = [asked EXCEPT ![u] = {}]
  /\ me' = [me EXCEPT ![u] = NoUser]
  /\ known' = [known EXCEPT ![u] = FALSE]
  /\ seen' = [seen EXCEPT ![u] = NoHouses]
  /\ residents' = [residents EXCEPT ![u] = {}]

Crash(u) == Stop(u, "crashed")

-----------------------------------------------------------------------------
(* The server and the connection.                                          *)

Server == [users |-> users, houses |-> houses]

\* What a read shows: the client lays the phone's own writes that are still
\* on their way over what the server sends.
Answer(u) == Applied(Server, uplink[u])

\* A connection that lasts keeps writes and reads in order.  One that is lost,
\* be it for an instant, is restored with the reads first.
Answerable(u) == online[u] /\ (uplink[u] = <<>> \/ u \in Offline)

\* A write issued as the process ends: lost, or already sent.
LastWrite(u, put) ==
  \/ UNCHANGED database
  \/ /\ online[u]
     /\ users' = UsersAfter(users, put)
     /\ houses' = HousesAfter(houses, put)

ApplyPut(u) ==
  /\ online[u]
  /\ uplink[u] # <<>>
  /\ users' = UsersAfter(users, Head(uplink[u]))
  /\ houses' = HousesAfter(houses, Head(uplink[u]))
  /\ uplink' = [uplink EXCEPT ![u] = Tail(@)]
  /\ UNCHANGED <<online, phase, screen, then, asked, memory, week>>

\* The last block of getAllData, once both reads are in: CurrentUser.residents
\* follows the house, if there is one.
SetHouseInfo(u, home, hs) ==
  residents' = [residents EXCEPT ![u] =
                  IF home # Null /\ hs[home] # NoHouse THEN hs[home].residents ELSE @]

\* What if: getUsers returned early for a user who has no house.
ServeUsers_HouseRequired(u) ==
  /\ Answer(u).users[u].house # Null
  /\ "users" \in asked[u]
  /\ Answerable(u)
  /\ asked' = [asked EXCEPT ![u] = @ \ {"users"}]
  /\ known' = [known EXCEPT ![u] = TRUE]
  /\ me' = [me EXCEPT ![u] = Answer(u).users[u]]
  /\ SetHouseInfo(u, Answer(u).users[u].house, seen[u])
  /\ UNCHANGED <<database, uplink, online, phase, screen, then, seen, week>>

\* getUsers: a user without a house keeps the house CurrentUser.user had.
ServeUsers(u) ==
  LET own == Answer(u).users[u]
      home == IF own.house = Null THEN me[u].house ELSE own.house IN
  /\ "users" \in asked[u]
  /\ Answerable(u)
  /\ asked' = [asked EXCEPT ![u] = @ \ {"users"}]
  /\ known' = [known EXCEPT ![u] = TRUE]
  /\ me' = [me EXCEPT ![u] = [own EXCEPT !.house = home]]
  /\ IF asked[u] = {"users"} /\ phase[u] = "loading"
     THEN SetHouseInfo(u, home, seen[u])
     ELSE UNCHANGED residents
  /\ UNCHANGED <<database, uplink, online, phase, screen, then, seen, week>>

\* getHouses: a house with a child missing and the loop traps; no house at
\* all and the completion handler is never called.
ServeHouses(u) ==
  LET hs == Answer(u).houses IN
  /\ "houses" \in asked[u]
  /\ Answerable(u)
  /\ \/ ~Parsable(hs) /\ Crash(u)
     \/ /\ Parsable(hs)
        /\ asked' = [asked EXCEPT ![u] = @ \ {"houses"}]
        /\ seen' = [seen EXCEPT ![u] = ParsedHouses(hs)]
        /\ phase' = [phase EXCEPT ![u] = IF hs = NoHouses THEN "frozen" ELSE @]
        /\ IF asked[u] = {"houses"}
           THEN SetHouseInfo(u, me[u].house, ParsedHouses(hs))
           ELSE UNCHANGED residents
        /\ UNCHANGED <<uplink, screen, then, me, known>>
  /\ UNCHANGED <<database, online, week>>

\* Bound: a phone changes its connection only while no load is under way.
Settled(u) == phase[u] \notin {"loading", "frozen"}

LoseConnection(u) ==
  /\ u \in Offline
  /\ online[u] /\ Settled(u)
  /\ online' = [online EXCEPT ![u] = FALSE]
  /\ UNCHANGED <<database, uplink, phase, screen, then, asked, memory, week>>

RegainConnection(u) ==
  /\ ~online[u]
  /\ online' = [online EXCEPT ![u] = TRUE]
  /\ UNCHANGED <<database, uplink, phase, screen, then, asked, memory, week>>

-----------------------------------------------------------------------------
(* The tree as it will be when the writes on their way are applied, as     *)
(* long as only one phone at a time has any.                               *)

OnTheirWay ==
  IF \A u \in Users : uplink[u] = <<>> THEN <<>>
  ELSE uplink[CHOOSE u \in Users : uplink[u] # <<>>]

Ahead == Applied(Server, OnTheirWay)

-----------------------------------------------------------------------------
(* The process and the calendar.                                           *)

\* showApp with a user signed in: the tab bar opens on Home, which loads.
Launch(u) ==
  /\ ~Running(u)
  /\ screen' = [screen EXCEPT ![u] = "home"]
  /\ GetAllData(u, Run("appear"))
  /\ UNCHANGED <<database, uplink, online, me, residents, week>>

\* The user or iOS ends the app; only a Killable user loses writes by it.
Quit(u) ==
  /\ Running(u)
  /\ uplink[u] = <<>> \/ u \in Killable
  /\ Stop(u, "off")
  /\ UNCHANGED <<database, online, week>>

NewWeek ==
  /\ week < LastWeek
  /\ week' = week + 1
  /\ UNCHANGED <<database, uplink, online, phase, screen, then, asked, memory>>

-----------------------------------------------------------------------------
(* A database as earlier use left it: every house complete and lived in by *)
(* exactly the users registered to it; no app is running.                  *)

InitialHouse(homes, h) ==
  IF \A u \in Users : homes[u] # h THEN NoHouse
  ELSE [password |-> CHOOSE p \in Passwords : TRUE, drinks |-> InitialStock,
        firstWeek |-> ((FirstWeek - 1) % WeeksInYear) + 1,
        residents |-> {u \in Users : homes[u] = h},
        tasks |-> InitialTasks \cup {DefaultTask}]

DeviceInit ==
  /\ \E homes \in InitialHomes :
       /\ users = [u \in Users |-> [NoUser EXCEPT !.house = homes[u]]]
       /\ houses = [h \in Houses |-> InitialHouse(homes, h)]
  /\ uplink = [u \in Users |-> <<>>]
  /\ online = [u \in Users |-> TRUE]
  /\ phase = [u \in Users |-> "off"]
  /\ screen = [u \in Users |-> "home"]
  /\ then = [u \in Users |-> Nothing]
  /\ asked = [u \in Users |-> {}]
  /\ me = [u \in Users |-> NoUser]
  /\ known = [u \in Users |-> FALSE]
  /\ seen = [u \in Users |-> NoHouses]
  /\ residents = [u \in Users |-> {}]
  /\ week = FirstWeek
=============================================================================
